----------------------------- MODULE LexerProofs ------------------------------
(***************************************************************************)
(* Theorems about Lexer: the positions of its tokens follow the source and *)
(* its blocks open before they close, for every set of sources.            *)
(***************************************************************************)
EXTENDS Lexer, TLAPS, SequenceTheorems, FiniteSetTheorems, WellFoundedInduction

Types == {"NEWLINE", "INDENT", "DEDENT", "EOF", "NAME", "STRING", "+", "(", ")"}

Tokens == [type : Types, line : Int, column : Int, offset : Nat]

-------------------------------------------------------------------------------
(* Natural numbers, spans and counts *)

\* A set of natural numbers that is not empty has a least one.
LEMMA LeastNumber ==
  ASSUME NEW S \in SUBSET Nat, S # {}
  PROVE  \E m \in S : \A k \in S : m <= k
<1> DEFINE R == {p \in Nat \X Nat : p[1] < p[2]}
<1>1. IsWellFoundedOn(R, Nat)
  BY NatLessThanWellFounded DEF OpToRel
<1>2. \A x, y \in S : << y, x >> \in R <=> y < x
  OBVIOUS
<1> HIDE DEF R
<1>3. PICK m \in S : \A k \in S : ~ (<< k, m >> \in R)
  BY <1>1, WFMin
<1>4. \A k \in S : m <= k
  <2> TAKE k \in S
  <2>1. ~ (k < m)
    BY <1>2, <1>3
  <2>2. k \in Nat /\ m \in Nat
    OBVIOUS
  <2>3. QED
    BY <2>1, <2>2
<1>5. QED
  BY <1>4

\* And the greatest one, when none is greater than n.
LEMMA GreatestNumber ==
  ASSUME NEW n \in Nat, NEW S \in SUBSET (0 .. n), S # {}
  PROVE  \E m \in S : \A k \in S : k <= m
<1> DEFINE T == {n - k : k \in S}
<1>1. T \in SUBSET Nat /\ T # {}
  <2>1. \A k \in S : n - k \in Nat
    OBVIOUS
  <2>2. QED
    BY <2>1
<1>2. PICK t \in T : \A u \in T : t <= u
  BY <1>1, LeastNumber
<1>3. PICK m \in S : t = n - m
  BY <1>2
<1>4. \A k \in S : k <= m
  <2> TAKE k \in S
  <2>1. n - k \in T
    OBVIOUS
  <2>2. n - m <= n - k
    BY <1>2, <1>3, <2>1
  <2>3. n \in Nat /\ k \in 0 .. n /\ m \in 0 .. n
    OBVIOUS
  <2>4. QED
    BY <2>2, <2>3
<1>5. QED
  BY <1>4

\* A character is there, or it is past the end.
LEMMA AtSource ==
  ASSUME source \in Seq(Chars), offset \in 0 .. Len(source), NEW k \in Nat
  PROVE  IF offset + 1 + k <= Len(source)
         THEN At(k) = source[offset + 1 + k] /\ At(k) \in Chars
         ELSE At(k) = Eof /\ At(k) \notin Chars
<1>1. DOMAIN source = 1 .. Len(source) /\ Len(source) \in Nat
  OBVIOUS
<1>2. offset + 1 + k \in DOMAIN source <=> offset + 1 + k <= Len(source)
  BY <1>1
<1>3. \A i \in DOMAIN source : source[i] \in Chars
  OBVIOUS
<1>4. Eof \notin Chars
  BY DEF Eof, Chars
<1>5. QED
  BY <1>2, <1>3, <1>4 DEF At

\* A span is of characters of the set, up to the first that is not in it.
LEMMA SpanStops ==
  ASSUME source \in Seq(Chars), offset \in 0 .. Len(source), NEW k \in Nat,
         NEW S \in SUBSET Chars
  PROVE  /\ Span(k, S) \in 0 .. Len(source) - offset
         /\ \A i \in 0 .. Span(k, S) - 1 : At(k + i) \in S
         /\ At(k + Span(k, S)) \notin S
<1> DEFINE rest == Len(source) - offset
           Others == {i \in 0 .. rest : At(k + i) \notin S}
           Stop(n) == /\ \A i \in 0 .. n - 1 : At(k + i) \in S
                      /\ At(k + n) \notin S
<1>1. rest \in Nat /\ k + rest \in Nat
  OBVIOUS
<1>2. offset + 1 + (k + rest) > Len(source)
  BY <1>1
<1>3. At(k + rest) \notin Chars
  BY <1>1, <1>2, AtSource
<1>4. rest \in Others
  BY <1>1, <1>3
<1> HIDE DEF rest
<1>5. Others \in SUBSET Nat
  BY <1>1
<1>6. PICK n \in Others : \A m \in Others : n <= m
  BY <1>4, <1>5, LeastNumber
<1>7. n \in 0 .. rest /\ At(k + n) \notin S
  BY <1>6
<1>8. \A i \in 0 .. n - 1 : At(k + i) \in S
  <2> TAKE i \in 0 .. n - 1
  <2>1. i \in 0 .. rest /\ ~ (n <= i)
    BY <1>1, <1>7
  <2>2. QED
    BY <1>6, <2>1
<1>9. n \in 0 .. rest /\ Stop(n)
  BY <1>7, <1>8
<1>10. Span(k, S) = CHOOSE m \in 0 .. rest : Stop(m)
  BY DEF Span, rest
<1> HIDE DEF Stop
<1>11. Span(k, S) \in 0 .. rest /\ Stop(Span(k, S))
  BY <1>9, <1>10
<1>12. QED
  BY <1>11 DEF Stop, rest

-------------------------------------------------------------------------------
(* Types *)

TypeOK ==
  /\ source \in Seq(Chars)
  /\ offset \in 0 .. Len(source)
  /\ line \in Int /\ column \in Int
  /\ indents \in Seq(Nat) /\ indents # << >> /\ indents[1] = 0
  /\ tokens \in Seq(Tokens)
  /\ string # NoString =>
       /\ string.quotes \in {1, 3}
       /\ string.token \in Tokens /\ string.token.type = "STRING"

LEMMA AdvanceTyped ==
  ASSUME TypeOK, NEW n \in Nat, \A i \in 0 .. n - 1 : At(i) # Eof, Forward(n)
  PROVE  offset' \in 0 .. Len(source) /\ line' \in Int /\ column' \in Int
<1>1. source \in Seq(Chars) /\ offset \in 0 .. Len(source) /\ Len(source) \in Nat
  BY DEF TypeOK
<1>2. offset + n <= Len(source)
  <2>1. CASE n = 0
    BY <1>1, <2>1
  <2>2. CASE n > 0
    <3>1. n - 1 \in 0 .. n - 1 /\ n - 1 \in Nat /\ offset + 1 + (n - 1) = offset + n
      BY <1>1, <2>2
    <3>2. QED
      BY <1>1, <3>1, AtSource
  <2>3. QED
    BY <2>1, <2>2
<1>3. QED
  BY <1>1, <1>2 DEF Forward, TypeOK

LEMMA NewlineTyped ==
  ASSUME TypeOK, NEW n \in Nat, At(n) \in Breaks, ConsumeNewline(n)
  PROVE  offset' \in 0 .. Len(source) /\ line' \in Int /\ column' \in Int
<1>1. source \in Seq(Chars) /\ offset \in 0 .. Len(source) /\ Len(source) \in Nat
  BY DEF TypeOK
<1>2. At(n) # Eof
  BY DEF Breaks, Eof
<1>3. offset + 1 + n <= Len(source)
  BY <1>1, <1>2, AtSource
<1>4. At(n + 1) = "nl" => offset + 2 + n <= Len(source)
  <2>1. n + 1 \in Nat /\ offset + 1 + (n + 1) = offset + 2 + n /\ Eof # "nl"
    BY <1>1 DEF Eof
  <2>2. QED
    BY <1>1, <2>1, AtSource
<1>5. offset' \in 0 .. Len(source)
  BY <1>1, <1>3, <1>4 DEF ConsumeNewline
<1>6. QED
  BY <1>5 DEF ConsumeNewline, TypeOK

LEMMA TokenTyped ==
  ASSUME TypeOK, NEW type \in Types
  PROVE  Token(type) \in Tokens
<1>1. offset \in Nat
  BY DEF TypeOK
<1>2. QED
  BY <1>1 DEF TypeOK, Token, Tokens

\* The characters of a span are there.
LEMMA SpanTyped ==
  ASSUME TypeOK, NEW S \in SUBSET Chars
  PROVE  /\ Span(0, S) \in Nat
         /\ \A i \in 0 .. Span(0, S) - 1 : At(i) \in S /\ At(i) # Eof
         /\ At(Span(0, S)) \notin S
<1>1. source \in Seq(Chars) /\ offset \in 0 .. Len(source) /\ Len(source) \in Nat
  BY DEF TypeOK
<1>2. /\ Span(0, S) \in 0 .. Len(source) - offset
      /\ \A i \in 0 .. Span(0, S) - 1 : At(0 + i) \in S
      /\ At(0 + Span(0, S)) \notin S
  BY <1>1, SpanStops
<1>3. Span(0, S) \in Nat /\ 0 + Span(0, S) = Span(0, S)
  BY <1>1, <1>2
<1>4. \A i \in 0 .. Span(0, S) - 1 : 0 + i = i
  BY <1>3
<1>5. Eof \notin Chars
  BY DEF Eof, Chars
<1>6. QED
  BY <1>2, <1>3, <1>4, <1>5

\* A line begins with spaces and tabs.
LEMMA LeadTyped ==
  ASSUME TypeOK
  PROVE  /\ Lead \in Nat
         /\ \A i \in 0 .. Lead - 1 : At(i) \in Chars \ Breaks /\ At(i) # Eof
         /\ At(Lead) \notin {"sp", "ff", "tab"}
<1> DEFINE S == {"sp", "ff", "tab"}
<1>1. S \in SUBSET (Chars \ Breaks) /\ S \in SUBSET Chars
  BY DEF Chars, Breaks
<1>2. Lead = Span(0, S)
  BY DEF Lead
<1> HIDE DEF S
<1>3. QED
  BY <1>1, <1>2, SpanTyped DEF S

\* Then a comment may follow.
LEMMA CommentTyped ==
  ASSUME TypeOK, NEW k \in Nat,
         \A i \in 0 .. k - 1 : At(i) \in Chars \ Breaks /\ At(i) # Eof
  PROVE  /\ CommentAt(k) \in Nat
         /\ \A i \in 0 .. (k + CommentAt(k)) - 1 : At(i) \in Chars \ Breaks /\ At(i) # Eof
<1>1. source \in Seq(Chars) /\ offset \in 0 .. Len(source) /\ Len(source) \in Nat
  BY DEF TypeOK
<1>2. Eof \notin Chars
  BY DEF Eof, Chars
<1>3. CASE At(k) = "#"
  <2> DEFINE S == Chars \ Breaks
  <2>1. CommentAt(k) = Span(k, S)
    BY <1>3 DEF CommentAt
  <2>2. S \in SUBSET Chars
    OBVIOUS
  <2> HIDE DEF S
  <2>3. /\ CommentAt(k) \in 0 .. Len(source) - offset
        /\ \A i \in 0 .. CommentAt(k) - 1 : At(k + i) \in S
    BY <1>1, <2>1, <2>2, SpanStops
  <2>4. CommentAt(k) \in Nat
    BY <1>1, <2>3
  <2>5. \A i \in 0 .. (k + CommentAt(k)) - 1 : At(i) \in S
    <3> TAKE i \in 0 .. (k + CommentAt(k)) - 1
    <3>1. CASE i < k
      <4>1. i \in 0 .. k - 1
        BY <2>4, <3>1
      <4>2. QED
        BY <4>1 DEF S
    <3>2. CASE i >= k
      <4>1. i - k \in 0 .. CommentAt(k) - 1 /\ k + (i - k) = i
        BY <2>4, <3>2
      <4>2. QED
        BY <2>3, <4>1
    <3>3. QED
      BY <2>4, <3>1, <3>2
  <2>6. QED
    BY <1>2, <2>2, <2>4, <2>5 DEF S
<1>4. CASE At(k) # "#"
  <2>1. CommentAt(k) = 0 /\ k + 0 = k
    BY <1>4 DEF CommentAt
  <2>2. QED
    BY <2>1
<1>5. QED
  BY <1>3, <1>4

\* What is left open is a prefix of the blocks, the outermost at least.
LEMMA OpenPrefix ==
  ASSUME TypeOK, NEW w \in Nat
  PROVE  /\ OpenAt(w) \in Seq(Nat) /\ OpenAt(w) # << >> /\ OpenAt(w)[1] = 0
         /\ ClosedAt(w) \in 0 .. Len(indents) - 1
         /\ Len(OpenAt(w)) = Len(indents) - ClosedAt(w)
<1> DEFINE Kept == {n \in DOMAIN indents : indents[n] <= w}
           Last(n) == /\ indents[n] <= w
                      /\ \A m \in DOMAIN indents : m > n => indents[m] > w
           kept == CHOOSE n \in DOMAIN indents : Last(n)
<1>1. /\ indents \in Seq(Nat) /\ DOMAIN indents = 1 .. Len(indents)
      /\ Len(indents) \in Nat \ {0} /\ indents[1] = 0
  BY DEF TypeOK
<1>2. 1 \in Kept /\ Kept \in SUBSET (0 .. Len(indents))
  BY <1>1
<1>3. PICK n \in Kept : \A k \in Kept : k <= n
  <2>1. Kept # {} /\ Len(indents) \in Nat
    BY <1>1, <1>2
  <2> HIDE DEF Kept
  <2>2. QED
    BY <1>2, <2>1, GreatestNumber
<1>4. n \in DOMAIN indents /\ Last(n)
  <2>1. \A m \in DOMAIN indents : m > n => m \notin Kept
    BY <1>1, <1>3
  <2>2. \A m \in DOMAIN indents : indents[m] \in Nat
    BY <1>1
  <2>3. QED
    BY <1>1, <1>3, <2>1, <2>2
<1>5. OpenAt(w) = SubSeq(indents, 1, kept)
  BY DEF OpenAt
<1>6. kept \in 1 .. Len(indents)
  <2> HIDE DEF Last
  <2>1. QED
    BY <1>1, <1>4
<1> HIDE DEF kept
<1>7. /\ OpenAt(w) \in Seq(Nat) /\ Len(OpenAt(w)) = kept
      /\ OpenAt(w)[1] = indents[1]
  <2>1. 1 \in 1 .. Len(indents) + 1 /\ kept \in 1 - 1 .. Len(indents) /\ kept - 1 + 1 = kept
    BY <1>1, <1>6
  <2>2. QED
    BY <1>1, <1>5, <1>6, <2>1
<1>8. ClosedAt(w) = Len(indents) - kept
  BY <1>7 DEF ClosedAt
<1>9. QED
  BY <1>1, <1>6, <1>7, <1>8

LEMMA WidthTyped ==
  ASSUME TypeOK
  PROVE  Width \in Nat
<1> DEFINE W == {i \in 0 .. Lead - 1 : At(i) # "tab"}
<1>1. Lead - 1 \in Int
  BY LeadTyped
<1>2. IsFiniteSet(0 .. Lead - 1) /\ W \in SUBSET (0 .. Lead - 1)
  BY <1>1, FS_Interval
<1>3. IsFiniteSet(W)
  BY <1>2, FS_Subset
<1>4. QED
  BY <1>3, FS_CardinalityType DEF Width

\* The last tokens: a NEWLINE for an unfinished line, a DEDENT for each open block.
Unended == IF lineHasTok THEN << Token("NEWLINE") >> ELSE << >>

LEMMA LastTokens ==
  ASSUME NEW S, NEW n \in Nat,
         Token("NEWLINE") \in S, Token("DEDENT") \in S, Token("EOF") \in S
  PROVE  /\ Unended \in Seq(S)
         /\ Times(n, "DEDENT") \in Seq(S)
         /\ << Token("EOF") >> \in Seq(S)
         /\ Unended \o Times(n, "DEDENT") \o << Token("EOF") >> \in Seq(S)
<1>1. Unended \in Seq(S) /\ << Token("EOF") >> \in Seq(S)
  BY DEF Unended
<1>2. Times(n, "DEDENT") \in Seq(S)
  BY DEF Times
<1> HIDE DEF Unended
<1>3. QED
  BY <1>1, <1>2, ConcatProperties

LEMMA TypesStart ==
  ASSUME Init
  PROVE  TypeOK
<1>1. source \in Seq(Chars)
  BY SourcesAssumption DEF Init
<1>2. Len(source) \in Nat /\ 0 \in 0 .. Len(source)
  BY <1>1
<1>3. QED
  BY <1>1, <1>2 DEF Init, TypeOK

\* The types that every step keeps.
LEMMA TypesStep ==
  ASSUME TypeOK, [Next]_vars
  PROVE  TypeOK'
<1> USE DEF place
<1>1. /\ source \in Seq(Chars) /\ offset \in 0 .. Len(source) /\ Len(source) \in Nat
      /\ indents \in Seq(Nat) /\ indents # << >> /\ indents[1] = 0
      /\ tokens \in Seq(Tokens)
      /\ Len(indents) \in Nat \ {0}
  BY DEF TypeOK
<1>2. \A type \in Types : Token(type) \in Tokens
  BY TokenTyped
<1>3. ASSUME NEW n \in Nat, \A i \in 0 .. n - 1 : At(i) # Eof, Advance(n)
      PROVE  offset' \in 0 .. Len(source) /\ line' \in Int /\ column' \in Int
  BY <1>3, AdvanceTyped DEF Advance
<1>4. ASSUME NEW n \in Nat, At(n) \in Breaks, ConsumeNewline(n)
      PROVE  offset' \in 0 .. Len(source) /\ line' \in Int /\ column' \in Int
  BY <1>4, NewlineTyped
<1>5. ASSUME NEW more \in Seq(Tokens), Queue(more)
      PROVE  tokens' \in Seq(Tokens)
  BY <1>1, <1>5, ConcatProperties DEF Queue
<1>6. ASSUME NEW type \in Types, Queue(<< Token(type) >>)
      PROVE  tokens' \in Seq(Tokens)
  <2>1. << Token(type) >> \in Seq(Tokens)
    BY <1>2
  <2>2. QED
    BY <1>5, <1>6, <2>1
<1>7. ASSUME Cur # Eof, Advance(1)
      PROVE  offset' \in 0 .. Len(source) /\ line' \in Int /\ column' \in Int
  <2>1. \A i \in 0 .. 1 - 1 : At(i) # Eof
    BY <1>7 DEF Cur
  <2>2. QED
    BY <1>3, <1>7, <2>1
<1>8. CASE Finish
  <2>1. Len(indents) - 1 \in Nat
    BY <1>1
  <2>2. Token("NEWLINE") \in Tokens /\ Token("DEDENT") \in Tokens /\ Token("EOF") \in Tokens
    BY <1>2 DEF Types
  <2>3. tokens' \in Seq(Tokens)
    BY <1>5, <1>8, <2>1, <2>2, LastTokens DEF Finish, Unended
  <2>4. QED
    BY <1>8, <2>3 DEF Finish, TypeOK
<1>9. CASE SkipBlankLine
  <2> DEFINE skipped == Lead + CommentAt(Lead)
  <2>1. skipped \in Nat /\ \A i \in 0 .. skipped - 1 : At(i) # Eof
    BY LeadTyped, CommentTyped
  <2>2. IF At(skipped) \in Breaks THEN ConsumeNewline(skipped) ELSE Advance(skipped)
    BY <1>9 DEF SkipBlankLine
  <2> HIDE DEF skipped
  <2>3. offset' \in 0 .. Len(source) /\ line' \in Int /\ column' \in Int
    BY <1>3, <1>4, <2>1, <2>2
  <2>4. QED
    BY <1>9, <2>3 DEF SkipBlankLine, TypeOK
<1>10. CASE ScanIndent
  <2>1. Advance(Lead)
    BY <1>10 DEF ScanIndent
  <2>2. Lead \in Nat /\ Width \in Nat /\ \A i \in 0 .. Lead - 1 : At(i) # Eof
    BY LeadTyped, WidthTyped
  <2>3. offset' \in 0 .. Len(source) /\ line' \in Int /\ column' \in Int
    BY <1>3, <2>1, <2>2
  <2>4. \A type \in {"INDENT", "DEDENT"} : AfterLead(type) \in Tokens
    <3> TAKE type \in {"INDENT", "DEDENT"}
    <3>1. AfterLead(type) = [type |-> type, line |-> line, column |-> column + Lead,
                             offset |-> offset + Lead]
      BY DEF AfterLead
    <3>2. line \in Int /\ column + Lead \in Int /\ offset + Lead \in Nat
      BY <1>1, <2>2 DEF TypeOK
    <3>3. QED
      BY <3>1, <3>2 DEF Tokens, Types
  <2>5. CASE Deeper
    <3>1. indents' = Append(indents, Width) /\ Queue(<< AfterLead("INDENT") >>)
      BY <1>10, <2>5 DEF ScanIndent
    <3>2. << AfterLead("INDENT") >> \in Seq(Tokens)
      BY <2>4
    <3>3. tokens' \in Seq(Tokens)
      BY <1>5, <3>1, <3>2
    <3>4. indents' \in Seq(Nat) /\ indents' # << >> /\ indents'[1] = 0
      BY <1>1, <2>2, <3>1
    <3>5. QED
      BY <1>10, <2>3, <3>3, <3>4 DEF ScanIndent, TypeOK
  <2>6. CASE ~ Deeper
    <3>1. /\ indents' = OpenAt(Width)
          /\ Queue([i \in 1 .. ClosedAt(Width) |-> AfterLead("DEDENT")])
      BY <1>10, <2>6 DEF ScanIndent
    <3>2. ClosedAt(Width) \in Nat
      <4>1. ClosedAt(Width) \in 0 .. Len(indents) - 1
        BY <2>2, OpenPrefix
      <4>2. QED
        BY <1>1, <4>1
    <3>3. [i \in 1 .. ClosedAt(Width) |-> AfterLead("DEDENT")] \in Seq(Tokens)
      BY <2>4, <3>2
    <3>4. tokens' \in Seq(Tokens)
      BY <1>5, <3>1, <3>3
    <3>5. indents' \in Seq(Nat) /\ indents' # << >> /\ indents'[1] = 0
      BY <2>2, <3>1, OpenPrefix
    <3>6. QED
      BY <1>10, <2>3, <3>4, <3>5 DEF ScanIndent, TypeOK
  <2>7. QED
    BY <2>5, <2>6
<1>11. CASE SkipSpace
  <2>1. Cur # Eof /\ Advance(1)
    BY <1>11 DEF SkipSpace, InLine, Scanning
  <2>2. QED
    BY <1>7, <1>11, <2>1 DEF SkipSpace, TypeOK
<1>12. CASE SkipComment
  <2>1. Advance(CommentAt(0))
    BY <1>12 DEF SkipComment
  <2>2. /\ CommentAt(0) \in Nat
        /\ \A i \in 0 .. (0 + CommentAt(0)) - 1 : At(i) # Eof
    BY CommentTyped
  <2>3. 0 + CommentAt(0) = CommentAt(0)
    BY <2>2
  <2>4. offset' \in 0 .. Len(source) /\ line' \in Int /\ column' \in Int
    BY <1>3, <2>1, <2>2, <2>3
  <2>5. QED
    BY <1>12, <2>4 DEF SkipComment, TypeOK
<1>13. CASE JoinLines
  <2>1. offset' \in 0 .. Len(source) /\ line' \in Int /\ column' \in Int
    BY <1>4, <1>13 DEF JoinLines
  <2>2. QED
    BY <1>13, <2>1 DEF JoinLines, TypeOK
<1>14. CASE EndLine
  <2>1. At(0) \in Breaks /\ ConsumeNewline(0)
    BY <1>14 DEF EndLine, Cur
  <2>2. offset' \in 0 .. Len(source) /\ line' \in Int /\ column' \in Int
    BY <1>4, <2>1
  <2>3. Token("NEWLINE")' \in Tokens
    BY <1>1, <2>2 DEF Token, Tokens, Types
  <2>4. tokens' \in Seq(Tokens)
    <3>1. << Token("NEWLINE")' >> \in Seq(Tokens) /\ << >> \in Seq(Tokens)
      BY <2>3
    <3>2. CASE parens = 0
      <4>1. Queue(IF lineHasTok THEN << Token("NEWLINE")' >> ELSE << >>)
        BY <1>14, <3>2 DEF EndLine
      <4>2. QED
        BY <1>5, <3>1, <4>1
    <3>3. CASE parens # 0
      BY <1>1, <1>14, <3>3 DEF EndLine
    <3>4. QED
      BY <3>2, <3>3
  <2>5. QED
    BY <1>14, <2>2, <2>4 DEF EndLine, TypeOK
<1>15. CASE Unexpected
  <2>1. Cur # Eof /\ Advance(1)
    BY <1>15 DEF Unexpected, InLine, Scanning
  <2>2. QED
    BY <1>7, <1>15, <2>1 DEF Unexpected, TypeOK
<1>16. CASE ScanName
  <2>1. /\ NameLength \in Nat
        /\ \A i \in 0 .. NameLength - 1 : At(i) # Eof
    BY SpanTyped DEF NameLength, Letters, Chars
  <2>2. Advance(NameLength) /\ Queue(<< Token("NAME") >>)
    BY <1>16 DEF ScanName
  <2>3. offset' \in 0 .. Len(source) /\ line' \in Int /\ column' \in Int
    BY <1>3, <2>1, <2>2
  <2>4. tokens' \in Seq(Tokens)
    BY <1>6, <2>2 DEF Types
  <2>5. QED
    BY <1>16, <2>3, <2>4 DEF ScanName, TypeOK
<1>17. CASE ScanOperator
  <2>1. Cur # Eof /\ Advance(1) /\ Cur \in Types /\ Queue(<< Token(Cur) >>)
    BY <1>17 DEF ScanOperator, InLine, Scanning, Types
  <2>2. tokens' \in Seq(Tokens)
    BY <1>6, <2>1
  <2>3. offset' \in 0 .. Len(source) /\ line' \in Int /\ column' \in Int
    BY <1>7, <2>1
  <2>4. QED
    BY <1>17, <2>2, <2>3 DEF ScanOperator, TypeOK
<1>18. CASE OpenString
  <2> DEFINE prefix == IF Prefixed THEN 1 ELSE 0
             triple == At(prefix + 1) = "'" /\ At(prefix + 2) = "'"
             quotes == IF triple THEN 3 ELSE 1
  <2>1. /\ string' = [quotes |-> quotes, raw |-> Prefixed, token |-> Token("STRING")]
        /\ Advance(prefix + quotes)
        /\ Cur = "'" \/ Prefixed
    BY <1>18 DEF OpenString
  <2>2. prefix + quotes \in Nat
    OBVIOUS
  <2>3. \A i \in 0 .. (prefix + quotes) - 1 : At(i) # Eof
    <3>1. At(0) # Eof /\ (Prefixed => At(1) # Eof) /\ (~ Prefixed => At(0) = "'")
      BY <2>1 DEF Prefixed, Cur, Eof
    <3>2. triple => At(prefix + 1) # Eof /\ At(prefix + 2) # Eof
      BY DEF Eof
    <3>3. QED
      BY <3>1, <3>2
  <2> HIDE DEF prefix, quotes
  <2>4. offset' \in 0 .. Len(source) /\ line' \in Int /\ column' \in Int
    BY <1>3, <2>1, <2>2, <2>3
  <2>5. /\ string'.quotes \in {1, 3}
        /\ string'.token \in Tokens /\ string'.token.type = "STRING"
    <3>1. Token("STRING") \in Tokens /\ Token("STRING").type = "STRING"
      BY <1>2 DEF Types, Token
    <3>2. QED
      BY <2>1, <3>1 DEF quotes
  <2>6. QED
    BY <1>18, <2>4, <2>5 DEF OpenString, TypeOK
<1>19. ASSUME EndString, string # NoString,
              offset' \in 0 .. Len(source) /\ line' \in Int /\ column' \in Int
       PROVE  TypeOK'
  <2>1. string.token \in Tokens /\ string' = NoString /\ Queue(<< string.token >>)
    BY <1>19 DEF EndString, TypeOK
  <2>2. << string.token >> \in Seq(Tokens)
    BY <2>1
  <2>3. tokens' \in Seq(Tokens)
    BY <1>5, <2>1, <2>2
  <2>4. QED
    BY <1>1, <1>19, <2>1, <2>3 DEF EndString, TypeOK
<1>20. CASE CloseString
  <2>1. /\ string # NoString /\ Quotes(string.quotes) /\ Advance(string.quotes)
        /\ EndString
    BY <1>20 DEF CloseString, InString
  <2>2. string.quotes \in Nat
    BY <2>1 DEF TypeOK
  <2>3. \A i \in 0 .. string.quotes - 1 : At(i) # Eof
    BY <2>1 DEF Quotes, Eof
  <2>4. QED
    BY <1>3, <1>19, <2>1, <2>2, <2>3
<1>21. CASE Unterminated
  <2>1. string # NoString /\ EndString /\ UNCHANGED place
    BY <1>21 DEF Unterminated, InString
  <2>2. QED
    BY <1>19, <2>1 DEF TypeOK
<1>22. CASE LineInString
  <2>1. At(0) \in Breaks /\ ConsumeNewline(0)
    BY <1>22 DEF LineInString, Cur
  <2>2. offset' \in 0 .. Len(source) /\ line' \in Int /\ column' \in Int
    BY <1>4, <2>1
  <2>3. QED
    BY <1>22, <2>2 DEF LineInString, GoOn, TypeOK
<1>23. CASE Escape
  <2>1. Forward(EscapeLength) /\ Cur = "\\"
    BY <1>23 DEF Escape
  <2>2. EscapeLength \in Nat /\ \A i \in 0 .. EscapeLength - 1 : At(i) # Eof
    <3>1. At(0) # Eof
      BY <2>1 DEF Cur, Eof
    <3>2. QED
      BY <3>1 DEF EscapeLength
  <2>3. offset' \in 0 .. Len(source) /\ line' \in Int /\ column' \in Int
    BY <2>1, <2>2, AdvanceTyped
  <2>4. QED
    BY <1>23, <2>3 DEF Escape, GoOn, TypeOK
<1>24. CASE InText
  <2>1. Cur # Eof /\ Advance(1)
    BY <1>24 DEF InText
  <2>2. QED
    BY <1>7, <1>24, <2>1 DEF InText, GoOn, TypeOK
<1>25. CASE UNCHANGED vars
  BY <1>25 DEF vars, TypeOK
<1>26. QED
  BY <1>8, <1>9, <1>10, <1>11, <1>12, <1>13, <1>14, <1>15, <1>16, <1>17, <1>18,
     <1>20, <1>21, <1>22, <1>23, <1>24, <1>25 DEF Next

-------------------------------------------------------------------------------
(* Blocks *)

\* How many of the first tokens are of the type.
Count(ts, type, n) == Cardinality({i \in 1 .. n : ts[i].type = type})

\* No prefix closes a block that it did not open; this many are open at the end.
Balanced(ts, open) ==
  /\ \A n \in 0 .. Len(ts) : Count(ts, "DEDENT", n) <= Count(ts, "INDENT", n)
  /\ open = Count(ts, "INDENT", Len(ts)) - Count(ts, "DEDENT", Len(ts))

LEMMA CountNat ==
  ASSUME NEW ts, NEW type, NEW n \in Nat
  PROVE  /\ IsFiniteSet({i \in 1 .. n : ts[i].type = type})
         /\ Count(ts, type, n) \in Nat
<1> DEFINE S == {i \in 1 .. n : ts[i].type = type}
<1>1. IsFiniteSet(1 .. n) /\ S \in SUBSET (1 .. n)
  BY FS_Interval
<1>2. IsFiniteSet(S)
  BY <1>1, FS_Subset
<1>3. QED
  BY <1>2, FS_CardinalityType DEF Count

\* Tokens queued leave the counts of those before them.
LEMMA CountBefore ==
  ASSUME NEW ts \in Seq(Tokens), NEW q \in Seq(Tokens), NEW type, NEW n \in 0 .. Len(ts)
  PROVE  Count(ts \o q, type, n) = Count(ts, type, n)
<1>1. Len(ts) \in Nat /\ Len(q) \in Nat
  OBVIOUS
<1>2. \A i \in 1 .. Len(ts) : (ts \o q)[i] = ts[i]
  BY ConcatProperties
<1>3. \A i \in 1 .. n : (ts \o q)[i] = ts[i]
  BY <1>1, <1>2
<1>4. {i \in 1 .. n : (ts \o q)[i].type = type} = {i \in 1 .. n : ts[i].type = type}
  BY <1>3
<1>5. QED
  BY <1>4 DEF Count

\* And they add their own.
LEMMA CountQueued ==
  ASSUME NEW ts \in Seq(Tokens), NEW q \in Seq(Tokens), NEW type, NEW n \in 0 .. Len(q)
  PROVE  Count(ts \o q, type, Len(ts) + n) = Count(ts, type, Len(ts)) + Count(q, type, n)
<1>1. Len(ts) \in Nat /\ Len(q) \in Nat
  OBVIOUS
<1>2. \A i \in 1 .. Len(ts) : (ts \o q)[i] = ts[i]
  BY ConcatProperties
<1>3. \A i \in 1 .. Len(q) : (ts \o q)[Len(ts) + i] = q[i]
  <2> TAKE i \in 1 .. Len(q)
  <2>1. Len(ts) + i \in 1 .. Len(ts) + Len(q) /\ ~ (Len(ts) + i <= Len(ts))
        /\ Len(ts) + i - Len(ts) = i
    BY <1>1
  <2>2. QED
    BY <2>1, ConcatProperties
<1> DEFINE m == Len(ts)
           A == {i \in 1 .. m : ts[i].type = type}
           B == {i \in 1 .. n : q[i].type = type}
           C == {m + i : i \in B}
           f == [i \in B |-> m + i]
<1>4. m \in Nat /\ n \in Nat
  BY <1>1
<1>5. {i \in 1 .. m + n : (ts \o q)[i].type = type} = A \cup C
  <2>1. ASSUME NEW i \in 1 .. m + n, (ts \o q)[i].type = type
        PROVE  i \in A \cup C
    <3>1. CASE i <= m
      BY <1>2, <1>4, <2>1, <3>1
    <3>2. CASE i > m
      <4>1. i - m \in 1 .. n /\ m + (i - m) = i
        BY <1>4, <3>2
      <4>2. i - m \in 1 .. Len(q)
        BY <1>1, <4>1
      <4>3. q[i - m].type = type
        BY <1>3, <2>1, <4>1, <4>2
      <4>4. QED
        BY <4>1, <4>3
    <3>3. QED
      BY <1>4, <3>1, <3>2
  <2>2. ASSUME NEW i \in A
        PROVE  i \in 1 .. m + n /\ (ts \o q)[i].type = type
    BY <1>2, <1>4
  <2>3. ASSUME NEW i \in C
        PROVE  i \in 1 .. m + n /\ (ts \o q)[i].type = type
    <3>1. PICK j \in B : i = m + j
      OBVIOUS
    <3>2. j \in 1 .. n /\ j \in 1 .. Len(q) /\ q[j].type = type
      BY <1>1
    <3>3. (ts \o q)[i].type = type
      BY <1>3, <3>1, <3>2
    <3>4. i \in 1 .. m + n
      BY <1>4, <3>1, <3>2
    <3>5. QED
      BY <3>3, <3>4
  <2>4. QED
    BY <2>1, <2>2, <2>3
<1>6. IsFiniteSet(A) /\ IsFiniteSet(B)
  BY <1>4, CountNat
<1>7. B \in SUBSET (1 .. n) /\ A \in SUBSET (1 .. m)
  OBVIOUS
<1>8. Count(ts, type, m) = Cardinality(A) /\ Count(q, type, n) = Cardinality(B)
  BY DEF Count
<1>9. Count(ts \o q, type, m + n) = Cardinality(A \cup C)
  BY <1>5 DEF Count
<1> HIDE DEF m, A, B
<1>10. f \in Bijection(B, C)
  BY <1>4, <1>7 DEF Bijection, Injection, Surjection, IsInjective
<1>11. IsFiniteSet(C) /\ Cardinality(C) = Cardinality(B)
  <2>1. ExistsBijection(B, C)
    BY <1>10 DEF ExistsBijection
  <2>2. QED
    BY <1>6, <2>1, FS_Bijection
<1>12. A \cap C = {}
  <2>1. \A i \in C : i > m
    BY <1>4, <1>7
  <2>2. \A i \in A : i <= m
    BY <1>4, <1>7
  <2>3. \A i \in A : ~ (i > m)
    BY <1>4, <1>7, <2>2
  <2>4. QED
    BY <2>1, <2>3
<1>13. Cardinality(A \cup C) = Cardinality(A) + Cardinality(C) - 0
  BY <1>6, <1>11, <1>12, FS_Union, FS_EmptySet
<1>14. Cardinality(A) \in Nat /\ Cardinality(C) \in Nat
  BY <1>6, <1>11, FS_CardinalityType
<1>15. QED
  BY <1>8, <1>9, <1>11, <1>13, <1>14 DEF m

\* A prefix ends among the tokens that were there, or among those queued.
LEMMA EveryPrefix ==
  ASSUME NEW ts \in Seq(Tokens), NEW q \in Seq(Tokens), NEW n \in 0 .. Len(ts \o q)
  PROVE  \/ n \in 0 .. Len(ts)
         \/ \E k \in 0 .. Len(q) : n = Len(ts) + k
<1>1. Len(ts) \in Nat /\ Len(q) \in Nat /\ Len(ts \o q) = Len(ts) + Len(q)
  BY ConcatProperties
<1>2. CASE n > Len(ts)
  <2>1. n - Len(ts) \in 0 .. Len(q) /\ n = Len(ts) + (n - Len(ts))
    BY <1>1, <1>2
  <2>2. QED
    BY <2>1
<1>3. CASE n <= Len(ts)
  BY <1>1, <1>3
<1>4. QED
  BY <1>1, <1>2, <1>3

\* Tokens queued that close, in every prefix of theirs, no more than was open and
\* they opened themselves.
LEMMA QueueBalances ==
  ASSUME NEW ts \in Seq(Tokens), NEW q \in Seq(Tokens), NEW open \in Int,
         Balanced(ts, open),
         \A n \in 0 .. Len(q) : Count(q, "DEDENT", n) <= open + Count(q, "INDENT", n)
  PROVE  Balanced(ts \o q,
                  open + Count(q, "INDENT", Len(q)) - Count(q, "DEDENT", Len(q)))
<1> DEFINE all == ts \o q
<1>1. Len(ts) \in Nat /\ Len(q) \in Nat /\ Len(all) = Len(ts) + Len(q)
  BY ConcatProperties
<1>2. ASSUME NEW type, NEW n \in 0 .. Len(ts)
      PROVE  Count(all, type, n) = Count(ts, type, n)
  BY CountBefore
<1>3. ASSUME NEW type, NEW n \in 0 .. Len(q)
      PROVE  Count(all, type, Len(ts) + n) = Count(ts, type, Len(ts)) + Count(q, type, n)
  BY CountQueued
<1>4. /\ Count(ts, "INDENT", Len(ts)) \in Nat /\ Count(ts, "DEDENT", Len(ts)) \in Nat
      /\ open = Count(ts, "INDENT", Len(ts)) - Count(ts, "DEDENT", Len(ts))
  BY <1>1, CountNat DEF Balanced
<1>5. ASSUME NEW n \in 0 .. Len(q)
      PROVE  Count(q, "INDENT", n) \in Nat /\ Count(q, "DEDENT", n) \in Nat
  <2>1. n \in Nat
    BY <1>1
  <2>2. QED
    BY <2>1, CountNat
<1>6. ASSUME NEW n \in 0 .. Len(all)
      PROVE  Count(all, "DEDENT", n) <= Count(all, "INDENT", n)
  <2>1. CASE n \in 0 .. Len(ts)
    BY <1>2, <2>1 DEF Balanced
  <2>2. CASE \E k \in 0 .. Len(q) : n = Len(ts) + k
    <3>1. PICK k \in 0 .. Len(q) : n = Len(ts) + k
      BY <2>2
    <3>2. /\ Count(all, "DEDENT", n) = Count(ts, "DEDENT", Len(ts)) + Count(q, "DEDENT", k)
          /\ Count(all, "INDENT", n) = Count(ts, "INDENT", Len(ts)) + Count(q, "INDENT", k)
      BY <1>3, <3>1
    <3>3. Count(q, "DEDENT", k) <= open + Count(q, "INDENT", k)
      OBVIOUS
    <3>4. Count(q, "DEDENT", k) \in Nat /\ Count(q, "INDENT", k) \in Nat
      BY <1>5
    <3> HIDE DEF all
    <3>5. QED
      BY <1>4, <3>2, <3>3, <3>4
  <2>3. QED
    BY <2>1, <2>2, EveryPrefix
<1>7. Len(q) \in 0 .. Len(q)
  BY <1>1
<1>8. /\ Count(all, "DEDENT", Len(all)) = Count(ts, "DEDENT", Len(ts)) + Count(q, "DEDENT", Len(q))
      /\ Count(all, "INDENT", Len(all)) = Count(ts, "INDENT", Len(ts)) + Count(q, "INDENT", Len(q))
  <2> HIDE DEF all
  <2>1. ASSUME NEW type
        PROVE  Count(all, type, Len(ts) + Len(q))
                 = Count(ts, type, Len(ts)) + Count(q, type, Len(q))
    BY <1>3, <1>7
  <2>2. QED
    BY <1>1, <2>1
<1> HIDE DEF all
<1>9. open + Count(q, "INDENT", Len(q)) - Count(q, "DEDENT", Len(q))
        = Count(all, "INDENT", Len(all)) - Count(all, "DEDENT", Len(all))
  BY <1>4, <1>5, <1>7, <1>8
<1>10. Balanced(all, open + Count(q, "INDENT", Len(q)) - Count(q, "DEDENT", Len(q)))
  BY <1>6, <1>9 DEF Balanced
<1>11. QED
  BY <1>10 DEF all

\* Tokens of other types open and close nothing.
LEMMA OthersBalance ==
  ASSUME NEW ts \in Seq(Tokens), NEW q \in Seq(Tokens), NEW open \in Nat,
         Balanced(ts, open),
         \A i \in 1 .. Len(q) : q[i].type \notin {"INDENT", "DEDENT"}
  PROVE  Balanced(ts \o q, open)
<1>1. \A n \in 0 .. Len(q) : Count(q, "DEDENT", n) = 0 /\ Count(q, "INDENT", n) = 0
  <2> TAKE n \in 0 .. Len(q)
  <2>1. n <= Len(q) /\ Len(q) \in Nat
    OBVIOUS
  <2>2. /\ {i \in 1 .. n : q[i].type = "DEDENT"} = {}
        /\ {i \in 1 .. n : q[i].type = "INDENT"} = {}
    BY <2>1
  <2>3. QED
    BY <2>2, FS_EmptySet DEF Count
<1>2. \A n \in 0 .. Len(q) : Count(q, "DEDENT", n) <= open + Count(q, "INDENT", n)
  BY <1>1
<1>3. Len(q) \in 0 .. Len(q)
  OBVIOUS
<1>4. open + Count(q, "INDENT", Len(q)) - Count(q, "DEDENT", Len(q)) = open
  BY <1>1, <1>3
<1>5. QED
  BY <1>2, <1>4, QueueBalances

\* An INDENT opens one block.
LEMMA IndentBalances ==
  ASSUME NEW ts \in Seq(Tokens), NEW t \in Tokens, NEW open \in Nat,
         Balanced(ts, open), t.type = "INDENT"
  PROVE  Balanced(ts \o << t >>, open + 1)
<1> DEFINE q == << t >>
<1>1. q \in Seq(Tokens) /\ Len(q) = 1 /\ q[1] = t
  OBVIOUS
<1>2. \A n \in 0 .. Len(q) : Count(q, "DEDENT", n) = 0
  <2> TAKE n \in 0 .. Len(q)
  <2>1. {i \in 1 .. n : q[i].type = "DEDENT"} = {}
    BY <1>1
  <2>2. QED
    BY <2>1, FS_EmptySet DEF Count
<1>3. Count(q, "INDENT", Len(q)) = 1
  <2>1. {i \in 1 .. Len(q) : q[i].type = "INDENT"} = {1}
    BY <1>1
  <2>2. QED
    BY <2>1, FS_Singleton DEF Count
<1>4. \A n \in 0 .. Len(q) : Count(q, "INDENT", n) \in Nat
  <2> TAKE n \in 0 .. Len(q)
  <2>1. n \in Nat
    BY <1>1
  <2>2. QED
    BY <2>1, CountNat
<1> HIDE DEF q
<1>5. \A n \in 0 .. Len(q) : Count(q, "DEDENT", n) <= open + Count(q, "INDENT", n)
  BY <1>2, <1>4
<1>6. open + Count(q, "INDENT", Len(q)) - Count(q, "DEDENT", Len(q)) = open + 1
  <2>1. Len(q) \in 0 .. Len(q)
    BY <1>1
  <2>2. QED
    BY <1>2, <1>3, <2>1
<1>7. Balanced(ts \o q, open + 1)
  <2>1. q \in Seq(Tokens) /\ open \in Int
    BY <1>1
  <2>2. Balanced(ts \o q, open + Count(q, "INDENT", Len(q)) - Count(q, "DEDENT", Len(q)))
    BY <1>5, <2>1, QueueBalances
  <2>3. QED
    BY <1>6, <2>2
<1>8. QED
  BY <1>7 DEF q

\* As many DEDENTs as blocks are open, or fewer, close as many.
LEMMA DedentsBalance ==
  ASSUME NEW ts \in Seq(Tokens), NEW t \in Tokens, NEW open \in Nat, NEW d \in 0 .. open,
         Balanced(ts, open), t.type = "DEDENT"
  PROVE  Balanced(ts \o [i \in 1 .. d |-> t], open - d)
<1> DEFINE q == [i \in 1 .. d |-> t]
<1>1. q \in Seq(Tokens) /\ Len(q) = d /\ d \in Nat /\ \A i \in 1 .. d : q[i] = t
  OBVIOUS
<1> HIDE DEF q
<1>2. \A n \in 0 .. Len(q) : Count(q, "DEDENT", n) = n /\ Count(q, "INDENT", n) = 0
  <2> TAKE n \in 0 .. Len(q)
  <2>1. n \in Nat /\ n <= d
    BY <1>1
  <2>2. /\ {i \in 1 .. n : q[i].type = "DEDENT"} = 1 .. n
        /\ {i \in 1 .. n : q[i].type = "INDENT"} = {}
    BY <1>1, <2>1
  <2>3. Cardinality(1 .. n) = n
    <3>1. Cardinality(1 .. n) = IF 1 > n THEN 0 ELSE n - 1 + 1
      BY <2>1, FS_Interval
    <3>2. QED
      BY <2>1, <3>1
  <2>4. QED
    BY <2>2, <2>3, FS_EmptySet DEF Count
<1>3. \A n \in 0 .. Len(q) : Count(q, "DEDENT", n) <= open + Count(q, "INDENT", n)
  BY <1>1, <1>2
<1>4. open + Count(q, "INDENT", Len(q)) - Count(q, "DEDENT", Len(q)) = open - d
  <2>1. Len(q) \in 0 .. Len(q)
    BY <1>1
  <2>2. QED
    BY <1>1, <1>2, <2>1
<1>5. Balanced(ts \o q, open - d)
  BY <1>1, <1>3, <1>4, QueueBalances
<1>6. QED
  BY <1>5 DEF q

\* Queued at once, three parts are queued one after the other. The two orders are
\* named, so that the provers compare the names and not the sequences.
LeftFirst(s, t, u) == (s \o t) \o u
RightFirst(s, t, u) == s \o (t \o u)

LEMMA EitherFirst ==
  ASSUME NEW s \in Seq(Tokens), NEW t \in Seq(Tokens), NEW u \in Seq(Tokens)
  PROVE  LeftFirst(s, t, u) = RightFirst(s, t, u) /\ LeftFirst(s, t, u) \in Seq(Tokens)
<1>1. (s \o t) \o u = s \o (t \o u)
  BY ConcatAssociative, SMTT(30)
<1>2. (s \o t) \o u \in Seq(Tokens)
  OBVIOUS
<1>3. QED
  BY <1>1, <1>2 DEF LeftFirst, RightFirst

AtOnce(s, t, u, v) == s \o ((t \o u) \o v)
InTurn(s, t, u, v) == ((s \o t) \o u) \o v

LEMMA ConcatThrice ==
  ASSUME NEW s \in Seq(Tokens), NEW t \in Seq(Tokens), NEW u \in Seq(Tokens),
         NEW v \in Seq(Tokens)
  PROVE  AtOnce(s, t, u, v) = InTurn(s, t, u, v)
<1> DEFINE x == t \o u
           y == s \o t
<1>1. x \in Seq(Tokens) /\ y \in Seq(Tokens)
  OBVIOUS
<1>2. LeftFirst(s, t, u) = RightFirst(s, t, u) /\ LeftFirst(s, x, v) = RightFirst(s, x, v)
  BY <1>1, EitherFirst
<1>3. LeftFirst(s, t, u) = y \o u /\ RightFirst(s, t, u) = s \o x
  BY DEF LeftFirst, RightFirst
<1>4. LeftFirst(s, x, v) = (s \o x) \o v /\ RightFirst(s, x, v) = s \o (x \o v)
  BY DEF LeftFirst, RightFirst
<1>5. AtOnce(s, t, u, v) = s \o (x \o v) /\ InTurn(s, t, u, v) = (y \o u) \o v
  BY DEF AtOnce, InTurn
<1> HIDE DEF x, y
<1>6. s \o (x \o v) = (y \o u) \o v
  BY <1>2, <1>3, <1>4, Zenon
<1>7. QED
  BY <1>5, <1>6, Zenon

\* At the end as many DEDENTs as blocks are open leave none open.
LEMMA EndBalances ==
  ASSUME NEW ts \in Seq(Tokens), NEW a \in Seq(Tokens), NEW c \in Seq(Tokens),
         NEW t \in Tokens, NEW open \in Nat, Balanced(ts, open), t.type = "DEDENT",
         \A i \in 1 .. Len(a) : a[i].type \notin {"INDENT", "DEDENT"},
         \A i \in 1 .. Len(c) : c[i].type \notin {"INDENT", "DEDENT"}
  PROVE  Balanced(ts \o (a \o [i \in 1 .. open |-> t] \o c), 0)
<1> DEFINE b == [i \in 1 .. open |-> t]
<1>1. b \in Seq(Tokens)
  OBVIOUS
<1>2. Balanced(ts \o a, open) /\ ts \o a \in Seq(Tokens)
  BY OthersBalance, ConcatProperties
<1>3. Balanced((ts \o a) \o b, 0)
  <2>1. open \in 0 .. open /\ open - open = 0
    OBVIOUS
  <2>2. Balanced((ts \o a) \o b, open - open)
    BY <1>2, <2>1, DedentsBalance
  <2>3. QED
    BY <2>1, <2>2
<1> HIDE DEF b
<1>4. (ts \o a) \o b \in Seq(Tokens)
  BY <1>1, <1>2, ConcatProperties
<1>5. Balanced(((ts \o a) \o b) \o c, 0)
  BY <1>3, <1>4, OthersBalance
<1>6. ts \o ((a \o b) \o c) = ((ts \o a) \o b) \o c
  <2>1. AtOnce(ts, a, b, c) = InTurn(ts, a, b, c)
    BY <1>1, ConcatThrice
  <2>2. QED
    BY <2>1, Zenon DEF AtOnce, InTurn
<1>7. Balanced(ts \o ((a \o b) \o c), 0)
  BY <1>5, <1>6
<1>8. QED
  BY <1>7 DEF b

\* The invariant of BlocksNest: the blocks open are those on the stack, but for the
\* outermost.
BlockInv ==
  /\ TypeOK
  /\ Balanced(tokens, Len(indents) - 1)
  /\ done => Len(indents) = 1

LEMMA BlocksStart ==
  ASSUME Init
  PROVE  BlockInv
<1>1. tokens = << >> /\ Len(indents) - 1 = 0 /\ ~ done
  BY DEF Init
<1>2. \A type : Count(<< >>, type, 0) = 0
  <2> TAKE type
  <2>1. {i \in 1 .. 0 : << >>[i].type = type} = {}
    OBVIOUS
  <2>2. QED
    BY <2>1, FS_EmptySet DEF Count
<1>3. Balanced(<< >>, 0)
  <2>1. Len(<< >>) = 0 /\ 0 .. 0 = {0}
    OBVIOUS
  <2>2. QED
    BY <1>2, <2>1 DEF Balanced
<1>4. QED
  BY <1>1, <1>3, TypesStart DEF BlockInv

\* Every step queues as many DEDENTs, and INDENTs, as it closes and opens blocks.
LEMMA BlocksStep ==
  ASSUME BlockInv, [Next]_vars
  PROVE  BlockInv'
<1> USE DEF place
<1> DEFINE open == Len(indents) - 1
<1>1. /\ TypeOK /\ TypeOK' /\ tokens \in Seq(Tokens) /\ Balanced(tokens, open)
      /\ indents \in Seq(Nat) /\ indents # << >> /\ (done => Len(indents) = 1)
  BY TypesStep DEF BlockInv, TypeOK
<1>2. open \in Nat /\ Len(indents) = open + 1
  BY <1>1
<1>3. ASSUME NEW more \in Seq(Tokens), Queue(more),
             \A i \in 1 .. Len(more) : more[i].type \notin {"INDENT", "DEDENT"}
      PROVE  Balanced(tokens', open)
  <2>1. Balanced(tokens \o more, open)
    BY <1>1, <1>2, <1>3, OthersBalance
  <2>2. QED
    BY <1>3, <2>1 DEF Queue
<1>4. ASSUME NEW t \in Tokens, Queue(<< t >>), t.type \notin {"INDENT", "DEDENT"}
      PROVE  Balanced(tokens', open)
  <2>1. << t >> \in Seq(Tokens)
    OBVIOUS
  <2>2. \A i \in 1 .. Len(<< t >>) : << t >>[i].type \notin {"INDENT", "DEDENT"}
    BY <1>4
  <2>3. QED
    BY <1>3, <1>4, <2>1, <2>2
<1>5. ASSUME UNCHANGED indents, ~ done, ~ done', Balanced(tokens', open)
      PROVE  BlockInv'
  BY <1>1, <1>5 DEF BlockInv
<1>6. ASSUME UNCHANGED << indents, tokens >>, ~ done, ~ done'
      PROVE  BlockInv'
  BY <1>1, <1>6 DEF BlockInv
<1>7. \A type \in Types : Token(type) \in Tokens /\ Token(type).type = type
  BY <1>1, TokenTyped DEF Token
<1>8. CASE Finish
  <2> DEFINE closing == Times(Len(indents) - 1, "DEDENT")
             last    == << Token("EOF") >>
  <2>1. /\ Token("NEWLINE") \in Tokens /\ Token("NEWLINE").type = "NEWLINE"
        /\ Token("DEDENT") \in Tokens /\ Token("DEDENT").type = "DEDENT"
        /\ Token("EOF") \in Tokens /\ Token("EOF").type = "EOF"
    BY <1>7 DEF Types
  <2>2. /\ Unended \in Seq(Tokens) /\ closing \in Seq(Tokens) /\ last \in Seq(Tokens)
    BY <1>2, <2>1, LastTokens
  <2>3. \A i \in 1 .. Len(Unended) : Unended[i].type \notin {"INDENT", "DEDENT"}
    BY <2>1 DEF Unended
  <2>4. \A i \in 1 .. Len(last) : last[i].type \notin {"INDENT", "DEDENT"}
    BY <2>1
  <2>5. closing = [i \in 1 .. open |-> Token("DEDENT")]
    BY DEF Times
  <2>6. tokens' = tokens \o (Unended \o closing \o last)
    BY <1>8 DEF Finish, Queue, Unended
  <2> HIDE DEF last, open
  <2>7. Balanced(tokens \o (Unended \o [i \in 1 .. open |-> Token("DEDENT")] \o last), 0)
    BY <1>1, <1>2, <2>1, <2>2, <2>3, <2>4, EndBalances
  <2>8. Balanced(tokens', 0)
    BY <2>5, <2>6, <2>7
  <2>9. Len(indents') - 1 = 0 /\ Len(indents') = 1
    BY <1>8 DEF Finish
  <2>10. QED
    BY <1>1, <2>8, <2>9 DEF BlockInv
<1>9. CASE SkipBlankLine
  BY <1>6, <1>9 DEF SkipBlankLine, Scanning
<1>10. CASE ScanIndent
  <2>1. ~ done /\ ~ done'
    BY <1>10 DEF ScanIndent, Scanning
  <2>2. Lead \in Nat /\ Width \in Nat
    BY <1>1, LeadTyped, WidthTyped
  <2>3. \A type \in {"INDENT", "DEDENT"} :
          AfterLead(type) \in Tokens /\ AfterLead(type).type = type
    <3> TAKE type \in {"INDENT", "DEDENT"}
    <3>1. TypeOK
      BY <1>1
    <3>2. line \in Int /\ column + Lead \in Int /\ offset + Lead \in Nat
      BY <2>2, <3>1 DEF TypeOK
    <3>3. QED
      BY <3>2 DEF AfterLead, Tokens, Types
  <2>4. CASE Deeper
    <3>1. indents' = Append(indents, Width) /\ tokens' = tokens \o << AfterLead("INDENT") >>
      BY <1>10, <2>4 DEF ScanIndent, Queue
    <3>2. Balanced(tokens', open + 1)
      BY <1>1, <1>2, <2>3, <3>1, IndentBalances
    <3>3. Len(indents') - 1 = open + 1
      BY <1>1, <1>2, <3>1
    <3>4. QED
      BY <1>1, <2>1, <3>2, <3>3 DEF BlockInv
  <2>5. CASE ~ Deeper
    <3> DEFINE d == ClosedAt(Width)
    <3>1. /\ indents' = OpenAt(Width)
          /\ tokens' = tokens \o [i \in 1 .. d |-> AfterLead("DEDENT")]
      BY <1>10, <2>5 DEF ScanIndent, Queue
    <3>2. d \in 0 .. open /\ Len(OpenAt(Width)) = Len(indents) - d
      BY <1>1, <2>2, OpenPrefix
    <3> HIDE DEF d
    <3>3. Balanced(tokens', open - d)
      BY <1>1, <1>2, <2>3, <3>1, <3>2, DedentsBalance
    <3>4. Len(indents') - 1 = open - d
      BY <1>2, <3>1, <3>2
    <3>5. QED
      BY <1>1, <2>1, <3>3, <3>4 DEF BlockInv
  <2>6. QED
    BY <2>4, <2>5
<1>11. CASE SkipSpace
  BY <1>6, <1>11 DEF SkipSpace, InLine, Scanning
<1>12. CASE SkipComment
  BY <1>6, <1>12 DEF SkipComment, InLine, Scanning
<1>13. CASE JoinLines
  BY <1>6, <1>13 DEF JoinLines, InLine, Scanning
<1>14. CASE EndLine
  <2>1. ~ done /\ ~ done' /\ UNCHANGED indents
    BY <1>14 DEF EndLine, InLine, Scanning
  <2>2. Token("NEWLINE")' \in Tokens /\ Token("NEWLINE")'.type = "NEWLINE"
    <3>1. offset' \in Nat /\ line' \in Int /\ column' \in Int
      BY <1>1 DEF TypeOK
    <3>2. QED
      BY <3>1 DEF Token, Tokens, Types
  <2>3. CASE parens = 0 /\ lineHasTok
    <3>1. Queue(<< Token("NEWLINE")' >>)
      BY <1>14, <2>3 DEF EndLine
    <3>2. Balanced(tokens', open)
      BY <1>4, <2>2, <3>1
    <3>3. QED
      BY <1>5, <2>1, <3>2
  <2>4. CASE parens = 0 /\ ~ lineHasTok
    <3>1. Queue(<< >>)
      BY <1>14, <2>4 DEF EndLine
    <3>2. tokens' = tokens
      BY <1>1, <3>1, ConcatEmptySeq DEF Queue
    <3>3. QED
      BY <1>6, <2>1, <3>2
  <2>5. CASE parens # 0
    <3>1. UNCHANGED tokens
      BY <1>14, <2>5 DEF EndLine
    <3>2. QED
      BY <1>6, <2>1, <3>1
  <2>6. QED
    BY <2>3, <2>4, <2>5
<1>15. CASE Unexpected
  BY <1>6, <1>15 DEF Unexpected, InLine, Scanning
<1>16. CASE ScanName
  <2>1. Queue(<< Token("NAME") >>) /\ ~ done /\ ~ done' /\ UNCHANGED indents
    BY <1>16 DEF ScanName, InLine, Scanning
  <2>2. Token("NAME") \in Tokens /\ Token("NAME").type = "NAME"
    BY <1>7 DEF Types
  <2>3. QED
    BY <1>4, <1>5, <2>1, <2>2
<1>17. CASE ScanOperator
  <2>1. /\ Queue(<< Token(Cur) >>) /\ ~ done /\ ~ done' /\ UNCHANGED indents
        /\ Cur \in {"+", "(", ")"}
    BY <1>17 DEF ScanOperator, InLine, Scanning
  <2>2. Token(Cur) \in Tokens /\ Token(Cur).type \notin {"INDENT", "DEDENT"}
    BY <1>7, <2>1 DEF Types
  <2>3. QED
    BY <1>4, <1>5, <2>1, <2>2
<1>18. CASE OpenString
  BY <1>6, <1>18 DEF OpenString, InLine, Scanning
<1>19. ASSUME EndString, InString
       PROVE  BlockInv'
  <2>1. Queue(<< string.token >>) /\ ~ done /\ ~ done' /\ UNCHANGED indents
    BY <1>19 DEF EndString, InString
  <2>2. string.token \in Tokens /\ string.token.type \notin {"INDENT", "DEDENT"}
    BY <1>1, <1>19 DEF InString, TypeOK
  <2>3. QED
    BY <1>4, <1>5, <2>1, <2>2
<1>20. CASE CloseString
  BY <1>19, <1>20 DEF CloseString
<1>21. CASE Unterminated
  BY <1>19, <1>21 DEF Unterminated
<1>22. CASE LineInString
  BY <1>6, <1>22 DEF LineInString, GoOn, InString
<1>23. CASE Escape
  BY <1>6, <1>23 DEF Escape, GoOn, InString
<1>24. CASE InText
  BY <1>6, <1>24 DEF InText, GoOn, InString
<1>25. CASE UNCHANGED vars
  BY <1>1, <1>25 DEF vars, BlockInv
<1>26. QED
  BY <1>8, <1>9, <1>10, <1>11, <1>12, <1>13, <1>14, <1>15, <1>16, <1>17, <1>18,
     <1>20, <1>21, <1>22, <1>23, <1>24, <1>25 DEF Next

\* The blocks of any source, however malformed, open before they close, and all
\* are closed at its end, whatever the source: the parser relies on it (scanIndent, finish).
THEOREM BlocksAlwaysNest == Spec => []BlocksNest
<1>1. Init => BlockInv
  BY BlocksStart
<1>2. BlockInv /\ [Next]_vars => BlockInv'
  BY BlocksStep
<1>3. BlockInv => BlocksNest
  <2> SUFFICES ASSUME BlockInv
               PROVE  BlocksNest
    OBVIOUS
  <2>1. /\ Balanced(tokens, Len(indents) - 1) /\ (done => Len(indents) = 1)
        /\ tokens \in Seq(Tokens)
    BY DEF BlockInv, TypeOK
  <2>2. DOMAIN tokens = 1 .. Len(tokens) /\ Len(tokens) \in Nat
    BY <2>1
  <2>3. \A type : \A n \in 0 .. Len(tokens) : Of(type, n) = Count(tokens, type, n)
    BY DEF Of, Count
  <2>4. \A n \in DOMAIN tokens : Of("DEDENT", n) <= Of("INDENT", n)
    BY <2>1, <2>2, <2>3 DEF Balanced
  <2>5. ASSUME done
        PROVE  Of("DEDENT", Len(tokens)) = Of("INDENT", Len(tokens))
    <3>1. 0 = Count(tokens, "INDENT", Len(tokens)) - Count(tokens, "DEDENT", Len(tokens))
      <4>1. Len(indents) - 1 = 0
        BY <2>1, <2>5
      <4>2. Balanced(tokens, 0)
        BY <2>1, <4>1
      <4>3. QED
        BY <4>2 DEF Balanced
    <3>2. /\ Count(tokens, "INDENT", Len(tokens)) \in Nat
          /\ Count(tokens, "DEDENT", Len(tokens)) \in Nat
      BY <2>2, CountNat
    <3>3. Count(tokens, "INDENT", Len(tokens)) = Count(tokens, "DEDENT", Len(tokens))
      BY <3>1, <3>2
    <3>4. QED
      BY <2>2, <2>3, <3>3
  <2>6. QED
    BY <2>4, <2>5 DEF BlocksNest
<1>4. QED
  BY <1>1, <1>2, <1>3, PTL DEF Spec

-------------------------------------------------------------------------------
(* Positions *)

\* The place of a line and a column is the one that the line breaks give it.
Stands(breaks, l, c, o) ==
  /\ o \in Nat
  /\ LineStart(breaks, o) \in 0 .. o
  /\ l = 1 + Cardinality(UpTo(breaks, o))
  /\ c = 1 + o - LineStart(breaks, o)

Places == SUBSET (Nat \ {0})

LEMMA BreaksFinite ==
  ASSUME NEW b \in Places, NEW o \in Nat
  PROVE  /\ UpTo(b, o) \in SUBSET (1 .. o)
         /\ IsFiniteSet(UpTo(b, o))
         /\ Cardinality(UpTo(b, o)) \in Nat
<1>1. \A i \in b : i \in Nat /\ i >= 1
  BY DEF Places
<1>2. UpTo(b, o) \in SUBSET (1 .. o) /\ IsFiniteSet(1 .. o)
  BY <1>1, FS_Interval DEF UpTo
<1>3. QED
  BY <1>2, FS_Subset, FS_CardinalityType

LEMMA StandsTyped ==
  ASSUME NEW b \in Places, NEW l, NEW c, NEW o, Stands(b, l, c, o)
  PROVE  l \in Int /\ c \in Int
<1>1. o \in Nat /\ LineStart(b, o) \in Int
  BY DEF Stands
<1>2. Cardinality(UpTo(b, o)) \in Nat
  BY <1>1, BreaksFinite
<1>3. l = 1 + Cardinality(UpTo(b, o)) /\ c = 1 + o - LineStart(b, o)
  BY DEF Stands
<1>4. QED
  BY <1>1, <1>2, <1>3

\* Past characters that break no line, the line stays and the column grows.
LEMMA InLineStands ==
  ASSUME NEW b \in Places, NEW l, NEW c, NEW o, NEW n \in Nat,
         Stands(b, l, c, o), \A i \in b : o < i => o + n < i
  PROVE  Stands(b, l, c + n, o + n)
<1>1. o \in Nat /\ o + n \in Nat /\ \A i \in b : i \in Nat
  BY DEF Stands, Places
<1>2. \A i \in b : i <= o + n <=> i <= o
  BY <1>1
<1>3. UpTo(b, o + n) = UpTo(b, o)
  BY <1>2 DEF UpTo
<1>4. LineStart(b, o + n) = LineStart(b, o)
  BY <1>3 DEF LineStart
<1>5. LineStart(b, o) \in 0 .. o
  BY DEF Stands
<1>6. LineStart(b, o + n) \in 0 .. o + n
  BY <1>1, <1>4, <1>5
<1>7. c + n = 1 + (o + n) - LineStart(b, o + n)
  BY <1>1, <1>4, <1>5 DEF Stands
<1>8. l = 1 + Cardinality(UpTo(b, o + n))
  BY <1>3 DEF Stands
<1>9. QED
  BY <1>1, <1>6, <1>7, <1>8 DEF Stands

\* Past a line break the next line begins.
LEMMA NextLineStands ==
  ASSUME NEW b \in Places, NEW l, NEW c, NEW o, NEW e \in b,
         Stands(b, l, c, o), o < e, \A i \in b : o < i => e <= i
  PROVE  Stands(b, l + 1, 1, e)
<1>1. o \in Nat /\ e \in Nat /\ \A i \in b : i \in Nat
  BY DEF Stands, Places
<1>2. \A i \in b : i <= e <=> i <= o \/ i = e
  BY <1>1
<1>3. UpTo(b, e) = UpTo(b, o) \cup {e}
  BY <1>2 DEF UpTo
<1>4. UpTo(b, o) \in SUBSET (1 .. o) /\ e \notin UpTo(b, o)
  <2>1. UpTo(b, o) \in SUBSET (1 .. o)
    BY <1>1, BreaksFinite
  <2>2. e \notin 1 .. o
    BY <1>1
  <2>3. QED
    BY <2>1, <2>2
<1>5. Cardinality(UpTo(b, e)) = Cardinality(UpTo(b, o)) + 1
  <2>1. IsFiniteSet(UpTo(b, o))
    BY <1>1, BreaksFinite
  <2>2. QED
    BY <1>3, <1>4, <2>1, FS_AddElement
<1>6. l + 1 = 1 + Cardinality(UpTo(b, e))
  <2>1. Cardinality(UpTo(b, o)) \in Nat
    BY <1>1, BreaksFinite
  <2>2. l = 1 + Cardinality(UpTo(b, o))
    BY DEF Stands
  <2>3. QED
    BY <1>5, <2>1, <2>2
<1>7. LineStart(b, e) = e
  <2>1. \A j \in UpTo(b, e) : j <= e
    BY <1>1 DEF UpTo
  <2>2. e \in {0} \cup UpTo(b, e) /\ e \in UpTo(b, e)
    BY <1>3
  <2>3. \A i \in {0} \cup UpTo(b, e) : (\A j \in UpTo(b, e) : j <= i) => i = e
    <3> TAKE i \in {0} \cup UpTo(b, e)
    <3> HAVE \A j \in UpTo(b, e) : j <= i
    <3>1. e <= i
      BY <2>2
    <3>2. i = 0 \/ (i \in Nat /\ i <= e)
      BY <1>1, <2>1 DEF UpTo
    <3>3. QED
      BY <1>1, <3>1, <3>2
  <2>4. QED
    BY <2>1, <2>2, <2>3 DEF LineStart
<1>8. e \in 0 .. e /\ 1 = 1 + e - e
  BY <1>1
<1>9. QED
  BY <1>1, <1>6, <1>7, <1>8 DEF Stands

\* What stands up to a place depends on the line breaks up to it.
LEMMA EarlierStands ==
  ASSUME NEW b, NEW d, NEW at \in Nat, \A o \in 0 .. at : UpTo(d, o) = UpTo(b, o),
         NEW l, NEW c, NEW o, Stands(b, l, c, o), o <= at
  PROVE  Stands(d, l, c, o)
<1>1. o \in 0 .. at
  BY DEF Stands
<1>2. UpTo(d, o) = UpTo(b, o)
  BY <1>1
<1>3. LineStart(d, o) = LineStart(b, o)
  BY <1>2 DEF LineStart
<1>4. QED
  BY <1>2, <1>3 DEF Stands

\* The tokens that begin up to a place and stand where they say.
PlacedTokens(breaks, at) ==
  {t \in Tokens : t.offset <= at /\ Stands(breaks, t.line, t.column, t.offset)}

StringPlaced == string # NoString => string.token \in PlacedTokens(LineBreaks, offset)

\* The invariant of PositionsTrackSource.
PlaceInv ==
  /\ TypeOK
  /\ escaped \in SUBSET (1 .. offset)
  /\ Stands(LineBreaks, line, column, offset)
  /\ tokens \in Seq(PlacedTokens(LineBreaks, offset))
  /\ StringPlaced

LEMMA LineBreaksTyped ==
  ASSUME source \in Seq(Chars)
  PROVE  LineBreaks \in Places
<1>1. DOMAIN source = 1 .. Len(source) /\ 1 .. Len(source) \in Places
  BY DEF Places
<1>2. QED
  BY <1>1 DEF LineBreaks, Places

\* A step goes forward, and what it escapes lies ahead.
LEMMA GoesForward ==
  ASSUME TypeOK, [Next]_vars
  PROVE  /\ source' = source
         /\ offset' \in Nat /\ offset' >= offset
         /\ \/ escaped' = escaped
            \/ escaped' = escaped \cup {offset + 2} /\ offset' = offset + 2
<1> USE DEF place
<1>1. offset \in Nat
  BY DEF TypeOK
<1>2. ASSUME NEW n \in Nat, Advance(n)
      PROVE  offset' \in Nat /\ offset' >= offset /\ escaped' = escaped
  BY <1>1, <1>2 DEF Advance, Forward
<1>3. ASSUME NEW n \in Nat, ConsumeNewline(n)
      PROVE  offset' \in Nat /\ offset' >= offset /\ escaped' = escaped
  BY <1>1, <1>3 DEF ConsumeNewline
<1>4. Lead \in Nat /\ CommentAt(0) \in Nat /\ Lead + CommentAt(Lead) \in Nat
  <2>1. Lead \in Nat /\ CommentAt(Lead) \in Nat
    BY LeadTyped, CommentTyped
  <2>2. CommentAt(0) \in Nat
    <3>1. \A i \in 0 .. 0 - 1 : At(i) \in Chars \ Breaks /\ At(i) # Eof
      OBVIOUS
    <3>2. QED
      BY <3>1, CommentTyped
  <2>3. QED
    BY <2>1, <2>2
<1>5. NameLength \in Nat
  <2>1. Letters \in SUBSET Chars
    BY DEF Letters, Chars
  <2>2. QED
    BY <2>1, SpanTyped DEF NameLength
<1>6. CASE Finish \/ Unterminated \/ UNCHANGED vars
  <2>1. UNCHANGED << source, offset, escaped >>
    BY <1>6 DEF Finish, Unterminated, EndString, vars
  <2>2. QED
    BY <1>1, <2>1
<1>7. CASE SkipBlankLine
  <2> DEFINE skipped == Lead + CommentAt(Lead)
  <2>1. /\ IF At(skipped) \in Breaks THEN ConsumeNewline(skipped) ELSE Advance(skipped)
        /\ UNCHANGED source
    BY <1>7 DEF SkipBlankLine
  <2> HIDE DEF skipped
  <2>2. QED
    BY <1>2, <1>3, <1>4, <2>1 DEF skipped
<1>8. CASE ScanIndent
  BY <1>2, <1>4, <1>8 DEF ScanIndent
<1>9. CASE SkipSpace \/ Unexpected \/ ScanOperator \/ InText
  <2>1. Advance(1) /\ UNCHANGED source
    BY <1>9 DEF SkipSpace, Unexpected, ScanOperator, InText, GoOn
  <2>2. QED
    BY <1>2, <2>1
<1>10. CASE SkipComment
  BY <1>2, <1>4, <1>10 DEF SkipComment
<1>11. CASE JoinLines
  BY <1>3, <1>11 DEF JoinLines
<1>12. CASE EndLine \/ LineInString
  <2>1. ConsumeNewline(0) /\ UNCHANGED source
    BY <1>12 DEF EndLine, LineInString, GoOn
  <2>2. QED
    BY <1>3, <2>1
<1>13. CASE ScanName
  BY <1>2, <1>5, <1>13 DEF ScanName
<1>14. CASE OpenString
  <2> DEFINE prefix == IF Prefixed THEN 1 ELSE 0
             triple == At(prefix + 1) = "'" /\ At(prefix + 2) = "'"
             quotes == IF triple THEN 3 ELSE 1
  <2>1. Advance(prefix + quotes) /\ UNCHANGED source /\ prefix + quotes \in Nat
    BY <1>14 DEF OpenString
  <2> HIDE DEF prefix, quotes
  <2>2. QED
    BY <1>2, <2>1
<1>15. CASE CloseString
  <2>1. Advance(string.quotes) /\ UNCHANGED source /\ string.quotes \in Nat
    BY <1>15 DEF CloseString, EndString, InString, TypeOK
  <2>2. QED
    BY <1>2, <2>1
<1>16. CASE Escape
  <2>1. /\ Forward(EscapeLength) /\ UNCHANGED source
        /\ escaped' = escaped \cup (IF At(1) \in Breaks THEN {offset + 2} ELSE {})
    BY <1>16 DEF Escape, GoOn
  <2>2. EscapeLength \in {1, 2} /\ (At(1) \in Breaks => EscapeLength = 2)
    BY DEF EscapeLength, Breaks, Eof
  <2>3. QED
    BY <1>1, <2>1, <2>2 DEF Forward
<1>17. QED
  BY <1>6, <1>7, <1>8, <1>9, <1>10, <1>11, <1>12, <1>13, <1>14, <1>15, <1>16 DEF Next

\* It leaves the line breaks before it as they are, so what stood still stands.
LEMMA StillPlaced ==
  ASSUME PlaceInv, [Next]_vars
  PROVE  /\ source' = source /\ LineBreaks' \in Places
         /\ escaped' \in SUBSET (1 .. offset')
         /\ offset' \in Nat /\ offset' >= offset
         /\ Stands(LineBreaks', line, column, offset)
         /\ PlacedTokens(LineBreaks, offset) \in SUBSET PlacedTokens(LineBreaks', offset')
<1>1. TypeOK /\ offset \in Nat /\ escaped \in SUBSET (1 .. offset)
  BY DEF PlaceInv, TypeOK
<1>2. /\ source' = source
      /\ offset' \in Nat /\ offset' >= offset
      /\ \/ escaped' = escaped
         \/ escaped' = escaped \cup {offset + 2} /\ offset' = offset + 2
  BY <1>1, GoesForward
<1>3. source' \in Seq(Chars) /\ LineBreaks' \in Places
  <2>1. source' \in Seq(Chars)
    BY <1>1, <1>2 DEF TypeOK
  <2>2. DOMAIN source' = 1 .. Len(source')
    BY <2>1
  <2>3. QED
    BY <2>1, <2>2 DEF LineBreaks, Places
<1>4. escaped' \in SUBSET (1 .. offset')
  <2>1. \A i \in 1 .. offset : i \in 1 .. offset'
    BY <1>1, <1>2
  <2>2. offset' = offset + 2 => offset + 2 \in 1 .. offset'
    BY <1>1
  <2>3. QED
    BY <1>1, <1>2, <2>1, <2>2
<1>5. \A o \in 0 .. offset : UpTo(LineBreaks', o) = UpTo(LineBreaks, o)
  <2> TAKE o \in 0 .. offset
  <2>1. \A i \in 1 .. o : i \in escaped' <=> i \in escaped
    BY <1>1, <1>2
  <2>2. DOMAIN source = 1 .. Len(source)
    BY <1>1 DEF TypeOK
  <2>3. \A i : i \in UpTo(LineBreaks', o) <=> i \in UpTo(LineBreaks, o)
    <3> TAKE i
    <3>1. i \in DOMAIN source /\ i <= o => i \in 1 .. o
      BY <1>1, <2>2
    <3>2. QED
      BY <1>2, <2>1, <3>1 DEF UpTo, LineBreaks
  <2>4. QED
    BY <2>3
<1> DEFINE b == LineBreaks
           d == LineBreaks'
<1>6. Stands(b, line, column, offset)
  BY DEF PlaceInv
<1> HIDE DEF b, d
<1>7. \A o \in 0 .. offset : UpTo(d, o) = UpTo(b, o)
  BY <1>5 DEF b, d
<1>8. Stands(d, line, column, offset)
  BY <1>1, <1>6, <1>7, EarlierStands
<1>9. PlacedTokens(b, offset) \in SUBSET PlacedTokens(d, offset')
  <2> SUFFICES ASSUME NEW t \in PlacedTokens(b, offset)
               PROVE  t \in PlacedTokens(d, offset')
    OBVIOUS
  <2>1. t \in Tokens /\ t.offset <= offset /\ Stands(b, t.line, t.column, t.offset)
    BY DEF PlacedTokens
  <2>2. Stands(d, t.line, t.column, t.offset)
    BY <1>1, <1>7, <2>1, EarlierStands
  <2>3. t.offset \in Nat
    BY <2>1 DEF Tokens
  <2>4. t.offset <= offset'
    BY <1>1, <1>2, <2>1, <2>3
  <2>5. QED
    BY <2>1, <2>2, <2>4 DEF PlacedTokens
<1>10. QED
  BY <1>2, <1>3, <1>4, <1>8, <1>9 DEF b, d

\* What the lexer passes without a line break leaves it where the source says.
LEMMA ForwardPlaced ==
  ASSUME LineBreaks' \in Places, Stands(LineBreaks', line, column, offset), NEW n \in Nat,
         \A i \in LineBreaks' : offset < i => offset + n < i, Forward(n)
  PROVE  Stands(LineBreaks', line', column', offset')
<1>1. Stands(LineBreaks', line, column + n, offset + n)
  BY InLineStands
<1>2. QED
  BY <1>1 DEF Forward

LEMMA AdvancePlaced ==
  ASSUME TypeOK, source' = source, LineBreaks' \in Places,
         Stands(LineBreaks', line, column, offset), NEW n \in Nat,
         \A i \in 0 .. n - 1 : At(i) \in Chars \ Breaks, Advance(n)
  PROVE  Stands(LineBreaks', line', column', offset')
<1>1. source \in Seq(Chars) /\ offset \in 0 .. Len(source) /\ Len(source) \in Nat
  BY DEF TypeOK
<1>2. \A i \in LineBreaks' : offset < i => offset + n < i
  <2> SUFFICES ASSUME NEW i \in LineBreaks', offset < i, ~ (offset + n < i)
               PROVE  FALSE
    OBVIOUS
  <2>1. i \in 1 .. Len(source) /\ source[i] \in Breaks
    BY <1>1 DEF LineBreaks
  <2>2. /\ i - offset - 1 \in 0 .. n - 1 /\ i - offset - 1 \in Nat
        /\ offset + 1 + (i - offset - 1) = i
    BY <1>1, <2>1
  <2>3. At(i - offset - 1) = source[i]
    BY <1>1, <2>1, <2>2, AtSource
  <2>4. QED
    BY <2>1, <2>2, <2>3
<1>3. QED
  BY <1>2, ForwardPlaced DEF Advance

\* So does a line break.
LEMMA NewlinePlaced ==
  ASSUME TypeOK, source' = source, LineBreaks' \in Places, escaped \in SUBSET (1 .. offset),
         Stands(LineBreaks', line, column, offset), NEW n \in Nat,
         \A i \in 0 .. n - 1 : At(i) \in Chars \ Breaks, At(n) \in Breaks,
         ConsumeNewline(n)
  PROVE  Stands(LineBreaks', line', column', offset')
<1> DEFINE f == offset + n + 1
           pair == f < Len(source) /\ source[f] = "cr" /\ source[f + 1] = "nl"
<1>1. /\ source \in Seq(Chars) /\ offset \in 0 .. Len(source) /\ Len(source) \in Nat
      /\ n + 1 \in Nat /\ f \in Nat /\ offset + 1 + n = f /\ offset + 1 + (n + 1) = f + 1
  <2>1. source \in Seq(Chars) /\ offset \in 0 .. Len(source) /\ Len(source) \in Nat
    BY DEF TypeOK
  <2>2. QED
    BY <2>1
<1>2. At(n) \in Chars /\ Eof # "nl"
  BY DEF Breaks, Chars, Eof
<1>3. At(n) = source[f] /\ f \in 1 .. Len(source) /\ source[f] \in Breaks
  <2>1. At(n) = source[f] /\ f <= Len(source)
    BY <1>1, <1>2, AtSource
  <2>2. QED
    BY <1>1, <2>1
<1>4. IF f + 1 <= Len(source) THEN At(n + 1) = source[f + 1] ELSE At(n + 1) = Eof
  BY <1>1, AtSource
<1>5. At(n) = "cr" /\ At(n + 1) = "nl" <=> pair
  BY <1>1, <1>2, <1>3, <1>4
<1>6. \A i \in offset + 1 .. f - 1 : source[i] \notin Breaks
  <2> TAKE i \in offset + 1 .. f - 1
  <2>1. /\ i - offset - 1 \in 0 .. n - 1 /\ i - offset - 1 \in Nat
        /\ offset + 1 + (i - offset - 1) = i /\ i <= Len(source)
    BY <1>1, <1>3
  <2>2. At(i - offset - 1) = source[i]
    BY <1>1, <2>1, AtSource
  <2>3. QED
    BY <2>1, <2>2
<1>7. /\ offset' = offset + n + (IF pair THEN 2 ELSE 1)
      /\ line' = line + 1 /\ column' = 1 /\ escaped' = escaped
  BY <1>5 DEF ConsumeNewline
<1> HIDE DEF f
<1>8. /\ offset < offset' /\ offset' \in 1 .. Len(source) /\ source[offset'] \in Breaks
      /\ ~ (source[offset'] = "cr" /\ offset' < Len(source) /\ source[offset' + 1] = "nl")
  <2>1. CASE pair
    <3>1. offset' = f + 1 /\ source[f + 1] = "nl"
      BY <1>1, <1>7, <2>1 DEF f
    <3>2. QED
      BY <1>1, <1>3, <2>1, <3>1 DEF Breaks, f
  <2>2. CASE ~ pair
    <3>1. offset' = f
      BY <1>1, <1>7, <2>2 DEF f
    <3>2. QED
      BY <1>1, <1>3, <2>2, <3>1 DEF f
  <2>3. QED
    BY <2>1, <2>2
<1>9. offset' \in LineBreaks'
  <2>1. offset' \notin escaped'
    <3>1. offset' \notin 1 .. offset
      BY <1>1, <1>8
    <3>2. QED
      BY <1>7, <3>1
  <2>2. offset' \in DOMAIN source'
    BY <1>1, <1>8
  <2>3. QED
    BY <1>8, <2>1, <2>2 DEF LineBreaks
<1>10. \A i \in LineBreaks' : offset < i => offset' <= i
  <2> SUFFICES ASSUME NEW i \in LineBreaks', offset < i, ~ (offset' <= i)
               PROVE  FALSE
    OBVIOUS
  <2>1. /\ i \in 1 .. Len(source) /\ source[i] \in Breaks
        /\ ~ (source[i] = "cr" /\ i < Len(source) /\ source[i + 1] = "nl")
    BY <1>1 DEF LineBreaks
  <2>2. ~ (i \in offset + 1 .. f - 1)
    BY <1>6, <2>1
  <2>3. i >= f
    BY <1>1, <2>1, <2>2
  <2>4. i = f /\ pair
    <3>1. offset + n = f - 1 /\ f \in Int /\ i \in Int
      BY <1>1, <2>1 DEF f
    <3>2. pair => offset' = f + 1
      BY <1>7, <3>1
    <3>3. ~ pair => offset' = f
      BY <1>7, <3>1
    <3>4. QED
      BY <2>3, <3>1, <3>2, <3>3
  <2>5. QED
    BY <2>1, <2>4
<1>11. Stands(LineBreaks', line + 1, 1, offset')
  BY <1>8, <1>9, <1>10, NextLineStands
<1>12. QED
  BY <1>7, <1>11

\* A token that begins where the lexer is stands there.
LEMMA TokenPlaced ==
  ASSUME NEW b \in Places, NEW l, NEW c, NEW o, Stands(b, l, c, o),
         NEW at, o <= at, NEW type \in Types
  PROVE  [type |-> type, line |-> l, column |-> c, offset |-> o] \in PlacedTokens(b, at)
<1>1. l \in Int /\ c \in Int
  BY StandsTyped
<1>2. o \in Nat
  BY DEF Stands
<1>3. QED
  BY <1>1, <1>2 DEF PlacedTokens, Tokens

LEMMA PlaceStart ==
  ASSUME Init
  PROVE  PlaceInv
<1>1. TypeOK /\ source \in Seq(Chars)
  BY TypesStart DEF TypeOK
<1>2. LineBreaks \in Places
  BY <1>1, LineBreaksTyped
<1>3. UpTo(LineBreaks, 0) = {}
  <2>1. UpTo(LineBreaks, 0) \in SUBSET (1 .. 0)
    BY <1>2, BreaksFinite
  <2>2. QED
    BY <2>1
<1>4. Cardinality(UpTo(LineBreaks, 0)) = 0
  BY <1>3, FS_EmptySet
<1>5. LineStart(LineBreaks, 0) = 0
  BY <1>3 DEF LineStart
<1>6. 0 \in Nat /\ 0 \in 0 .. 0 /\ 1 = 1 + 0 /\ 1 = 1 + 0 - 0
  OBVIOUS
<1>7. Stands(LineBreaks, 1, 1, 0)
  BY <1>4, <1>5, <1>6 DEF Stands
<1>8. tokens \in Seq(PlacedTokens(LineBreaks, offset))
  BY DEF Init
<1>9. escaped \in SUBSET (1 .. offset)
  BY DEF Init
<1>10. QED
  BY <1>1, <1>7, <1>8, <1>9 DEF Init, PlaceInv, StringPlaced

\* Every step goes where the source says, and queues tokens that stand there.
LEMMA PlaceStep ==
  ASSUME PlaceInv, [Next]_vars
  PROVE  PlaceInv'
<1> USE DEF place
<1> DEFINE b == LineBreaks'
           P == PlacedTokens(b, offset')
<1>1. TypeOK /\ escaped \in SUBSET (1 .. offset)
  BY DEF PlaceInv
<1>2. /\ TypeOK' /\ source' = source /\ b \in Places
      /\ escaped' \in SUBSET (1 .. offset')
      /\ offset' \in Nat /\ offset' >= offset
      /\ Stands(b, line, column, offset)
      /\ tokens \in Seq(P)
      /\ string # NoString => string.token \in P
  <2>1. /\ source' = source /\ b \in Places
        /\ escaped' \in SUBSET (1 .. offset')
        /\ offset' \in Nat /\ offset' >= offset
        /\ Stands(b, line, column, offset)
        /\ PlacedTokens(LineBreaks, offset) \in SUBSET P
    BY StillPlaced
  <2>2. TypeOK'
    BY <1>1, TypesStep
  <2> HIDE DEF P, b
  <2>3. tokens \in Seq(P)
    BY <2>1 DEF PlaceInv
  <2>4. string # NoString => string.token \in P
    BY <2>1 DEF PlaceInv, StringPlaced
  <2>5. QED
    BY <2>1, <2>2, <2>3, <2>4
<1>3. source \in Seq(Chars) /\ offset \in 0 .. Len(source) /\ Len(source) \in Nat
  BY <1>1 DEF TypeOK
<1>4. \A k \in Nat : At(k) # Eof =>
        At(k) \in Chars /\ offset + 1 + k <= Len(source) /\ At(k) = source[offset + 1 + k]
  BY <1>3, AtSource
<1>5. \A type \in Types : Token(type) \in P
  BY <1>2, TokenPlaced DEF Token
<1>6. ASSUME NEW more \in Seq(P), Queue(more)
      PROVE  tokens' \in Seq(P)
  BY <1>2, <1>6, ConcatProperties DEF Queue
<1>7. ASSUME NEW t \in P, Queue(<< t >>)
      PROVE  tokens' \in Seq(P)
  <2>1. << t >> \in Seq(P)
    OBVIOUS
  <2>2. QED
    BY <1>6, <1>7, <2>1
<1>8. ASSUME NEW n \in Nat, \A i \in 0 .. n - 1 : At(i) \in Chars \ Breaks, Advance(n)
      PROVE  Stands(b, line', column', offset')
  BY <1>1, <1>2, <1>8, AdvancePlaced
<1>9. ASSUME NEW n \in Nat, \A i \in 0 .. n - 1 : At(i) \in Chars \ Breaks,
             At(n) \in Breaks, ConsumeNewline(n)
      PROVE  Stands(b, line', column', offset')
  BY <1>1, <1>2, <1>9, NewlinePlaced
<1>10. ASSUME At(0) \in Breaks, ConsumeNewline(0)
       PROVE  Stands(b, line', column', offset')
  <2>1. \A i \in 0 .. 0 - 1 : At(i) \in Chars \ Breaks
    OBVIOUS
  <2>2. QED
    BY <1>9, <1>10, <2>1
<1>11. ASSUME Cur # Eof, Cur \notin Breaks, Advance(1)
       PROVE  Stands(b, line', column', offset')
  <2>1. \A i \in 0 .. 1 - 1 : At(i) \in Chars \ Breaks
    BY <1>4, <1>11 DEF Cur
  <2>2. QED
    BY <1>8, <1>11, <2>1
<1>12. ASSUME Stands(b, line', column', offset'), tokens' \in Seq(P),
              string' # NoString => string'.token \in P
       PROVE  PlaceInv'
  BY <1>2, <1>12 DEF PlaceInv, StringPlaced
<1>13. ASSUME Stands(b, line', column', offset'), tokens' \in Seq(P), string' = string
       PROVE  PlaceInv'
  BY <1>2, <1>12, <1>13
<1> HIDE DEF P, b
<1>14. CASE Finish
  <2>1. Len(indents) - 1 \in Nat
    BY <1>1 DEF TypeOK
  <2>2. Token("NEWLINE") \in P /\ Token("DEDENT") \in P /\ Token("EOF") \in P
    BY <1>5 DEF Types
  <2>3. tokens' \in Seq(P)
    BY <1>6, <1>14, <2>1, <2>2, LastTokens DEF Finish, Unended
  <2>4. UNCHANGED << line, column, offset, string >>
    BY <1>14 DEF Finish
  <2>5. QED
    BY <1>2, <1>13, <2>3, <2>4
<1>15. CASE SkipBlankLine
  <2> DEFINE skipped == Lead + CommentAt(Lead)
  <2>1. skipped \in Nat /\ \A i \in 0 .. skipped - 1 : At(i) \in Chars \ Breaks
    BY <1>1, LeadTyped, CommentTyped
  <2>2. IF At(skipped) \in Breaks THEN ConsumeNewline(skipped) ELSE Advance(skipped)
    BY <1>15 DEF SkipBlankLine
  <2> HIDE DEF skipped
  <2>3. Stands(b, line', column', offset')
    BY <1>8, <1>9, <2>1, <2>2
  <2>4. QED
    BY <1>2, <1>13, <1>15, <2>3 DEF SkipBlankLine
<1>16. CASE ScanIndent
  <2>1. Advance(Lead) /\ UNCHANGED << source, string >>
    BY <1>16 DEF ScanIndent
  <2>2. Lead \in Nat /\ Width \in Nat /\ \A i \in 0 .. Lead - 1 : At(i) \in Chars \ Breaks
    BY <1>1, LeadTyped, WidthTyped
  <2>3. Stands(b, line', column', offset')
    BY <1>8, <2>1, <2>2
  <2>4. Stands(b, line, column + Lead, offset + Lead) /\ offset + Lead <= offset'
    BY <1>3, <2>1, <2>2, <2>3 DEF Advance, Forward
  <2>5. \A type \in {"INDENT", "DEDENT"} : AfterLead(type) \in P
    BY <1>2, <2>4, TokenPlaced DEF AfterLead, Types, P
  <2>6. CASE Deeper
    <3>1. Queue(<< AfterLead("INDENT") >>)
      BY <1>16, <2>6 DEF ScanIndent
    <3>2. tokens' \in Seq(P)
      BY <1>7, <2>5, <3>1
    <3>3. QED
      BY <1>13, <2>1, <2>3, <3>2
  <2>7. CASE ~ Deeper
    <3>1. Queue([i \in 1 .. ClosedAt(Width) |-> AfterLead("DEDENT")])
      BY <1>16, <2>7 DEF ScanIndent
    <3>2. ClosedAt(Width) \in Nat
      <4>1. ClosedAt(Width) \in 0 .. Len(indents) - 1
        BY <1>1, <2>2, OpenPrefix
      <4>2. QED
        BY <4>1
    <3>3. [i \in 1 .. ClosedAt(Width) |-> AfterLead("DEDENT")] \in Seq(P)
      BY <2>5, <3>2
    <3>4. tokens' \in Seq(P)
      BY <1>6, <3>1, <3>3
    <3>5. QED
      BY <1>13, <2>1, <2>3, <3>4
  <2>8. QED
    BY <2>6, <2>7
<1>17. CASE SkipSpace
  <2>1. Cur # Eof /\ Cur \notin Breaks /\ Advance(1)
    BY <1>17 DEF SkipSpace, Breaks, Eof
  <2>2. QED
    BY <1>2, <1>11, <1>13, <1>17, <2>1 DEF SkipSpace
<1>18. CASE SkipComment
  <2>1. Advance(CommentAt(0)) /\ 0 \in Nat
    BY <1>18 DEF SkipComment
  <2>2. /\ CommentAt(0) \in Nat
        /\ \A i \in 0 .. (0 + CommentAt(0)) - 1 : At(i) \in Chars \ Breaks
    BY <1>1, CommentTyped
  <2>3. 0 + CommentAt(0) = CommentAt(0)
    BY <2>2
  <2>4. Stands(b, line', column', offset')
    BY <1>8, <2>1, <2>2, <2>3
  <2>5. QED
    BY <1>2, <1>13, <1>18, <2>4 DEF SkipComment
<1>19. CASE JoinLines
  <2>1. At(0) = "\\" /\ At(1) \in Breaks /\ ConsumeNewline(1)
    BY <1>19 DEF JoinLines, Cur
  <2>2. \A i \in 0 .. 1 - 1 : At(i) \in Chars \ Breaks
    BY <2>1 DEF Chars, Breaks
  <2>3. Stands(b, line', column', offset')
    BY <1>9, <2>1, <2>2
  <2>4. QED
    BY <1>2, <1>13, <1>19, <2>3 DEF JoinLines
<1>20. CASE EndLine
  <2>1. At(0) \in Breaks /\ ConsumeNewline(0) /\ UNCHANGED << source, string >>
    BY <1>20 DEF EndLine, Cur
  <2>2. Stands(b, line', column', offset')
    BY <1>10, <2>1
  <2>3. Token("NEWLINE")' \in P
    <3>1. offset' <= offset' /\ "NEWLINE" \in Types
      BY <1>2 DEF Types
    <3>2. [type |-> "NEWLINE", line |-> line', column |-> column', offset |-> offset']
            \in PlacedTokens(b, offset')
      BY <1>2, <2>2, <3>1, TokenPlaced
    <3>3. QED
      BY <3>2 DEF Token, P
  <2>4. CASE parens = 0 /\ lineHasTok
    <3>1. Queue(<< Token("NEWLINE")' >>)
      BY <1>20, <2>4 DEF EndLine
    <3>2. tokens' \in Seq(P)
      BY <1>7, <2>3, <3>1
    <3>3. QED
      BY <1>13, <2>1, <2>2, <3>2
  <2>5. CASE parens = 0 /\ ~ lineHasTok
    <3>1. Queue(<< >>) /\ << >> \in Seq(P)
      BY <1>20, <2>5 DEF EndLine
    <3>2. tokens' \in Seq(P)
      BY <1>6, <3>1
    <3>3. QED
      BY <1>13, <2>1, <2>2, <3>2
  <2>6. CASE parens # 0
    <3>1. UNCHANGED tokens
      BY <1>20, <2>6 DEF EndLine
    <3>2. QED
      BY <1>2, <1>13, <2>1, <2>2, <3>1
  <2>7. QED
    BY <2>4, <2>5, <2>6
<1>21. CASE Unexpected
  <2>1. Cur # Eof /\ Cur \notin Breaks /\ Advance(1)
    BY <1>21 DEF Unexpected, Breaks, Eof
  <2>2. QED
    BY <1>2, <1>11, <1>13, <1>21, <2>1 DEF Unexpected
<1>22. CASE ScanName
  <2>1. Letters \in SUBSET Chars /\ Letters \in SUBSET (Chars \ Breaks)
    BY DEF Letters, Chars, Breaks
  <2>2. NameLength \in Nat /\ \A i \in 0 .. NameLength - 1 : At(i) \in Chars \ Breaks
    BY <1>1, <2>1, SpanTyped DEF NameLength
  <2>3. Advance(NameLength) /\ Queue(<< Token("NAME") >>)
    BY <1>22 DEF ScanName
  <2>4. Stands(b, line', column', offset')
    BY <1>8, <2>2, <2>3
  <2>5. tokens' \in Seq(P)
    <3>1. Token("NAME") \in P
      BY <1>5 DEF Types
    <3>2. QED
      BY <1>7, <2>3, <3>1
  <2>6. QED
    BY <1>13, <1>22, <2>4, <2>5 DEF ScanName
<1>23. CASE ScanOperator
  <2>1. Cur \in {"+", "(", ")"} /\ Advance(1) /\ Queue(<< Token(Cur) >>)
    BY <1>23 DEF ScanOperator
  <2>2. Cur # Eof /\ Cur \notin Breaks
    BY <2>1 DEF Breaks, Eof
  <2>3. tokens' \in Seq(P)
    <3>1. Token(Cur) \in P
      BY <1>5, <2>1 DEF Types
    <3>2. QED
      BY <1>7, <2>1, <3>1
  <2>4. QED
    BY <1>11, <1>13, <1>23, <2>1, <2>2, <2>3 DEF ScanOperator
<1>24. CASE OpenString
  <2> DEFINE prefix == IF Prefixed THEN 1 ELSE 0
             triple == At(prefix + 1) = "'" /\ At(prefix + 2) = "'"
             quotes == IF triple THEN 3 ELSE 1
  <2>1. /\ string' = [quotes |-> quotes, raw |-> Prefixed, token |-> Token("STRING")]
        /\ Advance(prefix + quotes)
        /\ Cur = "'" \/ Prefixed
        /\ UNCHANGED << source, tokens >>
    BY <1>24 DEF OpenString
  <2>2. prefix \in {0, 1} /\ quotes \in {1, 3} /\ prefix + quotes \in Nat
    OBVIOUS
  <2>3. At(0) \in {"'", "r"} /\ At(prefix) = "'"
    BY <2>1 DEF Prefixed, Cur
  <2>4. \A i \in 0 .. (prefix + quotes) - 1 : At(i) \in {"'", "r"}
    BY <2>3
  <2>5. {"'", "r"} \in SUBSET (Chars \ Breaks)
    BY DEF Chars, Breaks
  <2> HIDE DEF prefix, quotes
  <2>6. Stands(b, line', column', offset')
    BY <1>8, <2>1, <2>2, <2>4, <2>5
  <2>7. string'.token \in P
    BY <1>5, <2>1 DEF Types
  <2>8. QED
    BY <1>2, <1>12, <2>1, <2>6, <2>7
<1>25. ASSUME EndString, InString, Stands(b, line', column', offset')
       PROVE  PlaceInv'
  <2>1. Queue(<< string.token >>) /\ string' = NoString /\ string.token \in P
    BY <1>2, <1>25 DEF EndString, InString
  <2>2. tokens' \in Seq(P)
    BY <1>7, <2>1
  <2>3. QED
    BY <1>12, <1>25, <2>1, <2>2
<1>26. CASE CloseString
  <2>1. /\ InString /\ Quotes(string.quotes) /\ Advance(string.quotes) /\ EndString
    BY <1>26 DEF CloseString
  <2>2. string.quotes \in Nat
    BY <1>1, <2>1 DEF TypeOK, InString
  <2>3. \A i \in 0 .. string.quotes - 1 : At(i) \in Chars \ Breaks
    BY <2>1 DEF Quotes, Chars, Breaks
  <2>4. QED
    BY <1>8, <1>25, <2>1, <2>2, <2>3
<1>27. CASE Unterminated
  <2>1. InString /\ EndString /\ UNCHANGED place
    BY <1>27 DEF Unterminated
  <2>2. QED
    BY <1>2, <1>25, <2>1
<1>28. CASE LineInString
  <2>1. /\ At(0) \in Breaks /\ ConsumeNewline(0)
        /\ UNCHANGED << source, string, tokens >>
    BY <1>28 DEF LineInString, GoOn, Cur
  <2>2. QED
    BY <1>2, <1>10, <1>13, <2>1
<1>29. CASE Escape
  <2>1. /\ At(0) = "\\" /\ Forward(EscapeLength)
        /\ escaped' = escaped \cup (IF At(1) \in Breaks THEN {offset + 2} ELSE {})
        /\ UNCHANGED << string, tokens >>
    BY <1>29 DEF Escape, GoOn, Cur
  <2>2. EscapeLength \in {1, 2}
    BY DEF EscapeLength
  <2>3. \A i \in b : offset < i => offset + EscapeLength < i
    <3> SUFFICES ASSUME NEW i \in b, offset < i, ~ (offset + EscapeLength < i)
                 PROVE  FALSE
      OBVIOUS
    <3>1. i \in 1 .. Len(source) /\ source[i] \in Breaks /\ i \notin escaped'
      BY <1>2, <1>3 DEF LineBreaks, b
    <3>2. i = offset + 1 \/ i = offset + 2
      BY <1>3, <2>2, <3>1
    <3>3. CASE i = offset + 1
      <4>1. offset + 1 + 0 = i /\ i <= Len(source)
        BY <1>3, <3>1, <3>3
      <4>2. At(0) = source[i]
        BY <1>3, <4>1, AtSource
      <4>3. QED
        BY <2>1, <3>1, <4>2 DEF Breaks
    <3>4. CASE i = offset + 2
      <4>1. offset + 1 + 1 = i /\ i <= Len(source)
        BY <1>3, <3>1, <3>4
      <4>2. At(1) = source[i]
        BY <1>3, <4>1, AtSource
      <4>3. QED
        BY <2>1, <3>1, <3>4, <4>2
    <3>5. QED
      BY <3>2, <3>3, <3>4
  <2>4. Stands(b, line', column', offset')
    BY <1>2, <2>1, <2>2, <2>3, ForwardPlaced DEF b
  <2>5. QED
    BY <1>2, <1>13, <2>1, <2>4
<1>30. CASE InText
  <2>1. /\ Cur # Eof /\ Cur \notin Breaks /\ Advance(1)
        /\ UNCHANGED << source, string, tokens >>
    BY <1>30 DEF InText, GoOn
  <2>2. QED
    BY <1>2, <1>11, <1>13, <2>1
<1>31. CASE UNCHANGED vars
  <2>1. UNCHANGED << line, column, offset, string, tokens >>
    BY <1>31 DEF vars
  <2>2. QED
    BY <1>2, <1>13, <2>1
<1>32. QED
  BY <1>14, <1>15, <1>16, <1>17, <1>18, <1>19, <1>20, <1>21, <1>22, <1>23, <1>24,
     <1>26, <1>27, <1>28, <1>29, <1>30, <1>31 DEF Next

\* Every token of every source is where its position says, which diagnostics point
\* at: every line break before it counts, but for those that literals escape (here,
\* consumeNewline, decodeEscape).
THEOREM PositionsAlwaysTrack == Spec => []PositionsTrackSource
<1>1. Init => PlaceInv
  BY PlaceStart
<1>2. PlaceInv /\ [Next]_vars => PlaceInv'
  BY PlaceStep
<1>3. PlaceInv => PositionsTrackSource
  <2> SUFFICES ASSUME PlaceInv, NEW n \in DOMAIN tokens
               PROVE  Placed(LineBreaks, tokens[n])
    BY DEF PositionsTrackSource
  <2>1. tokens \in Seq(PlacedTokens(LineBreaks, offset))
    BY DEF PlaceInv
  <2>2. tokens[n] \in PlacedTokens(LineBreaks, offset)
    BY <2>1
  <2>3. QED
    BY <2>2 DEF PlacedTokens, Stands, Placed
<1>4. QED
  BY <1>1, <1>2, <1>3, PTL DEF Spec

===============================================================================

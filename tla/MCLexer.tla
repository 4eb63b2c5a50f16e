------------------------------- MODULE MCLexer --------------------------------
(***************************************************************************)
(* Sources for Lexer: every short one over a few characters, literals over *)
(* several lines, and programs of a few lines in which blocks open and     *)
(* close.                                                                  *)
(***************************************************************************)
EXTENDS Lexer, SequencesExt

Lines ==
  {<< "a" >>, << "sp", "a" >>, << "sp", "sp", "a" >>, << "sp", "a", "(" >>, << "a", ")" >>,
   << "sp", "#", "(" >>, << "sp" >>, << "a", "\\" >>}

\* A line that a backslash joins to the next has something before it.
JoinsCode(s) ==
  \A i \in DOMAIN s : s[i] = "\\" => i > 1 /\ s[i - 1] \notin {"sp", "nl"}

\* Literals over one line and several, with line breaks escaped in them, and lines
\* joined after them.
Literals ==
  SeqOf({"'", "r", "\\", "a"}, 4)
  \cup {s \o << "nl", "a" >> : s \in SeqOf({"'", "r", "a"}, 4)}
  \cup {<< "'" >> \o s \o << "nl", "a" >> : s \in SeqOf({"'", "\\", "cr", "nl"}, 4)}
  \cup {<< "'", "'", "'" >> \o s \o << "'", "'", "'", "a" >> :
          s \in SeqOf({"'", "nl", "a", "\\"}, 4)}

\* Blocks, brackets and comments; literals.
MCSources ==
  SeqOf({"sp", "nl", "a", "(", ")", "#"}, 5)
  \cup {s \in SeqOf({"sp", "nl", "a", "\\", "#", "!", "+"}, 4) : JoinsCode(s)}
  \cup {FlattenSeq([i \in DOMAIN ls |-> Append(ls[i], "nl")]) : ls \in SeqOf(Lines, 4)}
  \cup SeqOf({"tab", "ff", "cr", "nl", "a"}, 4)
  \cup Literals
===============================================================================

------------------------------- MODULE MCLexer -------------------------------
(***************************************************************************)
(* Every text of up to four characters with one or two of each class, and  *)
(* some longer ones for which the buffer grows twice.                      *)
(***************************************************************************)
EXTENDS Lexer

MCLetters  == {"i", "f"}
MCDigits   == {"1"}
MCKeywords == {<<"i", "f">>}

Alphabet == MCLetters \cup MCDigits \cup {"=", "!", ";", "\"", " ", "@"}

MCInputs ==
  UNION {[1 .. n -> Alphabet] : n \in 0 .. 4}
    \cup {<<"\"">> \o [k \in 1 .. n |-> "f"] \o <<c, " ">> :
            n \in 3 .. 8, c \in {"\"", "1", "="}}
===============================================================================

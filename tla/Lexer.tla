-------------------------------- MODULE Lexer --------------------------------
(***************************************************************************)
(* next_token(): the scanner of lexer.c, called until it returns TOKEN_EOF. *)
(*                                                                         *)
(* A character is a member of one of the classes that the code tells       *)
(* apart.  Each action is one iteration of the loop of next_token; one     *)
(* that returns a token also makes the next call, which starts again with  *)
(* an empty buffer of the first size.                                      *)
(***************************************************************************)
EXTENDS Integers, Sequences

CONSTANTS
  Inputs,          \* the source texts
  Letters,         \* isalpha, and the underscore
  Digits,          \* isdigit
  Keywords,        \* the words of the language
  InitialCapacity  \* of current_token_buffer: 64

Symbols   == {";", "(", ")", "{", "}", "*", "/", ","}
OpChars   == {"=", "<", ">", "&", "|", "!", "+", "-"}
Blanks    == {" ", "\t", "\n", "\r"}
Quote     == "\""

Operators ==
  {<<"=">>, <<"=", "=">>, <<"<">>, <<">">>, <<"<", "=">>, <<">", "=">>, <<"!">>,
   <<"!", "=">>, <<"&", "&">>, <<"|", "|">>, <<"+">>, <<"-">>, <<"+", "=">>,
   <<"+", "+">>, <<"-", "=">>}

ASSUME InputAssumption == \A s \in Inputs : s \in Seq(STRING)
ASSUME ClassesAssumption ==
  /\ Letters \cap Digits = {}
  /\ (Letters \cup Digits) \cap (Symbols \cup OpChars \cup Blanks \cup {Quote}) = {}
ASSUME CapacityAssumption == InitialCapacity \in Nat \ {0}

VARIABLES
  input,      \* lexer->input, fixed
  position,   \* lexer->position: how many characters are consumed
  state,      \* LexerState
  buffer,     \* current_token_buffer, current_token_length being its length
  capacity,   \* buffer_capacity
  status,     \* "error" after exit(1), "eof" when TOKEN_EOF is returned
  first,      \* history: where the token in the buffer began
  tokens      \* history: the tokens returned, with the place of each

vars == <<input, position, state, buffer, capacity, status, first, tokens>>

States == {"start", "integer", "identifier", "string", "operator"}
Kinds  == {"symbol", "operator", "illegal", "keyword", "identifier", "string", "int"}

-----------------------------------------------------------------------------
(* A character is left, the state is s and the character in class. *)
Sees(s, class) ==
  /\ status = "scanning" /\ position < Len(input)
  /\ state = s /\ input[position + 1] \in class

(* A variant that doubles one character late (BufferFits). *)
EnsureLate ==
  capacity' = IF Len(buffer) >= capacity THEN 2 * capacity ELSE capacity

(* ensure_buffer_capacity *)
Ensure ==
  capacity' = IF Len(buffer) >= capacity - 1 THEN 2 * capacity ELSE capacity

(* The character goes into the buffer. *)
Collect(s) ==
  /\ Ensure
  /\ buffer' = Append(buffer, input[position + 1])
  /\ position' = position + 1 /\ state' = s
  /\ first' = IF state = "start" THEN position + 1 ELSE first
  /\ UNCHANGED <<input, status, tokens>>

(* A token of the characters from..to is returned, and next_token called. *)
Return(kind, text, from, to) ==
  /\ tokens' = Append(tokens, [kind |-> kind, text |-> text, first |-> from, last |-> to])
  /\ position' = to
  /\ state' = "start" /\ buffer' = <<>> /\ capacity' = InitialCapacity
  /\ UNCHANGED <<input, status, first>>

-----------------------------------------------------------------------------
(* A variant that passes two characters (TypeOK). *)
SymbolTwice ==
  /\ Sees("start", Symbols)
  /\ Return("symbol", <<input[position + 1]>>, position + 1, position + 2)

Symbol ==
  /\ Sees("start", Symbols)
  /\ Return("symbol", <<input[position + 1]>>, position + 1, position + 1)

BeginOperator == Sees("start", OpChars) /\ Collect("operator")
MoreOperator  == Sees("operator", OpChars) /\ Collect("operator")

(* All the operator characters in a row are one token, whatever it means. *)
EndOperator ==
  /\ Sees("operator", STRING \ OpChars)
  /\ Return(IF buffer \in Operators THEN "operator" ELSE "illegal",
            buffer, first, position)

BeginIdentifier == Sees("start", Letters) /\ Collect("identifier")

MoreIdentifier == Sees("identifier", Letters \cup Digits) /\ Collect("identifier")

(* A variant that ends an identifier at a digit (Tiling). *)
EndAtDigit ==
  /\ Sees("identifier", STRING \ Letters)
  /\ Return("identifier", buffer, first, position)

EndIdentifier ==
  /\ Sees("identifier", STRING \ (Letters \cup Digits))
  /\ Return(IF buffer \in Keywords THEN "keyword" ELSE "identifier",
            buffer, first, position)

OpenString ==
  /\ Sees("start", {Quote})
  /\ position' = position + 1 /\ state' = "string" /\ first' = position + 1
  /\ UNCHANGED <<input, buffer, capacity, status, tokens>>

MoreString == Sees("string", STRING \ {Quote}) /\ Collect("string")

CloseString ==
  /\ Sees("string", {Quote})
  /\ Return("string", buffer, first, position + 1)

BeginInteger == Sees("start", Digits) /\ Collect("integer")
MoreInteger  == Sees("integer", Digits) /\ Collect("integer")

EndInteger ==
  /\ Sees("integer", STRING \ Digits)
  /\ Return("int", buffer, first, position)

(* A variant that skips a blank without passing it (Termination). *)
BlankStays ==
  /\ Sees("start", Blanks)
  /\ position' = position
  /\ UNCHANGED <<input, state, buffer, capacity, status, first, tokens>>

Blank ==
  /\ Sees("start", Blanks)
  /\ position' = position + 1
  /\ UNCHANGED <<input, state, buffer, capacity, status, first, tokens>>

IllegalSymbol ==
  /\ Sees("start", STRING \ (Symbols \cup OpChars \cup Letters \cup Digits
                             \cup Blanks \cup {Quote}))
  /\ status' = "error"
  /\ UNCHANGED <<input, position, state, buffer, capacity, first, tokens>>

(* What is in the buffer when the input ends is dropped. *)
EndOfInput ==
  /\ status = "scanning" /\ position = Len(input)
  /\ status' = "eof"
  /\ UNCHANGED <<input, position, state, buffer, capacity, first, tokens>>

-----------------------------------------------------------------------------
Init ==
  /\ input \in Inputs
  /\ position = 0 /\ first = 0
  /\ state = "start" /\ buffer = <<>> /\ capacity = InitialCapacity
  /\ status = "scanning" /\ tokens = <<>>

Next ==
  \/ Symbol \/ BeginOperator \/ MoreOperator \/ EndOperator
  \/ BeginIdentifier \/ MoreIdentifier \/ EndIdentifier
  \/ OpenString \/ MoreString \/ CloseString
  \/ BeginInteger \/ MoreInteger \/ EndInteger
  \/ Blank \/ IllegalSymbol \/ EndOfInput

(* parse() calls next_token until it has TOKEN_EOF. *)
Spec == Init /\ [][Next]_vars /\ WF_vars(Next)

-----------------------------------------------------------------------------
(* Correctness *)

Token ==
  [kind : Kinds, text : Seq(STRING), first : Nat, last : Nat]

(* Every variable has its type. *)
TypeOK ==
  /\ input \in Seq(STRING) /\ position \in 0 .. Len(input)
  /\ state \in States /\ buffer \in Seq(STRING) /\ capacity \in Nat
  /\ status \in {"scanning", "error", "eof"}
  /\ first \in Nat /\ tokens \in Seq(Token)

(* ensure_buffer_capacity is called before a character is written, never   *)
(* before the terminator: there is room for it all the same.               *)
BufferFits == Len(buffer) < capacity

AllIn(class, from, to) == \A k \in from .. to : input[k] \in class

Ends(to, class) == to < Len(input) /\ input[to + 1] \notin class

Lexeme(kind, from, to) ==
  CASE kind = "symbol" -> from = to /\ input[from] \in Symbols
    [] kind \in {"operator", "illegal"} -> AllIn(OpChars, from, to) /\ Ends(to, OpChars)
    [] kind = "int" -> AllIn(Digits, from, to) /\ Ends(to, Digits)
    [] kind \in {"identifier", "keyword"} ->
         /\ input[from] \in Letters /\ AllIn(Letters \cup Digits, from, to)
         /\ Ends(to, Letters \cup Digits)
    [] kind = "string" ->
         /\ from < to /\ input[from] = Quote /\ input[to] = Quote
         /\ \A k \in from + 1 .. to - 1 : input[k] # Quote

Holds(text, from, to) ==
  /\ Len(text) = to - from + 1
  /\ \A k \in DOMAIN text : text[k] = input[from + k - 1]

Consumed(i) == IF i = 0 THEN 0 ELSE tokens[i].last

TokenTiles(i) ==
  LET t == tokens[i]
  IN  /\ Consumed(i - 1) < t.first /\ t.first <= t.last /\ t.last <= position
      /\ AllIn(Blanks, Consumed(i - 1) + 1, t.first - 1)
      /\ Lexeme(t.kind, t.first, t.last)
      /\ IF t.kind = "string" THEN Holds(t.text, t.first + 1, t.last - 1)
         ELSE Holds(t.text, t.first, t.last)

RestTiles ==
  IF state = "start" THEN AllIn(Blanks, Consumed(Len(tokens)) + 1, position)
  ELSE /\ Consumed(Len(tokens)) < first /\ first <= position
       /\ AllIn(Blanks, Consumed(Len(tokens)) + 1, first - 1)
       /\ Holds(buffer, IF state = "string" THEN first + 1 ELSE first, position)

(* The tokens returned, and the one in the making, tile what is consumed:  *)
(* each is a lexeme of its kind, ends where no more of it follows, holds   *)
(* its characters, and only blanks lie between it and the one before.      *)
Tiling == RestTiles /\ \A i \in DOMAIN tokens : TokenTiles(i)

(* Every text is scanned to its end or refused. *)
Termination == <>(status # "scanning")
===============================================================================

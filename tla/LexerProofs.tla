----------------------------- MODULE LexerProofs -----------------------------
(***************************************************************************)
(* Proofs about Lexer, for every text and every first size of the buffer.  *)
(*                                                                         *)
(* IInv adds to the properties what the characters of the token in the     *)
(* making have in common, which is what makes it a lexeme when it ends.    *)
(***************************************************************************)
EXTENDS Lexer, SequenceTheorems, TLAPS

(* The token that began at `first' in each state. *)
Started ==
  /\ state = "start" => buffer = <<>>
  /\ state = "operator" => AllIn(OpChars, first, position)
  /\ state = "integer" => AllIn(Digits, first, position)
  /\ state = "identifier" =>
       input[first] \in Letters /\ AllIn(Letters \cup Digits, first, position)
  /\ state = "string" =>
       /\ input[first] = Quote
       /\ \A k \in first + 1 .. position : input[k] # Quote

IInv == TypeOK /\ BufferFits /\ Started /\ Tiling

-----------------------------------------------------------------------------
(* Types and the buffer *)

LEMMA CollectType ==
  ASSUME TypeOK, BufferFits, NEW s \in States, position < Len(input), Collect(s)
  PROVE  TypeOK' /\ BufferFits'
<1>1. /\ input \in Seq(STRING) /\ position \in 0 .. Len(input) /\ Len(input) \in Nat
      /\ buffer \in Seq(STRING) /\ capacity \in Nat /\ Len(buffer) < capacity
      /\ first \in Nat
  BY DEF TypeOK, BufferFits
<1>2. input[position + 1] \in STRING
  BY <1>1
<1>3. buffer' \in Seq(STRING) /\ Len(buffer') = Len(buffer) + 1
  BY <1>1, <1>2 DEF Collect
<1>4. capacity' \in Nat /\ Len(buffer') < capacity'
  BY <1>1, <1>3 DEF Collect, Ensure
<1>5. position' \in 0 .. Len(input) /\ first' \in Nat /\ state' \in States
  BY <1>1 DEF Collect
<1> QED
  BY <1>1, <1>3, <1>4, <1>5 DEF TypeOK, BufferFits, Collect

LEMMA ReturnType ==
  ASSUME TypeOK, NEW kind \in Kinds, NEW text \in Seq(STRING), NEW from \in Nat,
         NEW to \in 0 .. Len(input), Return(kind, text, from, to)
  PROVE  TypeOK' /\ BufferFits'
<1>1. [kind |-> kind, text |-> text, first |-> from, last |-> to] \in Token
  BY DEF Token, TypeOK
<1>2. tokens' \in Seq(Token)
  BY <1>1 DEF TypeOK, Return
<1>3. buffer' = <<>> /\ capacity' \in Nat /\ Len(buffer') < capacity'
  BY CapacityAssumption DEF Return
<1> QED
  BY <1>2, <1>3 DEF TypeOK, BufferFits, Return, States

LEMMA InitType == Init => TypeOK /\ BufferFits
<1> SUFFICES ASSUME Init PROVE TypeOK /\ BufferFits
  OBVIOUS
<1>1. input \in Seq(STRING)
  BY InputAssumption DEF Init
<1>2. capacity \in Nat /\ Len(<<>>) < capacity /\ <<>> \in Seq(STRING) /\ <<>> \in Seq(Token)
  BY CapacityAssumption DEF Init
<1> QED
  BY <1>1, <1>2 DEF Init, TypeOK, BufferFits, States

LEMMA StepType ==
  ASSUME TypeOK, BufferFits, [Next]_vars
  PROVE  TypeOK' /\ BufferFits'
<1>1. /\ input \in Seq(STRING) /\ Len(input) \in Nat /\ position \in 0 .. Len(input)
      /\ buffer \in Seq(STRING) /\ first \in Nat
  BY DEF TypeOK
<1>2. ASSUME NEW s, NEW class, Sees(s, class)
      PROVE  position < Len(input) /\ position + 1 \in 0 .. Len(input)
  BY <1>1, <1>2 DEF Sees
<1>3. CASE BeginOperator \/ MoreOperator \/ BeginIdentifier \/ MoreIdentifier
           \/ MoreString \/ BeginInteger \/ MoreInteger
  <2>1. PICK s \in States : position < Len(input) /\ Collect(s)
    BY <1>2, <1>3 DEF BeginOperator, MoreOperator, BeginIdentifier, MoreIdentifier,
       MoreString, BeginInteger, MoreInteger, States
  <2> QED
    BY <2>1, CollectType
<1>4. CASE Symbol
  <2>1. <<input[position + 1]>> \in Seq(STRING) /\ position + 1 \in 0 .. Len(input)
    BY <1>1, <1>2, <1>4 DEF Symbol
  <2>2. "symbol" \in Kinds /\ position + 1 \in Nat
    BY <1>1 DEF Kinds
  <2> QED
    BY <1>4, <2>1, <2>2, ReturnType DEF Symbol
<1>5. CASE EndOperator
  BY <1>1, <1>5, ReturnType DEF EndOperator, Kinds
<1>6. CASE EndIdentifier
  BY <1>1, <1>6, ReturnType DEF EndIdentifier, Kinds
<1>7. CASE EndInteger
  BY <1>1, <1>7, ReturnType DEF EndInteger, Kinds
<1>8. CASE CloseString
  <2>1. position + 1 \in 0 .. Len(input)
    BY <1>2, <1>8 DEF CloseString
  <2> QED
    BY <1>1, <1>8, <2>1, ReturnType DEF CloseString, Kinds
<1>9. CASE OpenString
  BY <1>1, <1>2, <1>9 DEF OpenString, TypeOK, BufferFits, States
<1>10. CASE Blank
  BY <1>1, <1>2, <1>10 DEF Blank, TypeOK, BufferFits
<1>11. CASE IllegalSymbol \/ EndOfInput \/ UNCHANGED vars
  BY <1>11 DEF IllegalSymbol, EndOfInput, vars, TypeOK, BufferFits
<1> QED
  BY <1>3, <1>4, <1>5, <1>6, <1>7, <1>8, <1>9, <1>10, <1>11 DEF Next

THEOREM TypeCorrect == Spec => []TypeOK
BY InitType, StepType, PTL DEF Spec

THEOREM BufferFitsHolds == Spec => []BufferFits
BY InitType, StepType, PTL DEF Spec

-----------------------------------------------------------------------------
(* Tiling *)

(* What the properties say of a stretch of the text depends on the text.   *)
LEMMA SameText ==
  ASSUME input' = input
  PROVE  /\ \A class, from, to : AllIn(class, from, to)' <=> AllIn(class, from, to)
         /\ \A text, from, to : Holds(text, from, to)' <=> Holds(text, from, to)
         /\ \A kind, from, to : Lexeme(kind, from, to)' <=> Lexeme(kind, from, to)
<1>1. \A class, from, to : AllIn(class, from, to)' <=> AllIn(class, from, to)
  BY DEF AllIn
<1>2. \A text, from, to : Holds(text, from, to)' <=> Holds(text, from, to)
  BY DEF Holds
<1>3. \A class, to : Ends(to, class)' <=> Ends(to, class)
  BY DEF Ends
<1>4. \A kind, from, to : Lexeme(kind, from, to)' <=> Lexeme(kind, from, to)
  BY <1>1, <1>3 DEF Lexeme
<1> QED
  BY <1>1, <1>2, <1>4

(* A stretch that grows by the character that is read. *)
LEMMA OneMore ==
  ASSUME TypeOK, NEW class, NEW from \in Nat, AllIn(class, from, position),
         input[position + 1] \in class
  PROVE  AllIn(class, from, position + 1)
<1>1. position \in Nat
  BY DEF TypeOK
<1>2. \A k \in from .. position + 1 : k \in from .. position \/ k = position + 1
  BY <1>1
<1> QED
  BY <1>2 DEF AllIn

LEMMA HoldsMore ==
  ASSUME TypeOK, NEW from \in Nat, Holds(buffer, from, position), from <= position + 1
  PROVE  Holds(Append(buffer, input[position + 1]), from, position + 1)
<1> DEFINE c == input[position + 1]
           b == Append(buffer, c)
<1>1. /\ buffer \in Seq(STRING) /\ position \in Nat
      /\ Len(buffer) = position - from + 1
      /\ \A k \in DOMAIN buffer : buffer[k] = input[from + k - 1]
  BY DEF TypeOK, Holds
<1> HIDE DEF c
<1>2. /\ Len(b) = Len(buffer) + 1 /\ DOMAIN b = 1 .. Len(buffer) + 1
      /\ \A k \in DOMAIN buffer : b[k] = buffer[k]
      /\ b[Len(buffer) + 1] = c
      /\ DOMAIN buffer = 1 .. Len(buffer) /\ Len(buffer) \in Nat
  BY <1>1
<1> HIDE DEF b
<1>3. \A k \in DOMAIN b : b[k] = input[from + k - 1]
  <2> SUFFICES ASSUME NEW k \in DOMAIN b PROVE b[k] = input[from + k - 1]
    OBVIOUS
  <2>1. CASE k \in DOMAIN buffer
    BY <1>1, <1>2, <2>1
  <2>2. CASE k = Len(buffer) + 1
    <3>1. b[k] = c /\ from + k - 1 = position + 1
      BY <1>1, <1>2, <2>2
    <3> QED
      BY <3>1 DEF c
  <2>3. k \in DOMAIN buffer \/ k = Len(buffer) + 1
    BY <1>2
  <2> QED
    BY <2>1, <2>2, <2>3
<1> QED
  <2>1. Len(b) = (position + 1) - from + 1
    BY <1>1, <1>2
  <2> QED
    BY <1>3, <2>1 DEF Holds, b, c

(* A token that was returned keeps its place. *)
LEMMA OldToken ==
  ASSUME TypeOK, input' = input, position' \in Nat, position <= position',
         NEW t \in Token, tokens' = tokens \/ tokens' = Append(tokens, t),
         NEW i \in DOMAIN tokens, TokenTiles(i)
  PROVE  TokenTiles(i)'
<1>1. tokens \in Seq(Token) /\ position \in Nat /\ i \in 1 .. Len(tokens)
  BY DEF TypeOK
<1>2. \A j \in DOMAIN tokens : tokens'[j] = tokens[j]
  BY <1>1
<1>3. Consumed(i - 1)' = Consumed(i - 1)
  BY <1>1, <1>2 DEF Consumed
<1>4. tokens[i].last \in Nat /\ tokens[i].first \in Nat
  <2>1. tokens[i] \in Token
    BY <1>1
  <2> QED
    BY <2>1 DEF Token
<1>5. tokens'[i] = tokens[i]
  BY <1>1, <1>2
<1> DEFINE t1 == tokens[i]
           c  == Consumed(i - 1)
<1>6. /\ c < t1.first /\ t1.first <= t1.last /\ t1.last <= position
      /\ AllIn(Blanks, c + 1, t1.first - 1)
      /\ Lexeme(t1.kind, t1.first, t1.last)
      /\ IF t1.kind = "string" THEN Holds(t1.text, t1.first + 1, t1.last - 1)
         ELSE Holds(t1.text, t1.first, t1.last)
  BY DEF TokenTiles
<1>7. t1.last <= position'
  BY <1>1, <1>4, <1>6
<1> HIDE DEF c
<1>8. /\ AllIn(Blanks, c + 1, t1.first - 1)'
      /\ Lexeme(t1.kind, t1.first, t1.last)'
      /\ IF t1.kind = "string" THEN Holds(t1.text, t1.first + 1, t1.last - 1)'
         ELSE Holds(t1.text, t1.first, t1.last)'
  BY <1>3, <1>5, <1>6, SameText DEF c
<1> QED
  BY <1>3, <1>5, <1>6, <1>7, <1>8 DEF TokenTiles, c

LEMMA ConsumedNat ==
  ASSUME TypeOK
  PROVE  Consumed(Len(tokens)) \in Nat
<1>1. tokens \in Seq(Token)
  BY DEF TypeOK
<1>2. CASE Len(tokens) = 0
  BY <1>2 DEF Consumed
<1>3. CASE Len(tokens) # 0
  <2>1. tokens[Len(tokens)] \in Token
    BY <1>1, <1>3
  <2> QED
    BY <1>3, <2>1 DEF Consumed, Token
<1> QED
  BY <1>2, <1>3

(* The tokens already returned tile, whatever is collected next. *)
LEMMA SameTokens ==
  ASSUME TypeOK, Tiling, input' = input, tokens' = tokens,
         position' \in Nat, position <= position'
  PROVE  /\ \A i \in DOMAIN tokens' : TokenTiles(i)'
         /\ Consumed(Len(tokens))' = Consumed(Len(tokens))
<1>1. \E t : t \in Token
  <2>1. [kind |-> "int", text |-> <<>>, first |-> 0, last |-> 0] \in Token
    BY DEF Token, Kinds
  <2> QED
    BY <2>1
<1>2. \A i \in DOMAIN tokens : TokenTiles(i)
  BY DEF Tiling
<1> QED
  BY <1>1, <1>2, OldToken DEF Consumed

(* The characters of a token that is being read are added one by one. *)
LEMMA LastBefore ==
  ASSUME TypeOK, Tiling
  PROVE  Consumed(Len(tokens)) <= position
<1>1. tokens \in Seq(Token) /\ position \in Nat
  BY DEF TypeOK
<1>2. CASE Len(tokens) = 0
  BY <1>1, <1>2 DEF Consumed
<1>3. CASE Len(tokens) # 0
  <2>1. Len(tokens) \in DOMAIN tokens
    BY <1>1, <1>3
  <2> QED
    BY <1>3, <2>1 DEF Tiling, TokenTiles, Consumed
<1> QED
  BY <1>2, <1>3

LEMMA CollectTiles ==
  ASSUME IInv, NEW s \in States \ {"start"}, Collect(s), position < Len(input),
         state = s \/ (state = "start" /\ s # "string")
  PROVE  Tiling'
<1>1. /\ TypeOK /\ Tiling /\ RestTiles /\ input' = input /\ tokens' = tokens
      /\ position \in Nat /\ first \in Nat /\ position' = position + 1 /\ state' = s
      /\ buffer' = Append(buffer, input[position + 1])
      /\ first' = IF state = "start" THEN position + 1 ELSE first
      /\ s # "start"
  BY DEF IInv, Tiling, Collect, TypeOK
<1>2. Consumed(Len(tokens))' = Consumed(Len(tokens)) /\ Consumed(Len(tokens)) \in Nat
  BY <1>1, SameTokens, ConsumedNat
<1> DEFINE last == Consumed(Len(tokens))
           from == IF s = "string" THEN first' + 1 ELSE first'
<1>3. CASE state = s
  <2>1. /\ last < first /\ first <= position /\ AllIn(Blanks, last + 1, first - 1)
        /\ Holds(buffer, from, position) /\ from \in Nat
    BY <1>1, <1>3 DEF RestTiles
  <2>2. Holds(Append(buffer, input[position + 1]), from, position + 1)
    BY <1>1, <2>1, HoldsMore
  <2> QED
    BY <1>1, <1>2, <1>3, <2>1, <2>2, SameTokens, SameText DEF Tiling, RestTiles
<1>4. CASE state = "start" /\ s # "string"
  <2>1. AllIn(Blanks, last + 1, position) /\ last <= position
    BY <1>1, <1>4, LastBefore DEF RestTiles
  <2>2. buffer = <<>> /\ buffer' = <<input[position + 1]>>
    BY <1>1, <1>4 DEF IInv, Started
  <2>3. Holds(<<input[position + 1]>>, position + 1, position + 1)
    BY <1>1 DEF Holds
  <2>4. /\ last < first' /\ first' <= position' /\ AllIn(Blanks, last + 1, first' - 1)
        /\ Holds(buffer', first', position')
    BY <1>1, <1>2, <1>4, <2>1, <2>2, <2>3
  <2> QED
    BY <1>1, <1>2, <1>4, <2>4, SameTokens, SameText DEF Tiling, RestTiles
<1> QED
  BY <1>3, <1>4

(* The token that is returned tiles, and the next one begins after it. *)
LEMMA ReturnTiles ==
  ASSUME TypeOK, Tiling, NEW kind \in Kinds, NEW text \in Seq(STRING),
         NEW from \in Nat, NEW to \in Nat, position <= to,
         Return(kind, text, from, to),
         Consumed(Len(tokens)) < from, from <= to,
         AllIn(Blanks, Consumed(Len(tokens)) + 1, from - 1),
         Lexeme(kind, from, to),
         IF kind = "string" THEN Holds(text, from + 1, to - 1) ELSE Holds(text, from, to)
  PROVE  Tiling'
<1> DEFINE t == [kind |-> kind, text |-> text, first |-> from, last |-> to]
<1>1. /\ t \in Token /\ t.kind = kind /\ t.text = text /\ t.first = from /\ t.last = to
  BY DEF Token
<1>2. /\ input' = input /\ tokens' = Append(tokens, t) /\ position' = to /\ state' = "start"
      /\ tokens \in Seq(Token) /\ position \in Nat /\ Len(tokens) \in Nat
  BY DEF Return, TypeOK
<1> HIDE DEF t
<1>2a. PICK n \in Nat : n = Len(tokens) + 1
  BY <1>2
<1>3. /\ Len(tokens') = n /\ tokens'[n] = t /\ DOMAIN tokens' = 1 .. n
      /\ \A i \in DOMAIN tokens : tokens'[i] = tokens[i]
      /\ \A i \in DOMAIN tokens' : i \in DOMAIN tokens \/ i = n
  BY <1>2a, <1>1, <1>2
<1>4. \A i \in DOMAIN tokens : TokenTiles(i)'
  BY <1>1, <1>2, OldToken DEF Tiling
<1>5. Consumed(n - 1)' = Consumed(Len(tokens))
  <2>1. n - 1 = Len(tokens) /\ (Len(tokens) # 0 => Len(tokens) \in DOMAIN tokens)
    BY <1>2a, <1>2
  <2> QED
    BY <1>3, <2>1 DEF Consumed
<1>6. TokenTiles(n)'
  <2>1. /\ Consumed(n - 1)' < t.first /\ t.first <= t.last /\ t.last <= position'
        /\ AllIn(Blanks, Consumed(n - 1) + 1, t.first - 1)'
    BY <1>1, <1>2, <1>5, SameText
  <2>2. /\ Lexeme(t.kind, t.first, t.last)'
        /\ IF t.kind = "string" THEN Holds(t.text, t.first + 1, t.last - 1)'
           ELSE Holds(t.text, t.first, t.last)'
    BY <1>1, <1>2, SameText
  <2> QED
    BY <1>3, <2>1, <2>2 DEF TokenTiles
<1>7. RestTiles'
  <2>1. Consumed(n)' = to
    <3>1. n # 0
      BY <1>2a, <1>2
    <3> QED
      BY <1>1, <1>3, <3>1 DEF Consumed
  <2>2. AllIn(Blanks, to + 1, to)'
    BY DEF AllIn
  <2> QED
    BY <1>2, <1>3, <2>1, <2>2 DEF RestTiles
<1> QED
  BY <1>3, <1>4, <1>6, <1>7 DEF Tiling

(* A token that ends where a character of another class follows. *)
LEMMA EndTiles ==
  ASSUME IInv, EndOperator \/ EndIdentifier \/ EndInteger \/ CloseString
  PROVE  Tiling'
<1>1. /\ TypeOK /\ Tiling /\ RestTiles /\ Started
      /\ position \in Nat /\ first \in Nat /\ buffer \in Seq(STRING)
  BY DEF IInv, Tiling, TypeOK
<1>2. state # "start" =>
        /\ Consumed(Len(tokens)) < first /\ first <= position
        /\ AllIn(Blanks, Consumed(Len(tokens)) + 1, first - 1)
        /\ Holds(buffer, IF state = "string" THEN first + 1 ELSE first, position)
  BY <1>1 DEF RestTiles
<1>3. CASE EndOperator
  <2> DEFINE kind == IF buffer \in Operators THEN "operator" ELSE "illegal"
  <2>1. state = "operator" /\ Ends(position, OpChars) /\ AllIn(OpChars, first, position)
    BY <1>1, <1>3 DEF EndOperator, Sees, Ends, Started
  <2>2. kind \in Kinds /\ kind # "string" /\ Return(kind, buffer, first, position)
    BY <1>3 DEF EndOperator, Kinds
  <2>3. Lexeme(kind, first, position)
    BY <2>1 DEF Lexeme
  <2> HIDE DEF kind
  <2> QED
    BY <1>1, <1>2, <2>1, <2>2, <2>3, ReturnTiles
<1>4. CASE EndIdentifier
  <2> DEFINE kind == IF buffer \in Keywords THEN "keyword" ELSE "identifier"
  <2>1. /\ state = "identifier" /\ Ends(position, Letters \cup Digits)
        /\ input[first] \in Letters /\ AllIn(Letters \cup Digits, first, position)
    BY <1>1, <1>4 DEF EndIdentifier, Sees, Ends, Started
  <2>2. kind \in Kinds /\ kind # "string" /\ Return(kind, buffer, first, position)
    BY <1>4 DEF EndIdentifier, Kinds
  <2>3. Lexeme(kind, first, position)
    BY <2>1 DEF Lexeme
  <2> HIDE DEF kind
  <2> QED
    BY <1>1, <1>2, <2>1, <2>2, <2>3, ReturnTiles
<1>5. CASE EndInteger
  <2>1. state = "integer" /\ Ends(position, Digits) /\ AllIn(Digits, first, position)
    BY <1>1, <1>5 DEF EndInteger, Sees, Ends, Started
  <2>2. "int" \in Kinds /\ Return("int", buffer, first, position)
    BY <1>5 DEF EndInteger, Kinds
  <2>3. Lexeme("int", first, position)
    BY <2>1 DEF Lexeme
  <2> QED
    BY <1>1, <1>2, <2>1, <2>2, <2>3, ReturnTiles
<1>6. CASE CloseString
  <2>1. /\ state = "string" /\ input[first] = Quote /\ input[position + 1] = Quote
        /\ \A k \in first + 1 .. position : input[k] # Quote
    BY <1>1, <1>6 DEF CloseString, Sees, Started
  <2>2. "string" \in Kinds /\ Return("string", buffer, first, position + 1)
    BY <1>6 DEF CloseString, Kinds
  <2>3. (position + 1) - 1 = position /\ first < position + 1
    BY <1>1, <1>2, <2>1
  <2>4. Lexeme("string", first, position + 1)
    BY <2>1, <2>3 DEF Lexeme
  <2> QED
    <3>1. Holds(buffer, first + 1, (position + 1) - 1)
      BY <1>2, <2>1, <2>3
    <3>2. /\ position + 1 \in Nat /\ position <= position + 1 /\ first <= position + 1
          /\ Consumed(Len(tokens)) < first
          /\ AllIn(Blanks, Consumed(Len(tokens)) + 1, first - 1)
      BY <1>1, <1>2, <2>1, <2>3
    <3> QED
      BY <1>1, <2>2, <2>4, <3>1, <3>2, ReturnTiles
<1> QED
  BY <1>3, <1>4, <1>5, <1>6

LEMMA StepTiles ==
  ASSUME IInv, Next
  PROVE  Tiling'
<1>1. /\ TypeOK /\ Tiling /\ RestTiles /\ Started
      /\ position \in Nat /\ first \in Nat
  BY DEF IInv, Tiling, TypeOK
<1>2. Consumed(Len(tokens)) \in Nat /\ Consumed(Len(tokens)) <= position
  BY <1>1, ConsumedNat, LastBefore
<1>3. CASE BeginOperator \/ MoreOperator \/ BeginIdentifier \/ MoreIdentifier
           \/ MoreString \/ BeginInteger \/ MoreInteger
  <2>1. PICK s \in States \ {"start"} :
          /\ position < Len(input) /\ Collect(s)
          /\ state = s \/ (state = "start" /\ s # "string")
    BY <1>3 DEF BeginOperator, MoreOperator, BeginIdentifier, MoreIdentifier,
       MoreString, BeginInteger, MoreInteger, States, Sees
  <2> QED
    BY <2>1, CollectTiles
<1>4. CASE Symbol
  <2>1. /\ state = "start" /\ input[position + 1] \in Symbols /\ position < Len(input)
        /\ Return("symbol", <<input[position + 1]>>, position + 1, position + 1)
    BY <1>4 DEF Symbol, Sees
  <2>2. AllIn(Blanks, Consumed(Len(tokens)) + 1, (position + 1) - 1)
    BY <1>1, <2>1 DEF RestTiles
  <2>3. Lexeme("symbol", position + 1, position + 1)
    BY <2>1 DEF Lexeme
  <2>4. /\ Holds(<<input[position + 1]>>, position + 1, position + 1)
        /\ <<input[position + 1]>> \in Seq(STRING) /\ "symbol" \in Kinds
    BY <1>1, <2>1 DEF Holds, Kinds, TypeOK
  <2>5. /\ Consumed(Len(tokens)) < position + 1 /\ position + 1 \in Nat
        /\ position <= position + 1 /\ position + 1 <= position + 1
    BY <1>1, <1>2
  <2> QED
    BY <1>1, <2>1, <2>2, <2>3, <2>4, <2>5, ReturnTiles
<1>5. CASE EndOperator \/ EndIdentifier \/ EndInteger \/ CloseString
  BY <1>5, EndTiles
<1>6. CASE OpenString
  <2>1. /\ state = "start" /\ state' = "string" /\ position' = position + 1
        /\ first' = position + 1 /\ buffer' = buffer /\ buffer = <<>>
        /\ input' = input /\ tokens' = tokens
    BY <1>1, <1>6 DEF OpenString, Sees, Started
  <2>2. AllIn(Blanks, Consumed(Len(tokens)) + 1, first' - 1)
    BY <1>1, <2>1 DEF RestTiles
  <2>3. Holds(<<>>, position + 2, position + 1)
    BY <1>1 DEF Holds
  <2>4. first' + 1 = position + 2 /\ first' <= position'
    BY <1>1, <2>1
  <2> QED
    BY <1>1, <1>2, <2>1, <2>2, <2>3, <2>4, SameTokens, SameText DEF Tiling, RestTiles
<1>7. CASE Blank
  <2>1. /\ state = "start" /\ state' = "start" /\ position' = position + 1
        /\ input[position + 1] \in Blanks /\ input' = input /\ tokens' = tokens
    BY <1>7 DEF Blank, Sees
  <2>2. AllIn(Blanks, Consumed(Len(tokens)) + 1, position + 1)
    BY <1>1, <1>2, <2>1, OneMore DEF RestTiles
  <2> QED
    BY <1>1, <2>1, <2>2, SameTokens, SameText DEF Tiling, RestTiles
<1>8. CASE IllegalSymbol \/ EndOfInput
  <2>1. UNCHANGED <<input, position, state, buffer, first, tokens>>
    BY <1>8 DEF IllegalSymbol, EndOfInput
  <2> QED
    BY <1>1, <2>1, SameTokens, SameText DEF Tiling, RestTiles
<1> QED
  BY <1>3, <1>4, <1>5, <1>6, <1>7, <1>8 DEF Next

LEMMA StepStarted ==
  ASSUME IInv, Next
  PROVE  Started'
<1>1. /\ TypeOK /\ RestTiles /\ Started /\ position \in Nat /\ first \in Nat
  BY DEF IInv, Tiling, TypeOK
<1>2. CASE BeginOperator
  BY <1>1, <1>2 DEF BeginOperator, Sees, Collect, Started, AllIn
<1>3. CASE BeginIdentifier
  BY <1>1, <1>3 DEF BeginIdentifier, Sees, Collect, Started, AllIn
<1>4. CASE BeginInteger
  BY <1>1, <1>4 DEF BeginInteger, Sees, Collect, Started, AllIn
<1>5. CASE MoreOperator
  <2>1. AllIn(OpChars, first, position + 1)
    BY <1>1, <1>5, OneMore DEF MoreOperator, Sees, Started
  <2> QED
    BY <1>5, <2>1, SameText DEF MoreOperator, Sees, Collect, Started
<1>6. CASE MoreIdentifier
  <2>1. AllIn(Letters \cup Digits, first, position + 1) /\ input[first] \in Letters
    BY <1>1, <1>6, OneMore DEF MoreIdentifier, Sees, Started
  <2> QED
    BY <1>6, <2>1, SameText DEF MoreIdentifier, Sees, Collect, Started
<1>7. CASE MoreInteger
  <2>1. AllIn(Digits, first, position + 1)
    BY <1>1, <1>7, OneMore DEF MoreInteger, Sees, Started
  <2> QED
    BY <1>7, <2>1, SameText DEF MoreInteger, Sees, Collect, Started
<1>8. CASE MoreString
  <2>1. input[first] = Quote /\ \A k \in first + 1 .. position + 1 : input[k] # Quote
    BY <1>1, <1>8 DEF MoreString, Sees, Started
  <2> QED
    BY <1>8, <2>1 DEF MoreString, Sees, Collect, Started
<1>9. CASE OpenString
  BY <1>1, <1>9 DEF OpenString, Sees, Started
<1>10. CASE Symbol \/ EndOperator \/ EndIdentifier \/ EndInteger \/ CloseString
  <2>1. state' = "start" /\ buffer' = <<>>
    BY <1>10 DEF Symbol, EndOperator, EndIdentifier, EndInteger, CloseString, Return
  <2> QED
    BY <2>1 DEF Started
<1>11. CASE Blank
  BY <1>1, <1>11 DEF Blank, Sees, Started
<1>12. CASE IllegalSymbol \/ EndOfInput
  BY <1>1, <1>12, SameText DEF IllegalSymbol, EndOfInput, Started
<1> QED
  BY <1>2, <1>3, <1>4, <1>5, <1>6, <1>7, <1>8, <1>9, <1>10, <1>11, <1>12 DEF Next

(* Whatever the text, the tokens returned are its lexemes, in order, each  *)
(* as long as it can be, with nothing but blanks skipped between them.     *)
THEOREM TilingHolds == Spec => []Tiling
<1>1. Init => IInv
  <2> SUFFICES ASSUME Init PROVE Started /\ Tiling
    BY InitType DEF IInv
  <2>1. tokens = <<>> /\ Len(<<>>) = 0 /\ DOMAIN <<>> = {} /\ state = "start"
        /\ position = 0 /\ buffer = <<>>
    BY DEF Init
  <2> QED
    BY <2>1 DEF Started, Tiling, RestTiles, Consumed, AllIn
<1>2. IInv /\ [Next]_vars => IInv'
  <2> SUFFICES ASSUME IInv, [Next]_vars PROVE IInv'
    OBVIOUS
  <2>1. TypeOK' /\ BufferFits'
    BY StepType DEF IInv
  <2>2. CASE Next
    BY <2>1, <2>2, StepTiles, StepStarted DEF IInv
  <2>3. CASE UNCHANGED vars
    <3>1. UNCHANGED <<input, position, state, buffer, first, tokens>>
      BY <2>3 DEF vars
    <3>2. position \in Nat
      BY DEF IInv, TypeOK
    <3>3. Started'
      BY <3>1, SameText DEF IInv, Started
    <3>4. Tiling'
      BY <3>1, <3>2, SameTokens, SameText DEF IInv, Tiling, RestTiles
    <3> QED
      BY <2>1, <3>3, <3>4 DEF IInv
  <2> QED
    BY <2>2, <2>3
<1>3. IInv => Tiling
  BY DEF IInv
<1> QED
  BY <1>1, <1>2, <1>3, PTL DEF Spec
===============================================================================

------------------------------ MODULE ProgramText ------------------------------
(***************************************************************************)
(* The text of a program, as the tokens that Parser reads: what somebody   *)
(* writes who has the tree in mind, with no more parentheses than the      *)
(* levels of the operators require.                                        *)
(***************************************************************************)
EXTENDS AstBuilder

LOCAL INSTANCE SequencesExt

Word(k)   == <<[kind |-> k, name |-> "-", num |-> 0]>>
Name(x)   == <<[kind |-> "name", name |-> x, num |-> 0]>>
Number(v) == <<[kind |-> "number", name |-> "-", num |-> v]>>
InParens(ts) == Word("(") \o ts \o Word(")")
InBraces(ts) == Word("{") \o ts \o Word("}")

Commas(texts) == FlattenSeq([i \in DOMAIN texts |->
                               IF i = 1 THEN texts[i] ELSE Word(",") \o texts[i]])

(* Arithmetic on the right of a `+' is written with `*', so that both      *)
(* levels of it occur.                                                     *)
LevelOf(e, k) == CASE e.op = "logical" -> 1
                   [] e.op \in {"compare", "equality"} -> 2
                   [] OTHER -> IF k >= 4 THEN 4 ELSE 3
SignOf(e, k)  == CASE e.op = "logical" -> "||" [] e.op = "compare" -> "<"
                   [] e.op = "equality" -> "=="
                   [] OTHER -> IF k >= 4 THEN "*" ELSE "+"

(* The text of an expression that stands where level k is expected. *)
RECURSIVE ExprText(_, _)
ExprText(e, k) ==
  CASE e.kind = "int"    -> Number(e.num)
    [] e.kind = "string" -> Word("text")
    [] e.kind = "ident"  -> Name(e.name)
    [] e.kind = "unary"  -> Word("!") \o ExprText(e.kids[1], 5)
    [] e.kind = "call"   ->
         Name(e.name) \o InParens(Commas([i \in DOMAIN e.kids |-> ExprText(e.kids[i], 1)]))
    [] e.kind = "binop"  ->
         LET l == LevelOf(e, k)
         IN  IF l < k \/ k = 5 THEN InParens(ExprText(e, 1))
             ELSE ExprText(e.kids[1], l) \o Word(SignOf(e, k))
                    \o ExprText(e.kids[2], l + 1)

TypeText(t) == IF t = "other" THEN <<>> ELSE Word(t)

UpdateText(s) ==
  Name(s.name) \o Word(s.op)
    \o (IF s.kids = <<>> THEN <<>> ELSE ExprText(s.kids[1], 1))

RECURSIVE Text(_)
Text(s) ==
  LET All(kids) == FoldLeft(LAMBDA ts, kid : ts \o Text(kid), <<>>, kids)
      Value     == ExprText(s.kids[1], 1) \o Word(";")
      Parallel(par) == IF par = "regular" THEN <<>> ELSE Word(par)
  IN  CASE s.kind = "program" -> All(s.kids)
        [] s.kind = "block"   -> InBraces(All(s.kids))
        [] s.kind = "thread"  -> Word("thread") \o InBraces(All(s.kids))
        [] s.kind = "decl"    ->
             TypeText(s.type) \o Name(s.name) \o Word("=") \o Parallel(s.par) \o Value
        [] s.kind = "update"  -> UpdateText(s) \o Word(";")
        [] s.kind = "if"      ->
             Word("if") \o InParens(ExprText(s.kids[1], 1)) \o Text(s.kids[2])
               \o (IF Len(s.kids) = 2 THEN <<>> ELSE Word("else") \o Text(s.kids[3]))
        [] s.kind = "for"     ->
             (IF s.par = "thread" THEN Word("thread") \o Word("=") \o Number(s.num)
              ELSE <<>>)
               \o Word("for")
               \o InParens(Text(s.kids[1]) \o ExprText(s.kids[2], 1) \o Word(";")
                             \o UpdateText(s.kids[3]))
               \o Text(s.kids[4])
        [] s.kind = "func"    ->
             Word("func") \o TypeText(s.type) \o Name(s.name)
               \o InParens(Commas([i \in DOMAIN s.params |->
                             TypeText(s.params[i].type) \o Name(s.params[i].name)]))
               \o InBraces(All(s.kids))
        [] s.kind = "return"  -> Word("return") \o Value
        [] s.kind = "print"   ->
             Word("print") \o InParens(ExprText(s.kids[1], 1)) \o Word(";")
        [] s.kind = "call"    -> Parallel(s.par) \o ExprText(s, 1) \o Word(";")
        [] s.kind = "await"   ->
             Word("await")
               \o InBraces(Commas([i \in DOMAIN s.kids |-> Name(s.kids[i].name)]))
               \o Word(";")

(* A tree up to what the parser does not write: the parallel type of the   *)
(* calls in expressions.                                                   *)
Written(ast) ==
  LET Stated(n) == \E p \in Parents(ast, n) :
                     \/ ast[p].kind \in {"program", "block", "thread", "func"}
                     \/ ast[p].kind = "decl" /\ ast[p].par # "regular"
  IN  [n \in DOMAIN ast |-> IF ast[n].kind # "call" \/ Stated(n) THEN ast[n]
                            ELSE [ast[n] EXCEPT !.par = "regular"]]
===============================================================================

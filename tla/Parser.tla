-------------------------------- MODULE Parser --------------------------------
(***************************************************************************)
(* parse(): the recursive descent parser, from a sequence of tokens to the *)
(* tree.                                                                   *)
(*                                                                         *)
(* The C code is a set of mutually recursive functions.  Here their call   *)
(* stack is explicit: a frame is a call that has allocated a Node, with    *)
(* that node and the items that the call has still to do.  A node is put   *)
(* under its parent when it is allocated, and its fields are written as    *)
(* they are read; the node of an operator comes after its left operand,    *)
(* which it takes over.  The tree so far is always a table in the order of *)
(* the text.  An action is one entry into a parse_ function, one           *)
(* consume(), one turn of a loop, or the return of a call.                 *)
(*                                                                         *)
(* A token is its class and, for an identifier or a number, its value.     *)
(***************************************************************************)
EXTENDS FluCsAst

S == INSTANCE SequencesExt

CONSTANT Sources        \* the token sequences to parse

VARIABLES
  source,   \* the tokens of the program, fixed
  pos,      \* how many of them have been consumed
  frames,   \* the call stack of the descent, the innermost call first
  phase,    \* "reading", "parsed", or "refused": exit(1) after a message
  ast       \* the tree, as far as it has been read

descent == <<source, pos, frames, phase>>
vars    == <<descent, ast>>

-----------------------------------------------------------------------------
(* Tokens *)

TypeWords == {"int", "string", "void"}
Words     == TypeWords \cup {"print", "if", "else", "for", "func", "return",
                             "process", "thread", "await"}
Levels    == <<{"||"}, {"==", "<"}, {"+"}, {"*"}>>
RuleOf    == [o \in {"||", "==", "<", "+", "*"} |->
                CASE o = "||" -> "logical" [] o = "==" -> "equality"
                  [] o = "<" -> "compare"  [] OTHER -> "arith"]
Marks     == UpdateOps \cup DOMAIN RuleOf \cup {"!", ";", "(", ")", "{", "}", ","}
Content   == {"name", "number", "text"}

Token ==
  [kind : Words \cup Marks \cup {"text", "illegal"}, name : {"-"}, num : {0}]
    \cup [kind : {"name"}, name : Names, num : {0}]
    \cup [kind : {"number"}, name : {"-"}, num : Int]

EndToken == [kind |-> "eof", name |-> "-", num |-> 0]

(* peek(), and next_token() on a copy of the lexer that has read k more. *)
Peek(k) == IF pos + k < Len(source) THEN source[pos + k + 1] ELSE EndToken
Sees(kinds) == Peek(0).kind \in kinds

-----------------------------------------------------------------------------
(* The call stack *)

(* what: the token to consume, the list to read, the operator of the node  *)
(* to build, or the type that has been read.  level: that of an operator.  *)
Item(op, what, level) == [op |-> op, what |-> what, level |-> level]

Enter(op)  == Item(op, "-", 0)
Eat(kind)  == Item("eat", kind, 0)
List(what) == Item("list", what, 0)
More(k)    == Item("more", "-", k)
CallIn(par) == Item("call", par, 0)

(* From parse_expression (1) down to parse_unary: each level first has its *)
(* left operand parsed by the next.                                        *)
Operand(k) == <<Enter("unary")>> \o [i \in 1 .. 5 - k |-> More(5 - i)]
Expression == Operand(1)

Here == frames[1].node          \* the node of the innermost call
Todo == frames[1].todo
At(op) == phase = "reading" /\ frames # <<>> /\ Todo # <<>> /\ Todo[1].op = op

(* The stack when the next item has become these items. *)
After(items) == [frames EXCEPT ![1].todo = items \o Tail(@)]

(* Nothing but the stack changes. *)
Does(items) == frames' = After(items) /\ UNCHANGED <<source, pos, phase, ast>>

(* A token is consumed, and the rest of the tree stays. *)
Advance(k) == pos' = pos + k /\ UNCHANGED <<source, phase>>

(* A field of the node of the innermost call is written. *)
Writes(nd) == ast' = [ast EXCEPT ![Here] = nd]

(* The tree with one node more, under the node of the innermost call. *)
Grown(nd) == Append([ast EXCEPT ![Here].kids = Append(@, Len(ast) + 1)], nd)

(* A call allocates a node; the caller has these items to do after it. *)
Begins(nd, todo, items) ==
  /\ ast' = Grown(nd)
  /\ frames' = <<[node |-> Len(ast) + 1, todo |-> todo]>> \o After(items)

Allocates(nd, todo, items) == Begins(nd, todo, items) /\ UNCHANGED <<source, pos, phase>>

Return ==
  /\ phase = "reading" /\ frames # <<>> /\ Todo = <<>>
  /\ frames' = Tail(frames) /\ UNCHANGED <<source, pos, phase, ast>>

Fail == phase' = "refused" /\ UNCHANGED <<source, pos, frames, ast>>

(* consume, where a name and a number go into the node being read *)
Consume ==
  /\ At("eat") /\ Sees({Todo[1].what})
  /\ Advance(1) /\ frames' = After(<<>>)
  /\ CASE Sees({"name"})   -> Writes([ast[Here] EXCEPT !.name = Peek(0).name])
       [] Sees({"number"}) -> Writes([ast[Here] EXCEPT !.num = Peek(0).num])
       [] OTHER            -> UNCHANGED ast

ConsumeFails == At("eat") /\ ~Sees({Todo[1].what}) /\ Fail

-----------------------------------------------------------------------------
(* Lists: statements, arguments, parameters and awaited names are read     *)
(* until the token that closes them; the comma between two is optional.    *)

Closers == [program |-> {"illegal", "eof"}, statements |-> {"}"},
            arguments |-> {")"}, params |-> {")"}, names |-> {"}"}]

Element(what) ==
  CASE what = "arguments" -> Expression \o <<Enter("comma")>>
    [] what = "params"    -> <<Item("type", "param", 0), Enter("comma")>>
    [] what = "names"     -> <<Enter("awaited"), Enter("comma")>>
    [] OTHER              -> <<Enter("statement")>>

ListGoesOn ==
  /\ At("list") /\ ~Sees(Closers[Todo[1].what])
  /\ Does(Element(Todo[1].what) \o <<List(Todo[1].what)>>)

ListEnds == At("list") /\ Sees(Closers[Todo[1].what]) /\ Does(<<>>)

Comma ==
  /\ At("comma")
  /\ Advance(IF Sees({","}) THEN 1 ELSE 0) /\ frames' = After(<<>>)
  /\ UNCHANGED ast

-----------------------------------------------------------------------------
(* parse_statement: an action for each construct it dispatches to, which   *)
(* is also an entry of the functions that other constructs call.           *)

Statement(kinds) == At("statement") /\ Sees(kinds)

Braces(list) == <<Eat("{"), List(list), Eat("}")>>

PrintStatement ==
  /\ Statement({"print"})
  /\ Allocates(Blank("print"),
               <<Eat("print"), Eat("(")>> \o Expression \o <<Eat(")"), Eat(";")>>, <<>>)

IfStatement ==
  /\ Statement({"if"}) \/ At("if")
  /\ Allocates(Blank("if"),
               <<Eat("if"), Eat("(")>> \o Expression
                 \o <<Eat(")"), Enter("block"), Enter("else")>>, <<>>)

(* else if, else, or nothing *)
ElseIf    == /\ At("else") /\ Sees({"else"}) /\ Peek(1).kind = "if"
             /\ Does(<<Eat("else"), Enter("if")>>)
ElseBlock == /\ At("else") /\ Sees({"else"}) /\ Peek(1).kind # "if"
             /\ Does(<<Eat("else"), Enter("block")>>)
NoElse    == At("else") /\ ~Sees({"else"}) /\ Does(<<>>)

ParseBlock == At("block") /\ Allocates(Blank("block"), Braces("statements"), <<>>)

VarDeclaration ==
  /\ Statement({"int", "string"}) \/ At("declaration")
  /\ Allocates(Blank("decl"),
               <<Item("type", "decl", 0), Eat("name"), Eat("="), Enter("value")>>, <<>>)

(* The type of a declaration or a parameter, and of a function, which may  *)
(* be void.  A type that is not there stays as malloc returned it.         *)
TypesHere == IF Todo[1].what = "func" THEN TypeWords ELSE TypeWords \ {"void"}

TypeRead(t) ==
  IF Todo[1].what = "param" THEN frames' = After(<<Item("param", t, 0)>>) /\ UNCHANGED ast
  ELSE frames' = After(<<>>) /\ Writes([ast[Here] EXCEPT !.type = t])

TypeWord == At("type") /\ Sees(TypesHere) /\ TypeRead(Peek(0).kind) /\ Advance(1)

TypeMissing ==
  /\ At("type") /\ ~Sees(TypesHere)
  /\ \E t \in TypesHere \cup Types : TypeRead(t)
  /\ Advance(0)

(* The value of a declaration; parse_function_call reads its own `;'. *)
WritesPar(par) ==
  Writes([ast[Here] EXCEPT !.par = par]) /\ UNCHANGED <<source, pos, phase>>

(* A variant that starts any expression in a thread, against WellFormedTree. *)
ValueInThread ==
  /\ At("value")
  /\ CASE Sees({"thread"})  -> frames' = After(<<Eat("thread")>> \o Expression \o <<Eat(";")>>)
                               /\ WritesPar("thread")
       [] Sees({"process"}) -> frames' = After(<<CallIn("process")>>) /\ WritesPar("process")
       [] OTHER             -> frames' = After(Expression \o <<Eat(";")>>)
                               /\ WritesPar("regular")

Value ==
  /\ At("value")
  /\ CASE Sees({"thread"})  -> frames' = After(<<Eat("thread"), CallIn("thread")>>)
                               /\ WritesPar("thread")
       [] Sees({"process"}) -> frames' = After(<<CallIn("process")>>) /\ WritesPar("process")
       [] OTHER             -> frames' = After(Expression \o <<Eat(";")>>)
                               /\ WritesPar("regular")

VarUpdate ==
  /\ Statement({"name"}) \/ At("update")
  /\ Allocates(Blank("update"), <<Eat("name"), Enter("assign")>>,
               IF At("statement") THEN <<Eat(";")>> ELSE <<>>)

Assign ==
  /\ At("assign") /\ Sees(UpdateOps)
  /\ Writes([ast[Here] EXCEPT !.op = Peek(0).kind]) /\ Advance(1)
  /\ frames' = After(IF Sees({"++"}) THEN <<>> ELSE Expression)

AssignFails == At("assign") /\ ~Sees(UpdateOps) /\ Fail

LoopParts ==
  <<Eat("for"), Eat("("), Enter("declaration")>> \o Expression
    \o <<Eat(";"), Enter("update"), Eat(")"), Enter("block")>>

ForLoop == Statement({"for"}) /\ Allocates(Blank("for"), LoopParts, <<>>)

ThreadedLoop ==
  /\ Statement({"thread"}) /\ Peek(1).kind = "="
  /\ Allocates([Blank("for") EXCEPT !.par = "thread"],
               <<Eat("thread"), Eat("="), Eat("number")>> \o LoopParts, <<>>)

ThreadBlock ==
  /\ Statement({"thread"}) /\ Peek(1).kind = "{"
  /\ Does(<<Eat("thread"), Enter("inline")>>)

ThreadBody == At("inline") /\ Allocates(Blank("thread"), Braces("statements"), <<>>)

ThreadStatement ==
  /\ Statement({"thread"}) /\ Peek(1).kind \notin {"=", "{"}
  /\ Does(<<Eat("thread"), CallIn("thread")>>)

ProcessStatement == Statement({"process"}) /\ Does(<<CallIn("process")>>)

(* parse_function_call: its own node is regular or process, and the caller *)
(* that has consumed `thread' overwrites the type.                         *)
FunctionCall ==
  /\ At("call")
  /\ Allocates([Blank("call") EXCEPT !.par = Todo[1].what],
               (IF Sees({"process"}) THEN <<Eat("process")>> ELSE <<>>)
                 \o <<Eat("name"), Eat("("), List("arguments"), Eat(")"), Eat(";")>>, <<>>)

Function ==
  /\ Statement({"func"})
  /\ Allocates(Blank("func"),
               <<Eat("func"), Item("type", "func", 0), Eat("name"), Eat("("),
                 List("params"), Eat(")")>> \o Braces("statements"), <<>>)

(* A variant that keeps the latest parameter only, against NothingDropped. *)
ParamAlone ==
  /\ At("param") /\ Sees({"name"})
  /\ LET p == [name |-> Peek(0).name, type |-> Todo[1].what]
     IN  Writes([ast[Here] EXCEPT !.params = <<p>>])
  /\ Advance(1) /\ frames' = After(<<>>)

(* The name of a parameter, whose type has been read. *)
Param ==
  /\ At("param") /\ Sees({"name"})
  /\ LET p == [name |-> Peek(0).name, type |-> Todo[1].what]
     IN  Writes([ast[Here] EXCEPT !.params = Append(@, p)])
  /\ Advance(1) /\ frames' = After(<<>>)

ReturnStatement ==
  /\ Statement({"return"})
  /\ Allocates(Blank("return"), <<Eat("return")>> \o Expression \o <<Eat(";")>>, <<>>)

ParseAwait ==
  /\ Statement({"await"})
  /\ Allocates(Blank("await"), <<Eat("await")>> \o Braces("names") \o <<Eat(";")>>, <<>>)

NameMissing == (At("param") \/ At("awaited")) /\ ~Sees({"name"}) /\ Fail

StatementFails ==
  /\ At("statement")
  /\ ~Sees({"print", "if", "int", "string", "name", "for", "func", "return",
            "process", "thread", "await"})
  /\ Fail

-----------------------------------------------------------------------------
(* parse_expression, parse_comparison, parse_term, parse_factor: the loop  *)
(* of each level, which takes its operators from left to right.            *)

(* A variant that parses the rest of the level as the right operand, so    *)
(* that operators associate to the right (ReadBack).                       *)
OperatorRight ==
  /\ At("more") /\ Sees(Levels[Todo[1].level])
  /\ Advance(1) /\ UNCHANGED ast
  /\ frames' = After(Operand(Todo[1].level)
                       \o <<Item("join", RuleOf[Peek(0).kind], 0)>>)

Operator ==
  /\ At("more") /\ Sees(Levels[Todo[1].level])
  /\ Advance(1) /\ UNCHANGED ast
  /\ frames' = After(Operand(Todo[1].level + 1)
                       \o <<Item("join", RuleOf[Peek(0).kind], 0), Todo[1]>>)

NoOperator == At("more") /\ ~Sees(Levels[Todo[1].level]) /\ Does(<<>>)

(* The table with a node for an operator before its left operand l: what   *)
(* follows moves up by one.  The node of the innermost call has it instead *)
(* of its two latest parts.                                                *)
Moved(nd, l) ==
  [nd EXCEPT !.kids = [i \in DOMAIN @ |-> IF @[i] < l THEN @[i] ELSE @[i] + 1]]

Joined(op, l, r) ==
  [n \in 1 .. Len(ast) + 1 |->
     CASE n = Here -> [ast[n] EXCEPT !.kids = SubSeq(@, 1, Len(@) - 1)]
       [] n < l /\ n # Here -> ast[n]
       [] n = l -> [Blank("binop") EXCEPT !.op = op, !.kids = <<l + 1, r + 1>>]
       [] n > l -> Moved(ast[n - 1], l)]

Join ==
  /\ At("join")
  /\ LET kids == ast[Here].kids
     IN  ast' = Joined(Todo[1].what, kids[Len(kids) - 1], kids[Len(kids)])
  /\ frames' = After(<<>>) /\ Advance(0)

(* parse_unary and parse_primary *)
Negation ==
  /\ At("unary") /\ Sees({"!"})
  /\ Advance(1) /\ Begins(Blank("unary"), <<Enter("unary")>>, <<>>)

(* A token as a node *)
Leaf(t) == CASE t.kind = "name"   -> [Blank("ident") EXCEPT !.name = t.name]
             [] t.kind = "number" -> [Blank("int") EXCEPT !.num = t.num]
             [] OTHER             -> Blank("string")

Literal ==
  /\ \/ At("unary") /\ Sees(Content) /\ (Sees({"name"}) => Peek(1).kind # "(")
     \/ At("awaited") /\ Sees({"name"})
  /\ Advance(1) /\ ast' = Grown(Leaf(Peek(0))) /\ frames' = After(<<>>)

(* The parallel type of a call in an expression is not written. *)
CallValue ==
  /\ At("unary") /\ Sees({"name"}) /\ Peek(1).kind = "("
  /\ Advance(2)
  /\ \E par \in ParallelTypes :
       Begins([Blank("call") EXCEPT !.name = Peek(0).name, !.par = par],
              <<List("arguments"), Eat(")")>>, <<>>)

Parenthesis ==
  /\ At("unary") /\ Sees({"("})
  /\ Advance(1) /\ frames' = After(Expression \o <<Eat(")")>>) /\ UNCHANGED ast

PrimaryFails == At("unary") /\ ~Sees(Content \cup {"!", "("}) /\ Fail

-----------------------------------------------------------------------------
(* parse returns the program. *)
Finish ==
  /\ phase = "reading" /\ frames = <<>>
  /\ phase' = "parsed" /\ UNCHANGED <<source, pos, frames, ast>>

Init ==
  /\ source \in Sources
  /\ pos = 0 /\ phase = "reading" /\ ast = <<Blank("program")>>
  /\ frames = <<[node |-> 1, todo |-> <<List("program")>>]>>

Statements ==
  \/ PrintStatement \/ IfStatement \/ ElseIf \/ ElseBlock \/ NoElse \/ ParseBlock
  \/ VarDeclaration \/ TypeWord \/ TypeMissing \/ Value
  \/ VarUpdate \/ Assign \/ AssignFails
  \/ ForLoop \/ ThreadedLoop \/ ThreadBlock \/ ThreadBody \/ ThreadStatement
  \/ ProcessStatement \/ FunctionCall \/ Function \/ Param \/ NameMissing
  \/ ReturnStatement \/ ParseAwait \/ StatementFails

Expressions ==
  \/ Operator \/ NoOperator \/ Join \/ Negation \/ Literal \/ CallValue
  \/ Parenthesis \/ PrimaryFails

Next ==
  \/ Consume \/ ConsumeFails \/ ListGoesOn \/ ListEnds \/ Comma
  \/ Statements \/ Expressions \/ Return \/ Finish

(* The parser is the only activity of its process: it keeps running. *)
Spec == Init /\ [][Next]_vars /\ WF_vars(Next)

-----------------------------------------------------------------------------
(* Correctness *)

(* Every variable has its type. *)
TypeOK ==
  /\ source \in Seq(Token) /\ pos \in 0 .. Len(source)
  /\ phase \in {"reading", "parsed", "refused"}
  /\ ast \in Seq(Node)
  /\ \A i \in DOMAIN frames : frames[i].node \in DOMAIN ast
  /\ phase = "parsed" => frames = <<>>

(* A tree that parse returns is what the analyzer and the code generator   *)
(* take for granted: each node has the children that its kind needs, of    *)
(* the kinds that it needs, whatever the program text was.                 *)
WellFormedTree == phase = "parsed" => WellFormed(ast)

(* A tree that parse returns holds the names, numbers and strings that it  *)
(* has consumed, in the order of the text, and that is the whole text, or  *)
(* all of it before a token that parse cannot read at the start of a       *)
(* statement, where it stops without a message: no path of the descent     *)
(* loses an operand, takes one twice, attaches one out of place or ends    *)
(* the program early.                                                      *)
Own(nd) ==
  CASE nd.kind = "int" \/ (nd.kind = "for" /\ nd.par = "thread") -> <<<<"number", nd.num>>>>
    [] nd.kind = "string" -> <<<<"text">>>>
    [] OTHER -> (IF nd.name = "-" THEN <<>> ELSE <<<<"name", nd.name>>>>)
                  \o [i \in DOMAIN nd.params |-> <<"name", nd.params[i].name>>]

OfToken(t) ==
  CASE t.kind = "name"   -> <<<<"name", t.name>>>>
    [] t.kind = "number" -> <<<<"number", t.num>>>>
    [] t.kind = "text"   -> <<<<"text">>>>
    [] OTHER             -> <<>>

NothingDropped ==
  phase = "parsed" =>
    /\ pos = Len(source) \/ source[pos + 1].kind = "illegal"
    /\ S!FlattenSeq([n \in DOMAIN ast |-> Own(ast[n])])
         = S!FlattenSeq([i \in 1 .. pos |-> OfToken(source[i])])

(* Every program text is accepted or refused. *)
Termination == <>(phase # "reading")
===============================================================================

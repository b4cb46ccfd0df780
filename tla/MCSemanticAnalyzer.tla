-------------------------- MODULE MCSemanticAnalyzer --------------------------
(***************************************************************************)
(* The programs on which TLC runs the semantic analyzer: a shared          *)
(* variable c, a function f in several forms, and two statement groups     *)
(* from a menu, with f defined before, between or after them.              *)
(* parse_primary leaves the type of a call inside an expression as malloc  *)
(* returned it, so such a call appears here with each of its three values. *)
(***************************************************************************)
EXTENDS SemanticAnalyzer, AstBuilder

MCNames == {"c", "d", "i", "j", "p", "f", "g"}

Functions ==
  {Func("int", "f", <<IntParam("p")>>,
        <<Set("c", "+=", IntLit), Return(Var("p"))>>),
   Func("void", "f", <<IntParam("p")>>,
        <<Decl("int", "d", Var("c")),
          InThread(<<Set("d", "=", Bin("arith", Var("d"), Var("p"))), Inc("c")>>)>>),
   Func("void", "f", <<>>, <<If(Var("c"), <<ThreadCall("f", <<>>)>>)>>),
   Func("void", "f", <<>>, <<Inc("c"), ThreadCall("f", <<>>)>>),
   Func("void", "f", <<>>,
        <<Func("int", "g", <<>>, <<Return(Var("c"))>>), Set("c", "=", Var("c"))>>),
   Func("int", "f", <<IntParam("p"), IntParam("p")>>, <<Return(Var("p"))>>)}

Groups ==
  {<<Set("c", "+=", IntLit)>>,
   <<InThread(<<Set("c", "=", Not(Var("c"))), Inc("c")>>)>>,
   <<InThread(<<Show(Var("c")), Decl("int", "d", Var("c"))>>)>>,
   <<ThreadFor("i", <<Set("c", "+=", Var("i"))>>)>>,
   <<ThreadFor("i", <<Decl("int", "d", Var("c")), If(Var("d"), <<Show(Var("d"))>>)>>)>>,
   <<ThreadFor("i", <<ThreadFor("j", <<Set("c", "-=", Var("i"))>>),
                     Show(Bin("arith", Var("c"), Var("c")))>>)>>,
   <<ThreadFor("i", <<Func("void", "g", <<IntParam("p")>>, <<Set("c", "=", Var("p"))>>)>>),
     ThreadCall("g", <<IntLit>>)>>,
   <<If(Var("c"), <<Decl("string", "c", StrLit), ProcessCall("f", <<IntLit>>)>>)>>,
   <<Decl("int", "d", ThreadCall("f", <<Var("c")>>)), Await(<<"d">>)>>,
   <<ThreadCall("f", <<IntLit>>), ProcessCall("g", <<Var("c")>>)>>,
   <<Loop("j", <<Decl("int", "d", Call("f", <<Var("c")>>)),
                 IfElse(Var("d"), <<Inc("d")>>, If(Var("c"), <<Set("c", "=", Var("d"))>>))>>)>>,
   <<Show(ThreadCall("f", <<Var("c")>>)), Set("c", "+=", ProcessCall("f", <<IntLit>>))>>,
   <<If(Bin("equality", Var("c"), StrLit), <<>>)>>,
   <<Set("c", "=", StrLit)>>,
   <<If(StrLit, <<>>)>>,
   <<Show(Not(StrLit))>>,
   <<Decl("string", "d", Bin("compare", Var("c"), IntLit))>>,
   <<Inc("j")>>, <<Show(Var("j"))>>}

MCPrograms ==
  LET c == <<Decl("int", "c", IntLit)>>
  IN  {Tree(ss) : ss \in
         {c \o <<f>> \o s \o t : f \in Functions, s, t \in Groups}
           \cup {c \o s \o <<f>> \o t : f \in Functions, s, t \in Groups}}

-----------------------------------------------------------------------------
(* Programs for the statements of the documents. *)

(* int c = 5;  thread { print(c); } *)
ReadInThread ==
  {Tree(<<Decl("int", "c", IntLit), InThread(<<Show(Var("c"))>>)>>)}

(* func void f(int p) { if (p) { thread f(p - 1); } } *)
RecursiveThread ==
  {Tree(<<Func("void", "f", <<IntParam("p")>>,
            <<If(Var("p"),
                 <<ThreadCall("f", <<Bin("arith", Var("p"), IntLit)>>)>>)>>)>>)}
===============================================================================

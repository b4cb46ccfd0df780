------------------------------ MODULE MCCompiler ------------------------------
(***************************************************************************)
(* The programs on which TLC runs the whole compiler, as texts: parallel   *)
(* constructs from a menu at every place where a statement can stand, two  *)
(* functions and a main part that uses them, expressions with and without  *)
(* parentheses, and texts with one token lost or replaced by another.      *)
(***************************************************************************)
EXTENDS Compiler, ProgramText

MCNames == {"c", "d", "e", "i", "j", "k", "p", "z", "f", "g", "h"}

Variables == <<Decl("int", "c", IntLit), Decl("int", "d", IntOf(1))>>
F == Func("int", "f", <<IntParam("p")>>, <<Set("c", "+=", Var("p")), Return(Var("p"))>>)

Thread  == <<Decl("int", "e", ThreadCall("f", <<Var("d")>>)), Await(<<"e">>)>>
Process == <<Decl("int", "e", ProcessCall("f", <<IntOf(2)>>)), Await(<<"e">>)>>
Block   == <<InThread(<<Inc("c")>>)>>
Threads == <<ThreadFor("i", <<Set("c", "+=", Var("d"))>>)>>

Constructs ==
  {Thread, Process, Block, Threads, <<ThreadCall("f", <<IntLit>>)>>,
   <<ThreadFor("i", <<Set("c", "+=", Var("i"))>>)>>}

Around(ss) ==
  {<<If(Var("d"), ss)>>, <<IfElse(Var("d"), <<>>, Curly(ss))>>,
   <<IfElse(Var("d"), <<>>, If(Var("d"), ss))>>,
   <<Loop("j", ss)>>, <<InThread(ss)>>, <<ThreadFor("j", ss \o <<Show(Var("j"))>>)>>,
   <<Func("void", "g", <<>>, ss), ThreadCall("g", <<>>)>>,
   <<Func("void", "g", <<>>, ss)>>}

(* Statements of which two make the bodies of two functions. *)
Bodies ==
  {<<Decl("int", "d", Var("c")), Inc("c"), Show(Var("d"))>>, Process, Block, Threads,
   <<Decl("int", "d", ProcessCall("f", <<Var("c")>>)), Await(<<"d">>)>>,
   <<Decl("int", "e", ThreadCall("f", <<Var("c")>>)), Await(<<"e">>)>>,
   <<Set("c", "=", Call("g", <<>>)), ThreadCall("h", <<>>)>>,
   <<IfElse(Var("c"), Threads, Curly(Block)), Func("int", "k", <<>>, <<>>)>>,
   <<ThreadFor("i", <<If(Var("c"), <<ThreadFor("j", <<Set("d", "+=", Var("d"))>>),
                                     Set("d", "-=", Var("c"))>>)>>)>>,
   <<For("k", Bin("compare", Var("k"), IntLit), Set("c", "=", Var("k")), <<Inc("k")>>)>>}

(* Threaded loops whose condition is on any of the variables in sight. *)
HeadLoops ==
  {<<[ThreadFor("i", ss) EXCEPT !.kids[2] = Bin("compare", Var(x), e)]>> :
     x \in {"c", "d", "i"}, e \in {IntOf(5), Var("d"), Var("i")},
     ss \in {<<Show(Var("i"))>>, <<Show(Var("c"))>>, <<Inc("c")>>}}

Mains ==
  {<<ThreadCall("g", <<>>), ProcessCall("h", <<>>), Set("c", "=", Call("h", <<>>)),
     Decl("int", "z", ProcessCall("h", <<>>)), Await(<<"z">>)>>,
   <<InThread(<<Inc("d")>>), Decl("int", "z", ThreadCall("h", <<>>)),
     Loop("j", <<Inc("c")>>), Show(Bin("arith", Var("c"), Var("d")))>>}

Two(type) == {Variables \o <<F, Func("void", "g", <<>>, s), Func(type, "h", <<>>, t)>> \o u :
                s, t \in Bodies, u \in Mains}

Samples == {Var("c"), Call("f", <<Var("c"), IntOf(2)>>), Not(Var("c")), StrLit,
            Bin("arith", Var("c"), Bin("arith", Var("d"), IntOf(3))),
            Bin("logical", Var("c"), Bin("compare", Var("c"), StrLit))}

Formulas == Samples \cup {Not(e) : e \in Samples}
                 \cup {Bin(op, a, b) : op \in BinaryOps, a, b \in Samples}

Programs ==
  {Variables \o <<F>> \o ss : ss \in Constructs}
    \cup {Variables \o <<F>> \o n : n \in UNION {Around(ss) : ss \in Constructs}}
    \cup {Variables \o <<F>> \o ss \o tt : ss, tt \in Constructs}
    \cup {Variables \o Block \o ss : ss \in HeadLoops}
    \cup Two("void")
    \cup {<<Set("c", "=", e)>> : e \in Formulas}
    \cup {Variables \o <<Decl("string", "e", StrLit),
            IfElse(e, <<Show(e)>>, If(e, <<Return(e)>>))>> : e \in Samples}
    \cup {<<ThreadFor("i", <<>>), For("j", e, Inc("j"), <<>>)>> : e \in Samples}
    \cup {Variables \o <<Set("c", "=", Not(e)),
            [ThreadFor("i", <<>>) EXCEPT !.kids[2] = e]>> : e \in Samples}
    \cup {Variables \o <<Set("c", "=", e)>> : e \in Samples}

Texts == {Text(Source(ss)) : ss \in Programs}
ProgramOf == [t \in Texts |-> CHOOSE ss \in Programs : Text(Source(ss)) = t]

Sample ==
  <<ThreadFor("i", <<Show(Var("i"))>>),
    Func("void", "f", <<IntParam("p"), [name |-> "c", type |-> "string"]>>, <<Return(IntOf(1))>>),
    InThread(<<Decl("int", "c", ThreadCall("f", <<IntOf(1)>>)),
               Decl("int", "d", ProcessCall("f", <<IntOf(1)>>))>>),
    Await(<<"c", "d">>)>>

Replacements == {Word(k) : k \in {"illegal", "}", ")", "int"}} \cup {Name("c"), <<>>}

Damaged ==
  LET t == Text(Source(Sample))
  IN  {SubSeq(t, 1, i - 1) \o r \o SubSeq(t, i + 1, Len(t)) : i \in DOMAIN t, r \in Replacements}

MCSources == Texts \cup Damaged

(* What somebody has written with only the parentheses that the levels of  *)
(* the operators require is read as it was meant (parse_expression to      *)
(* parse_primary: precedence and associativity).                           *)
ReadBack ==
  phase # "reading" /\ source \in Texts =>
    phase = "parsed" /\ Written(ast) = Tree(ProgramOf[source])

-----------------------------------------------------------------------------
(* A program for a statement of the README:                                *)
(* int c = 0;  thread { thread=2 for (int i = 0; i < 0; i++) { c += i; } } *)
LoopInThread ==
  {Text(Source(<<Decl("int", "c", IntLit),
                 InThread(<<ThreadFor("i", <<Set("c", "+=", Var("i"))>>)>>)>>))}
===============================================================================

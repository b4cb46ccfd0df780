------------------------------ MODULE AstBuilder ------------------------------
(***************************************************************************)
(* Programs as nested terms: constructors named for the syntax they stand  *)
(* for, and Tree, which lays a term out as the node table of FluCsAst in   *)
(* preorder.  The parser builds such terms, a node being allocated when    *)
(* its parts are complete, and the model checker is given programs so.     *)
(***************************************************************************)
EXTENDS FluCsAst

LOCAL INSTANCE SequencesExt

With(kind, name, kids) == [Blank(kind) EXCEPT !.name = name, !.kids = kids]

IntLit     == Blank("int")
IntOf(v)   == [Blank("int") EXCEPT !.num = v]
StrLit     == Blank("string")
Var(x)     == With("ident", x, <<>>)
Bin(op, l, r) == [With("binop", "-", <<l, r>>) EXCEPT !.op = op]
Not(e)     == With("unary", "-", <<e>>)
Call(f, args)          == With("call", f, args)
ThreadCall(f, args)    == [Call(f, args) EXCEPT !.par = "thread"]
ProcessCall(f, args)   == [Call(f, args) EXCEPT !.par = "process"]

Decl(type, x, e) ==
  [With("decl", x, <<e>>) EXCEPT !.type = type, !.par = e.par]
Set(x, op, e)  == [With("update", x, <<e>>) EXCEPT !.op = op]
Inc(x)         == [With("update", x, <<>>) EXCEPT !.op = "++"]
Curly(ss)      == With("block", "-", ss)
If(e, ss)      == With("if", "-", <<e, Curly(ss)>>)
IfElse(e, ss, other) == With("if", "-", <<e, Curly(ss), other>>)
For(x, cond, upd, ss) ==
  With("for", "-", <<Decl("int", x, IntLit), cond, upd, Curly(ss)>>)
Loop(x, ss)    == For(x, Bin("compare", Var(x), IntLit), Inc(x), ss)
ThreadFor(x, ss) == [Loop(x, ss) EXCEPT !.par = "thread", !.num = 2]
Func(type, f, params, ss) ==
  [With("func", f, ss) EXCEPT !.type = type, !.params = params]
Return(e)      == With("return", "-", <<e>>)
Show(e)        == With("print", "-", <<e>>)
Await(xs)      == With("await", "-", [i \in DOMAIN xs |-> Var(xs[i])])
InThread(ss) == With("thread", "-", ss)
Source(ss)    == With("program", "-", ss)
IntParam(x)    == [name |-> x, type |-> "int"]

RECURSIVE Size(_)
Size(term) == FoldLeft(LAMBDA n, kid : n + Size(kid), 1, term.kids)

RECURSIVE LayOut(_, _)
LayOut(term, at) ==
  LET Place(i) == FoldLeft(LAMBDA n, kid : n + Size(kid), at + 1,
                           SubSeq(term.kids, 1, i - 1))
      places == [i \in DOMAIN term.kids |-> Place(i)]
  IN  FoldLeft(LAMBDA table, i : table \o LayOut(term.kids[i], Place(i)),
               <<[term EXCEPT !.kids = places]>>, [i \in DOMAIN term.kids |-> i])

Tree(ss) == LayOut(Source(ss), 1)
===============================================================================

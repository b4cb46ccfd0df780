---------------------------- MODULE MCParallelCalls ----------------------------
(***************************************************************************)
(* Programs on which TLC runs ParallelCalls.  The marks are those the      *)
(* analyzer leaves: an update is marked from the second context on that    *)
(* its variable is analyzed in.                                            *)
(***************************************************************************)
EXTENDS ParallelCalls

MCGlobals == {"c", "d"}
MCResults == {"a", "b", "e"}

Plain == [op |-> "run", var |-> "-", awaits |-> <<>>, body |-> <<>>,
          marked |-> MCGlobals, nested |-> FALSE]

Thread(x, body)  == [Plain EXCEPT !.op = "thread", !.var = x, !.body = body]
Process(x, body) == [Thread(x, body) EXCEPT !.op = "process"]
InThread(body)   == [Plain EXCEPT !.body = body]
Await(xs)        == [Plain EXCEPT !.op = "await", !.awaits = xs]
Update(g)        == [Plain EXCEPT !.op = "update", !.body = <<g>>]
Unmarked(s)      == [s EXCEPT !.marked = {}]
Nested(s)        == [s EXCEPT !.nested = TRUE]

(* An update is unmarked when no thread or process touches its variable.   *)
(* A child is forked while no thread may hold a mutex that it needs.       *)
MCPrograms ==
  {<<Unmarked(Update("d")), Thread("a", <<"c", "c">>), Thread("b", <<"c">>),
     InThread(<<"c">>), Nested(Await(<<"b", "a">>)), Update("c")>>,
   <<InThread(<<"c", "d">>), Process("b", <<"c", "d">>), Thread("a", <<"c">>),
     Update("c"), Nested(Process("e", <<"d">>)), Update("d"),
     Nested(Await(<<"e", "b", "a">>))>>,
   <<Thread("a", <<"c", "c">>), Process("b", <<"d">>), Await(<<"a", "b">>),
     Thread("e", <<"c">>), Update("c"), Nested(Await(<<"e">>))>>,
   <<Process("a", <<"c">>), Process("b", <<"c">>), Thread("e", <<"c">>),
     Update("c"), Await(<<"b">>)>>}

ASSUME MCMarksAssumption == MarksComplete(MCPrograms)

(* int a = thread f();  int b = process f();  await { a, b };  where f     *)
(* updates c, a variable that two contexts share.                          *)
ForkInTheMiddle ==
  {<<Thread("a", <<"c">>), Process("b", <<"c">>), Await(<<"a", "b">>)>>}

(* c += 5;  int a = thread f();  if (c) { await { a }; }                   *)
(* When c += 5 is analyzed, only the main context has touched c.           *)
EarlyUpdate ==
  {<<Unmarked(Update("c")), Thread("a", <<"c">>), Nested(Await(<<"a">>))>>}

(* thread { c += 1; }  d += 1;                                             *)
BlockAndGoOn == {<<InThread(<<"c">>), Unmarked(Update("d"))>>}
===============================================================================

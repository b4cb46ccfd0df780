---------------------------- MODULE MCParallelFor ----------------------------
(***************************************************************************)
(* Loops on which TLC runs ParallelFor, their marks and captured lists as  *)
(* the analyzer leaves them.                                               *)
(***************************************************************************)
EXTENDS ParallelFor

MCVars == {"c", "p", "x"}

(* p is a parameter, c and x are declared variables:                       *)
(*   { x += i; x += c; }   { p = p + i; x += c; }   { x += 1; print(i); }  *)
MCLoops ==
  {[captured |-> <<"c">>,      body |-> <<"x", "x">>, shared |-> {"x"}],
   [captured |-> <<"p", "c">>, body |-> <<"p", "x">>, shared |-> {"x"}],
   [captured |-> <<>>,         body |-> <<"x">>,      shared |-> {"x"}]}

(* { c = c + i; } *)
ReadAndUpdate == {[captured |-> <<"c">>, body |-> <<"c">>, shared |-> {"c"}]}
===============================================================================

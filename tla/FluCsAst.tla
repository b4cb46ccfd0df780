------------------------------- MODULE FluCsAst -------------------------------
(***************************************************************************)
(* The abstract syntax tree that parse() hands to the semantic analyzer    *)
(* and to the code generator (parser.h, struct Node).                      *)
(*                                                                         *)
(* A tree is a table: a sequence of nodes, node 1 being NODE_PROGRAM, and  *)
(* a child is the index of its node, as a child is a Node pointer in C.    *)
(* Every node has the same fields, as the C union has one layout; the      *)
(* fields a kind does not use hold the neutral values of Blank.            *)
(*                                                                         *)
(*   program, block, thread   kids: the statements                         *)
(*   decl      par, type, name;            kids: <<value>>                 *)
(*   update    name, op;                   kids: <<value>>, <<>> for ++    *)
(*   if        kids: <<condition, then>> or <<condition, then, else>>      *)
(*   for       par, num (thread_amount);   kids: <<init, cond, upd, body>> *)
(*   func      type (returned), name, params;  kids: the statements        *)
(*   call      par, name;                  kids: the arguments             *)
(*             (par has any value when the call is part of an expression:   *)
(*             parse_primary does not write the type of the node)           *)
(*   return, print   kids: <<expression>>                                  *)
(*   await     kids: identifier nodes                                      *)
(*   binop     op;  kids: <<left, right>>        unary  kids: <<operand>>  *)
(*   int (num), string, ident (name): leaves                               *)
(***************************************************************************)
EXTENDS Integers, Sequences

CONSTANT Names            \* the identifiers of the programs considered

StmtKinds == {"decl", "update", "if", "for", "func", "return", "call",
              "print", "await", "thread"}
ExprKinds == {"int", "string", "ident", "binop", "unary", "call"}
Kinds     == StmtKinds \cup ExprKinds \cup {"program", "block"}

(* "other": what malloc left in a type the parser did not write, that of a *)
(* for initializer, a parameter or a function that names none.             *)
Types         == {"int", "string", "other"}
ParallelTypes == {"regular", "thread", "process"}

(* The operators, up to the type rule that analyze_binary_operation applies *)
BinaryOps == {"arith", "compare", "equality", "logical"}
UpdateOps == {"=", "+=", "-=", "++"}

Params == [name : Names, type : Types]

Node ==
  [kind   : Kinds,
   name   : Names \cup {"-"},
   type   : Types \cup {"void", "-"},
   par    : ParallelTypes,
   op     : BinaryOps \cup UpdateOps \cup {"-"},
   num    : Int,
   params : Seq(Params),
   kids   : Seq(Nat)]

Blank(kind) ==
  [kind |-> kind, name |-> "-", type |-> "-", par |-> "regular", op |-> "-",
   num |-> 0, params |-> <<>>, kids |-> <<>>]

-----------------------------------------------------------------------------
(* What every tree built by the parser satisfies. *)

KidsOfKind(ast, n, from, kinds) ==
  \A i \in DOMAIN ast[n].kids : i >= from => ast[ast[n].kids[i]].kind \in kinds

Shape(ast, n) ==
  LET nd == ast[n]
      Kid(i) == ast[nd.kids[i]].kind
  IN  CASE nd.kind \in {"program", "block", "thread", "func"} ->
             /\ KidsOfKind(ast, n, 1, StmtKinds)
             /\ nd.kind = "func" => nd.name \in Names
             /\ \A i \in DOMAIN nd.kids :
                  Kid(i) = "call" => ast[nd.kids[i]].par # "regular"
        [] nd.kind = "decl" ->
             /\ nd.name \in Names /\ nd.type \in Types
             /\ Len(nd.kids) = 1 /\ Kid(1) \in ExprKinds
             /\ nd.par # "regular" =>
                  Kid(1) = "call" /\ ast[nd.kids[1]].par = nd.par
        [] nd.kind = "update" ->
             /\ nd.name \in Names /\ nd.op \in UpdateOps
             /\ Len(nd.kids) = IF nd.op = "++" THEN 0 ELSE 1
             /\ KidsOfKind(ast, n, 1, ExprKinds)
        [] nd.kind = "if" ->
             /\ Len(nd.kids) \in {2, 3}
             /\ Kid(1) \in ExprKinds /\ Kid(2) = "block"
             /\ KidsOfKind(ast, n, 3, {"block", "if"})
        [] nd.kind = "for" ->
             /\ Len(nd.kids) = 4
             /\ Kid(1) = "decl" /\ Kid(2) \in ExprKinds
             /\ Kid(3) = "update" /\ Kid(4) = "block"
        [] nd.kind \in {"return", "print", "unary"} ->
             Len(nd.kids) = 1 /\ Kid(1) \in ExprKinds
        [] nd.kind = "await" -> KidsOfKind(ast, n, 1, {"ident"})
        [] nd.kind = "call"  ->
             nd.name \in Names /\ KidsOfKind(ast, n, 1, ExprKinds)
        [] nd.kind = "binop" ->
             /\ nd.op \in BinaryOps /\ Len(nd.kids) = 2
             /\ KidsOfKind(ast, n, 1, ExprKinds)
        [] nd.kind = "ident" -> nd.name \in Names /\ nd.kids = <<>>
        [] OTHER -> nd.kids = <<>>

Parents(ast, n) == {p \in DOMAIN ast : \E i \in DOMAIN ast[p].kids : ast[p].kids[i] = n}

(* The table is in the order of the text: a node comes before its parts,   *)
(* one part before the next, and what lies between a node and a part of it *)
(* is under the node.  Every node but the program is put in one place: no  *)
(* cycle, nothing shared, nothing apart.                                   *)
WellFormed(ast) ==
  /\ ast \in Seq(Node) /\ ast # <<>> /\ ast[1].kind = "program"
  /\ \A n \in DOMAIN ast \ {1} : \E p \in DOMAIN ast : Parents(ast, n) = {p}
  /\ \A n \in DOMAIN ast :
       /\ \A i \in DOMAIN ast[n].kids :
            /\ ast[n].kids[i] \in DOMAIN ast /\ ast[n].kids[i] > n
            /\ \A m \in n + 1 .. ast[n].kids[i] : \A p \in Parents(ast, m) : p >= n
       /\ \A i, j \in DOMAIN ast[n].kids : i < j => ast[n].kids[i] < ast[n].kids[j]
       /\ ast[n].par # "regular" => ast[n].kind \in {"decl", "for", "call"}
       /\ Shape(ast, n)

(* What the analyzer hands on with the tree: the marks, and the captured   *)
(* names of each node, no more than the array of a for node can hold.      *)
Annotated(ast, isShared, captured, limit) ==
  /\ WellFormed(ast)
  /\ isShared \in [DOMAIN ast -> {"unset", "private", "shared"}]
  /\ \A n \in DOMAIN ast : captured[n] \in Seq(Params) /\ Len(captured[n]) <= limit
===============================================================================

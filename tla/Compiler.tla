------------------------------- MODULE Compiler -------------------------------
(***************************************************************************)
(* main(): parse, semantic_analyze and emit_program, one after the other   *)
(* on one tree.  What a phase leaves in the tree is all that the next one  *)
(* knows of it; each exit(1) ends the compiler.                            *)
(***************************************************************************)
EXTENDS Emission

CONSTANTS
  Sources,                                    \* the token sequences to compile
  MaxScope, MaxThreadIds, MaxFunctions

VARIABLES                     \* beside those of the generator, which has the tree
  source, pos, frames, phase,                             \* the parser
  status, work, types, scopes, curThread, nextThread,     \* the analyzer
  functions, curLoop, identType

parsing   == <<source, pos, frames, phase>>
analysis  == <<status, work, types, scopes, curThread, nextThread, functions,
               curLoop>>
marks     == <<isShared, identType, captured, bound>>
vars      == <<parsing, ast, analysis, marks, emission>>

P == INSTANCE Parser
A == INSTANCE SemanticAnalyzer WITH Programs <- {}

(* The sizes of the arrays, and a text as next_token hands it over.  The   *)
(* mark of a node without a name is not an identifier.                     *)
ASSUME CompilerAssumption ==
  /\ MaxScope \in Nat \ {0} /\ MaxThreadIds \in Nat \ {0, 1}
  /\ MaxFunctions \in Nat \ {0} /\ MaxCaptured \in Nat \ {0}
  /\ Sources \subseteq Seq(P!Token) /\ "-" \notin Names

Init ==
  /\ P!Init
  /\ status = "idle" /\ work = <<>> /\ types = <<>> /\ scopes = <<>>
  /\ functions = <<>> /\ curThread = 0 /\ nextThread = 1 /\ curLoop = 0
  /\ isShared = <<>> /\ identType = <<>> /\ captured = <<>> /\ bound = <<>>
  /\ EmissionInit

Parse == P!Next /\ UNCHANGED <<analysis, marks, emission>>

(* semantic_analyze is called on the root that parse returned. *)
StartAnalysis ==
  /\ phase = "parsed" /\ status = "idle"
  /\ status' = "running" /\ work' = <<A!Do("stmt", 1)>>
  /\ isShared'  = [n \in DOMAIN ast |-> "unset"]
  /\ identType' = [n \in DOMAIN ast |-> "unset"]
  /\ captured'  = [n \in DOMAIN ast |-> <<>>]
  /\ bound'     = [n \in DOMAIN ast |-> -1]
  /\ UNCHANGED <<parsing, ast, types, scopes, curThread, nextThread, functions,
                 curLoop, emission>>

Analyze == A!Next /\ UNCHANGED <<parsing, emission>>

(* emit_program follows when semantic_analyze has returned. *)
Emit == status = "ok" /\ EmitProgram /\ UNCHANGED <<parsing, analysis, identType>>

Next == Parse \/ StartAnalysis \/ Analyze \/ Emit

(* The compiler is one process: it keeps running. *)
Spec == Init /\ [][Next]_vars /\ WF_vars(Next)

-----------------------------------------------------------------------------
(* Correctness *)

(* Every variable has its type. *)
TypeOK == P!TypeOK /\ (status # "idle" => A!TypeOK) /\ EmissionTypeOK
          /\ (status = "ok" /\ gen = "idle" => Input)

(* parse, on any sequence of tokens, until semantic_analyze takes over     *)
(* (which, like emit_program, leaves the shape of the tree alone).         *)
WellFormedTree == status = "idle" => P!WellFormedTree
NothingDropped == status = "idle" => P!NothingDropped

(* The compiler ends: the text is refused, the tree is refused, or each    *)
(* statement is written, unless a phase stops the program (exit, or what C *)
(* leaves undefined).                                                      *)
Ended ==
  \/ phase = "refused"
  \/ status \in {"error", "overflow"}
  \/ gen \in {"done", "error", "undefined"}

Termination == <>Ended

-----------------------------------------------------------------------------
(* What the documents say and the code does not do *)

(* Each parallel unit of an accepted program becomes threads or a process, *)
(* and is started by a name that has been declared ("All concurrency       *)
(* primitives work at any nesting depth").                                 *)
AnyDepth ==
  gen = "done" =>
    /\ \A n \in Calling : invoked[n] = 1
    /\ \A n \in Loops : workerOf[n] # 0
    /\ \A e \in text.errors : e[2] \notin {"worker", "call", "process_call"}
===============================================================================

--------------------------- MODULE SemanticAnalyzer ---------------------------
(***************************************************************************)
(* semantic_analyze(): one walk over the tree that checks types, resolves  *)
(* names against a stack of scopes, decides which variables are shared     *)
(* between thread contexts, and lists the variables a threaded for loop    *)
(* captures.  The results are written into the tree, where the code        *)
(* generator reads them.                                                   *)
(*                                                                         *)
(* The C code is a set of mutually recursive functions.  Here their call   *)
(* stack is explicit: `work' holds what remains to be done, the next item  *)
(* first, and `types' the TokenTypes returned by analyze_expression and    *)
(* not yet consumed.  Each action is one entry into, or one return to, an  *)
(* analyze_ function, so every step of the walk is a state.                *)
(***************************************************************************)
EXTENDS FluCsAst, FiniteSets

CONSTANTS
  Programs,         \* the trees to analyze
  MaxScope,         \* MAX_SCOPE: the size of scopes[]
  MaxThreadIds,     \* MAX_THREAD_IDS: the size of thread_ids[]
  MaxFunctions,     \* MAX_FUNCTIONS: the size of function_nodes[]
  MaxCaptured       \* MAX_CAPTURED_VARS: the size of captured_names[]

ASSUME ProgramsAssumption == \A p \in Programs : WellFormed(p)
ASSUME LimitsAssumption ==
  /\ MaxScope \in Nat \ {0} /\ MaxThreadIds \in Nat \ {0, 1}
  /\ MaxFunctions \in Nat \ {0} /\ MaxCaptured \in Nat \ {0}

VARIABLES
  ast,         \* the tree, fixed for one run of the compiler
  status,      \* "overflow": scopes[] written past its end, undefined in C
  work,        \* the call stack of the walk, the next item first
  types,       \* expression types returned and not yet used, latest first
  scopes,      \* scopes[0 .. scope_top], the outermost first
  curThread,   \* current_thread_id
  nextThread,  \* next_thread_id
  functions,   \* function_nodes[0 .. function_count-1]
  curLoop,     \* current_threaded_for_loop, 0 for NULL
  isShared,    \* is_shared of each declaration and update node
  identType,   \* identifier.type of each identifier node
  captured,    \* captured_names and captured_types of each for node
  bound        \* history: the declaration a use last resolved to (0: parameter)

tree   == <<isShared, identType, captured, bound>>
walk   == <<work, types>>
context == <<curThread, nextThread, curLoop>>
vars   == <<ast, status, walk, scopes, context, functions, tree>>

-----------------------------------------------------------------------------
(* Scopes and variables *)

(* VariableEntry.  users is history: every context that touched the        *)
(* variable, where threads stops growing at MaxThreadIds.                  *)
Entry ==
  [type : Types, threads : Seq(Nat), shared : BOOLEAN, decl : Nat,
   users : SUBSET Nat]

NoEntry ==
  [type |-> "-", threads |-> <<>>, shared |-> FALSE, decl |-> 0, users |-> {}]

NewEntry(type, decl) == [NoEntry EXCEPT !.type = type, !.decl = decl]

Scope      == [Names -> Entry \cup {NoEntry}]
EmptyScope == [x \in Names |-> NoEntry]

(* lookup_variable: the innermost scope that has the name. *)
Binds(l, x) ==
  /\ l \in DOMAIN scopes /\ scopes[l][x] # NoEntry
  /\ \A m \in DOMAIN scopes : m > l => scopes[m][x] = NoEntry

Undeclared(x) == \A l \in DOMAIN scopes : scopes[l][x] = NoEntry

(* register_variable_usage, on the entry that was found. *)
Recorded(e) == \E i \in DOMAIN e.threads : e.threads[i] = curThread

(* A variant without the early return, to show that SharedExactly bites. *)
TouchAgain(e) ==
  LET threads == IF Len(e.threads) < MaxThreadIds
                 THEN Append(e.threads, curThread) ELSE e.threads
  IN  [e EXCEPT !.threads = threads, !.shared = @ \/ Len(threads) >= 2,
                !.users = @ \cup {curThread}]

Touch(e) ==
  LET threads == IF ~Recorded(e) /\ Len(e.threads) < MaxThreadIds
                 THEN Append(e.threads, curThread) ELSE e.threads
  IN  [e EXCEPT !.threads = threads,
                !.shared  = @ \/ (~Recorded(e) /\ Len(threads) >= 2),
                !.users   = @ \cup {curThread}]

Mark(e) == IF e.shared THEN "shared" ELSE "private"

(* The parameters of f, as enter_scope and insert_variable leave them. *)
ParamScope(f) ==
  LET ps == ast[f].params
      Named(x) == {i \in DOMAIN ps : ps[i].name = x}
  IN  [x \in Names |->
         IF Named(x) = {} THEN NoEntry
         ELSE NewEntry(ps[CHOOSE i \in Named(x) : TRUE].type, 0)]

DuplicateParams(f) ==
  \E i, j \in DOMAIN ast[f].params :
     i # j /\ ast[f].params[i].name = ast[f].params[j].name

(* detect_captured_variable, for a variable found at level l. *)
LoopVar(f) == ast[ast[f].kids[1]].name

(* A variant without the search of captured_names, against CapturedOnce. *)
CapturesAgain(l, x) ==
  /\ curLoop # 0 /\ l < Len(scopes) /\ x # LoopVar(curLoop)
  /\ Len(captured[curLoop]) < MaxCaptured

Captures(l, x) ==
  /\ curLoop # 0 /\ l < Len(scopes) /\ x # LoopVar(curLoop)
  /\ \A i \in DOMAIN captured[curLoop] : captured[curLoop][i].name # x
  /\ Len(captured[curLoop]) < MaxCaptured

(* The search of analyze_threaded_function_call: the first of that name. *)
Callee(f, x) ==
  \E i \in DOMAIN functions :
     /\ functions[i] = f /\ ast[f].name = x
     /\ \A j \in DOMAIN functions : j < i => ast[functions[j]].name # x

Unknown(x) == \A i \in DOMAIN functions : ast[functions[i]].name # x

-----------------------------------------------------------------------------
(* The walk *)

Ops == {"stmt", "expr", "discard", "declare", "store", "test", "loop",
        "operate", "negate", "launch", "yield", "leave", "endContext",
        "endLoop"}

(* thread and loop are the saved_thread_id and saved_for_loop of a call.   *)
(* own is history: the context that the call began.                        *)
Item ==
  [op : Ops, node : DOMAIN ast, thread : Nat, loop : {0} \cup DOMAIN ast, own : Nat]

Do(op, n)      == [op |-> op, node |-> n, thread |-> 0, loop |-> 0, own |-> 0]
Each(op, kids) == [i \in DOMAIN kids |-> Do(op, kids[i])]
Restore(op, n) ==
  [op |-> op, node |-> n, thread |-> curThread, loop |-> curLoop, own |-> nextThread]

nd    == ast[work[1].node]

At(op, kinds) ==
  /\ status = "running" /\ work # <<>>
  /\ work[1].op = op /\ nd.kind \in kinds

Continue(items) == work' = items \o Tail(work)
Push(type)      == types' = <<type>> \o types
Pop(k)          == types' = SubSeq(types, k + 1, Len(types))

(* exit(1) after a message. *)
Fail == /\ status' = "error"
        /\ UNCHANGED <<ast, walk, scopes, context, functions, tree>>

NewContext == curThread' = nextThread /\ nextThread' = nextThread + 1

-----------------------------------------------------------------------------
(* analyze_node *)

Program ==
  /\ At("stmt", {"program"}) /\ Len(scopes) < MaxScope
  /\ scopes' = Append(scopes, EmptyScope)
  /\ curThread' = 0
  /\ Continue(Each("stmt", nd.kids) \o <<Do("leave", work[1].node)>>)
  /\ UNCHANGED <<ast, status, types, nextThread, curLoop, functions, tree>>

Block ==
  /\ At("stmt", {"block"}) /\ Len(scopes) < MaxScope
  /\ scopes' = Append(scopes, EmptyScope)
  /\ Continue(Each("stmt", nd.kids) \o <<Do("leave", work[1].node)>>)
  /\ UNCHANGED <<ast, status, types, context, functions, tree>>

(* A variant that does not compare function_count with its limit (TypeOK). *)
FunctionUnbounded ==
  /\ At("stmt", {"func"}) /\ Len(scopes) < MaxScope
  /\ functions' = Append(functions, work[1].node)
  /\ ~DuplicateParams(work[1].node)
  /\ scopes' = Append(scopes, ParamScope(work[1].node))
  /\ Continue(Each("stmt", nd.kids) \o <<Do("leave", work[1].node)>>)
  /\ UNCHANGED <<ast, status, types, context, tree>>

Function ==
  /\ At("stmt", {"func"}) /\ Len(scopes) < MaxScope
  /\ functions' = IF Len(functions) < MaxFunctions
                  THEN Append(functions, work[1].node) ELSE functions
  /\ ~DuplicateParams(work[1].node)
  /\ scopes' = Append(scopes, ParamScope(work[1].node))
  /\ Continue(Each("stmt", nd.kids) \o <<Do("leave", work[1].node)>>)
  /\ UNCHANGED <<ast, status, types, context, tree>>

FunctionFails ==
  /\ At("stmt", {"func"}) /\ Len(scopes) < MaxScope
  /\ DuplicateParams(work[1].node)
  /\ Fail

(* exit_scope *)
Leave ==
  /\ At("leave", Kinds)
  /\ scopes' = SubSeq(scopes, 1, Len(scopes) - 1)
  /\ Continue(<<>>)
  /\ UNCHANGED <<ast, status, types, context, functions, tree>>

Evaluate(n) == <<Do("expr", ast[n].kids[1])>>

DeclarationValue ==
  /\ At("stmt", {"decl"})
  /\ Continue(Evaluate(work[1].node) \o <<Do("declare", work[1].node)>>)
  /\ UNCHANGED <<ast, status, types, scopes, context, functions, tree>>

Redeclares == scopes[Len(scopes)][nd.name] # NoEntry

(* insert_variable in the innermost scope, then the first usage. *)
Declare ==
  /\ At("declare", {"decl"})
  /\ types[1] = nd.type /\ ~Redeclares
  /\ LET e == Touch(NewEntry(nd.type, work[1].node))
     IN  /\ scopes' = [scopes EXCEPT ![Len(scopes)][nd.name] = e]
         /\ isShared' = [isShared EXCEPT ![work[1].node] = Mark(e)]
  /\ Pop(1) /\ Continue(<<>>)
  /\ UNCHANGED <<ast, status, context, functions, identType, captured, bound>>

DeclareFails ==
  /\ At("declare", {"decl"})
  /\ types[1] # nd.type \/ Redeclares
  /\ Fail

(* A variant that leaves the declaration unmarked (LockedUpdateHasMutex). *)
UpdateOnly ==
  /\ At("stmt", {"update"})
  /\ \E l \in DOMAIN scopes :
       /\ Binds(l, nd.name)
       /\ LET e == Touch(scopes[l][nd.name])
          IN  /\ scopes' = [scopes EXCEPT ![l][nd.name] = e]
              /\ isShared' = [isShared EXCEPT ![work[1].node] = Mark(e)]
              /\ bound' = [bound EXCEPT ![work[1].node] = e.decl]
  /\ Continue(IF nd.kids = <<>> THEN <<>>
              ELSE Evaluate(work[1].node) \o <<Do("store", work[1].node)>>)
  /\ UNCHANGED <<ast, status, types, context, functions, identType, captured>>

(* NODE_VAR_UPDATE marks the update and the declaration before the value   *)
(* is analyzed.                                                            *)
Update ==
  /\ At("stmt", {"update"})
  /\ \E l \in DOMAIN scopes :
       /\ Binds(l, nd.name)
       /\ LET e == Touch(scopes[l][nd.name])
          IN  /\ scopes' = [scopes EXCEPT ![l][nd.name] = e]
              /\ isShared' = [n \in DOMAIN isShared |->
                                IF n \in {work[1].node, e.decl} THEN Mark(e)
                                ELSE isShared[n]]
              /\ bound' = [bound EXCEPT ![work[1].node] = e.decl]
  /\ Continue(IF nd.kids = <<>> THEN <<>>
              ELSE Evaluate(work[1].node) \o <<Do("store", work[1].node)>>)
  /\ UNCHANGED <<ast, status, types, context, functions, identType, captured>>

UpdateFails == At("stmt", {"update"}) /\ Undeclared(nd.name) /\ Fail

Store ==
  /\ At("store", {"update"})
  /\ \E l \in DOMAIN scopes :
       Binds(l, nd.name) /\ types[1] = scopes[l][nd.name].type
  /\ Pop(1) /\ Continue(<<>>)
  /\ UNCHANGED <<ast, status, scopes, context, functions, tree>>

StoreFails ==
  /\ At("store", {"update"})
  /\ \E l \in DOMAIN scopes :
       Binds(l, nd.name) /\ types[1] # scopes[l][nd.name].type
  /\ Fail

IfStatement ==
  /\ At("stmt", {"if"})
  /\ Continue(Evaluate(work[1].node) \o <<Do("test", work[1].node)>>
                \o Each("stmt", Tail(nd.kids)))
  /\ UNCHANGED <<ast, status, types, scopes, context, functions, tree>>

(* A variant that skips the updater (AnnotationsWritten). *)
ForLoopNoUpdater ==
  /\ At("stmt", {"for"})
  /\ Continue(<<Do("stmt", nd.kids[1]), Do("expr", nd.kids[2]),
                Do("test", work[1].node),
                IF nd.par = "thread" THEN Do("loop", work[1].node)
                ELSE Do("stmt", nd.kids[4])>>)
  /\ UNCHANGED <<ast, status, types, scopes, context, functions, tree>>

(* The initializer opens no scope of its own. *)
ForLoop ==
  /\ At("stmt", {"for"})
  /\ Continue(<<Do("stmt", nd.kids[1]), Do("expr", nd.kids[2]),
                Do("test", work[1].node), Do("stmt", nd.kids[3]),
                IF nd.par = "thread" THEN Do("loop", work[1].node)
                ELSE Do("stmt", nd.kids[4])>>)
  /\ UNCHANGED <<ast, status, types, scopes, context, functions, tree>>

(* The condition of an if or a for must be an int. *)
Test ==
  /\ At("test", {"if", "for"}) /\ types[1] = "int"
  /\ Pop(1) /\ Continue(<<>>)
  /\ UNCHANGED <<ast, status, scopes, context, functions, tree>>

TestFails == At("test", {"if", "for"}) /\ types[1] # "int" /\ Fail

(* A variant that stays in the context of the loop (LoopsProtected).        *)
ThreadedBodyInside ==
  /\ At("loop", {"for"})
  /\ curLoop' = work[1].node
  /\ Continue(<<Do("stmt", nd.kids[4]), Restore("endLoop", work[1].node)>>)
  /\ UNCHANGED <<ast, status, types, scopes, curThread, nextThread, functions, tree>>

(* The body of a threaded loop is one context, however many threads run it. *)
ThreadedBody ==
  /\ At("loop", {"for"})
  /\ NewContext /\ curLoop' = work[1].node
  /\ Continue(<<Do("stmt", nd.kids[4]), Restore("endLoop", work[1].node)>>)
  /\ UNCHANGED <<ast, status, types, scopes, functions, tree>>

(* Variants that forget the saved loop: the outer one resumes with none    *)
(* (OuterReadsCaptured), or the inner one stays current (Balanced).        *)
EndLoopToNone ==
  /\ At("endLoop", {"for"})
  /\ curThread' = work[1].thread /\ curLoop' = 0
  /\ Continue(<<>>)
  /\ UNCHANGED <<ast, status, types, scopes, nextThread, functions, tree>>

EndLoopKept ==
  /\ At("endLoop", {"for"})
  /\ curThread' = work[1].thread
  /\ Continue(<<>>)
  /\ UNCHANGED <<ast, status, types, scopes, nextThread, curLoop, functions, tree>>

EndLoop ==
  /\ At("endLoop", {"for"})
  /\ curThread' = work[1].thread /\ curLoop' = work[1].loop
  /\ Continue(<<>>)
  /\ UNCHANGED <<ast, status, types, scopes, nextThread, functions, tree>>

ThreadBlock ==
  /\ At("stmt", {"thread"})
  /\ NewContext
  /\ Continue(Each("stmt", nd.kids) \o <<Restore("endContext", work[1].node)>>)
  /\ UNCHANGED <<ast, status, types, scopes, curLoop, functions, tree>>

(* A variant that forgets to restore current_thread_id (ContextsNest). *)
EndContextKept ==
  /\ At("endContext", {"thread", "call"})
  /\ Continue(<<>>)
  /\ UNCHANGED <<ast, status, types, scopes, context, functions, tree>>

EndContext ==
  /\ At("endContext", {"thread", "call"})
  /\ curThread' = work[1].thread
  /\ Continue(<<>>)
  /\ UNCHANGED <<ast, status, types, scopes, nextThread, curLoop, functions, tree>>

(* Statements that only evaluate their operands: print, return, await, and *)
(* a call, which when parallel also analyzes the body of the function.     *)
CallItems(n) ==
  Each("expr", ast[n].kids) \o <<Do("discard", n)>>
    \o (IF ast[n].par = "regular" THEN <<>> ELSE <<Do("launch", n)>>)

Operands ==
  /\ At("stmt", {"print", "return", "await", "call"})
  /\ Continue(CallItems(work[1].node))
  /\ UNCHANGED <<ast, status, types, scopes, context, functions, tree>>

Discard ==
  /\ At("discard", {"print", "return", "await", "call"})
  /\ Pop(Len(nd.kids)) /\ Continue(<<>>)
  /\ UNCHANGED <<ast, status, scopes, context, functions, tree>>

-----------------------------------------------------------------------------
(* analyze_threaded_function_call: the callee is analyzed again, as a      *)
(* context of its own, in the scopes of the caller.                        *)

(* A variant that analyzes the callee in place, without a scope, so that   *)
(* nothing bounds a recursive call (Termination).                          *)
LaunchInPlace ==
  /\ At("launch", {"call"})
  /\ \E f \in DOMAIN ast :
       /\ Callee(f, nd.name)
       /\ Continue(Each("stmt", ast[f].kids))
  /\ UNCHANGED <<ast, status, types, scopes, context, functions, tree>>

Launch ==
  /\ At("launch", {"call"}) /\ Len(scopes) < MaxScope
  /\ \E f \in DOMAIN ast :
       /\ Callee(f, nd.name)
       /\ scopes' = Append(scopes, ParamScope(f))
       /\ Continue(Each("stmt", ast[f].kids)
                     \o <<Do("leave", f), Restore("endContext", work[1].node)>>)
  /\ NewContext
  /\ UNCHANGED <<ast, status, types, curLoop, functions, tree>>

LaunchUnknown ==
  /\ At("launch", {"call"}) /\ Unknown(nd.name)
  /\ Continue(<<>>)
  /\ UNCHANGED <<ast, status, types, scopes, context, functions, tree>>

(* enter_scope does not compare scope_top with MAX_SCOPE. *)
ScopeOverflow ==
  /\ \/ At("stmt", {"program", "block", "func"})
     \/ At("launch", {"call"}) /\ ~Unknown(nd.name)
  /\ Len(scopes) = MaxScope
  /\ status' = "overflow"
  /\ UNCHANGED <<ast, walk, scopes, context, functions, tree>>

-----------------------------------------------------------------------------
(* analyze_expression *)

Literal ==
  /\ At("expr", {"int", "string"})
  /\ Push(nd.kind) /\ Continue(<<>>)
  /\ UNCHANGED <<ast, status, scopes, context, functions, tree>>

Identifier ==
  /\ At("expr", {"ident"})
  /\ \E l \in DOMAIN scopes :
       /\ Binds(l, nd.name)
       /\ LET e == scopes[l][nd.name]
          IN  /\ scopes' = [scopes EXCEPT ![l][nd.name] = Touch(e)]
              /\ identType' = [identType EXCEPT ![work[1].node] = e.type]
              /\ bound' = [bound EXCEPT ![work[1].node] = e.decl]
              /\ captured' = IF Captures(l, nd.name)
                             THEN [captured EXCEPT ![curLoop] =
                                     Append(@, [name |-> nd.name, type |-> e.type])]
                             ELSE captured
              /\ Push(e.type)
  /\ Continue(<<>>)
  /\ UNCHANGED <<ast, status, context, functions, isShared>>

IdentifierFails == At("expr", {"ident"}) /\ Undeclared(nd.name) /\ Fail

Operator ==
  /\ At("expr", {"binop", "unary"})
  /\ Continue(Each("expr", nd.kids)
                \o <<Do(IF nd.kind = "binop" THEN "operate" ELSE "negate",
                        work[1].node)>>)
  /\ UNCHANGED <<ast, status, types, scopes, context, functions, tree>>

(* check_operators wants two ints, check_equality_operators equal types. *)
OperandsAgree ==
  IF nd.op = "equality" THEN types[1] = types[2]
  ELSE types[1] = "int" /\ types[2] = "int"

Operate ==
  /\ At("operate", {"binop"}) /\ OperandsAgree
  /\ types' = <<"int">> \o SubSeq(types, 3, Len(types))
  /\ Continue(<<>>)
  /\ UNCHANGED <<ast, status, scopes, context, functions, tree>>

OperateFails == At("operate", {"binop"}) /\ ~OperandsAgree /\ Fail

(* The operand of a unary operator is an int, and so is its value. *)
Negate ==
  /\ At("negate", {"unary"}) /\ types[1] = "int"
  /\ Continue(<<>>)
  /\ UNCHANGED <<ast, status, types, scopes, context, functions, tree>>

NegateFails == At("negate", {"unary"}) /\ types[1] # "int" /\ Fail

CallValue ==
  /\ At("expr", {"call"})
  /\ Continue(CallItems(work[1].node) \o <<Do("yield", work[1].node)>>)
  /\ UNCHANGED <<ast, status, types, scopes, context, functions, tree>>

(* Whatever the callee returns, a call is an int. *)
Yield ==
  /\ At("yield", {"call"})
  /\ Push("int") /\ Continue(<<>>)
  /\ UNCHANGED <<ast, status, scopes, context, functions, tree>>

-----------------------------------------------------------------------------
Init ==
  /\ ast \in Programs
  /\ status = "running"
  /\ work = <<Do("stmt", 1)>> /\ types = <<>>
  /\ scopes = <<>> /\ functions = <<>>
  /\ curThread = 0 /\ nextThread = 1 /\ curLoop = 0
  /\ isShared  = [n \in DOMAIN ast |-> "unset"]
  /\ identType = [n \in DOMAIN ast |-> "unset"]
  /\ captured  = [n \in DOMAIN ast |-> <<>>]
  /\ bound     = [n \in DOMAIN ast |-> -1]

Finish ==
  /\ status = "running" /\ work = <<>>
  /\ status' = "ok"
  /\ UNCHANGED <<ast, walk, scopes, context, functions, tree>>

AnalyzeNode ==
  \/ Program \/ Block \/ Function \/ FunctionFails \/ Leave
  \/ DeclarationValue \/ Declare \/ DeclareFails
  \/ Update \/ UpdateFails \/ Store \/ StoreFails
  \/ IfStatement \/ ForLoop \/ Test \/ TestFails
  \/ ThreadedBody \/ EndLoop \/ ThreadBlock \/ EndContext
  \/ Operands \/ Discard \/ Launch \/ LaunchUnknown \/ ScopeOverflow

AnalyzeExpression ==
  \/ Literal \/ Identifier \/ IdentifierFails
  \/ Operator \/ Operate \/ OperateFails \/ Negate \/ NegateFails
  \/ CallValue \/ Yield

Next == AnalyzeNode \/ AnalyzeExpression \/ Finish

(* The analyzer is the only activity of its process: it keeps running. *)
Spec == Init /\ [][Next]_vars /\ WF_vars(Next)

-----------------------------------------------------------------------------
(* Correctness *)

(* Every variable has its type: what the other properties rest on. *)
TypeOK ==
  /\ status \in {"running", "ok", "error", "overflow"}
  /\ work \in Seq(Item) /\ types \in Seq(Types)
  /\ scopes \in Seq(Scope) /\ Len(scopes) <= MaxScope
  /\ curThread \in Nat /\ nextThread \in Nat /\ curLoop \in {0} \cup DOMAIN ast
  /\ functions \in Seq(DOMAIN ast) /\ Len(functions) <= MaxFunctions
  /\ isShared \in [DOMAIN ast -> {"unset", "private", "shared"}]
  /\ identType \in [DOMAIN ast -> {"unset"} \cup Types]
  /\ captured \in [DOMAIN ast -> Seq(Params)]
  /\ bound \in [DOMAIN ast -> Nat \cup {-1}]

(* register_variable_usage: is_shared is 1 exactly when two contexts have  *)
(* touched the variable, although thread_ids[] forgets contexts once full  *)
(* and the test for two comes after the early return of a known context.   *)
SharedExactly ==
  \A l \in DOMAIN scopes : \A x \in Names :
    LET e == scopes[l][x]
    IN  e.shared <=> \E a, b \in e.users : a # b

(* Whatever is analyzed is analyzed in the context that the innermost      *)
(* thread block, thread call or threaded loop in progress began, under an  *)
(* id that no other such call has, and for the innermost threaded loop in  *)
(* progress: a call that returns restores those of the call around it, so  *)
(* no access is registered for a context that is over, and none captured   *)
(* by a loop that is.                                                      *)
Saved      == {i \in DOMAIN work : work[i].op \in {"endContext", "endLoop"}}
SavedLoops == {i \in DOMAIN work : work[i].op = "endLoop"}

(* c is v of the innermost of the calls S that work[k] and what follows    *)
(* have to end, 0 when there is none.                                      *)
Innermost(S, v, k, c) ==
  \/ c = 0 /\ \A i \in S : i < k
  \/ \E i \in S : k <= i /\ c = v[i] /\ \A j \in S : k <= j => i <= j

InContext(k, c) == Innermost(Saved, [i \in Saved |-> work[i].own], k, c)
InLoop(k, f)    == Innermost(SavedLoops, [i \in SavedLoops |-> work[i].node], k, f)

ContextsNest ==
  /\ InContext(1, curThread) /\ InLoop(1, curLoop)
  /\ \A i \in Saved : /\ InContext(i + 1, work[i].thread)
                      /\ 0 < work[i].own /\ work[i].own < nextThread
                      /\ \A j \in Saved : i < j => work[j].own < work[i].own
  /\ \A i \in SavedLoops : InLoop(i + 1, work[i].loop)

(* Each scope entered is left by the call that entered it, on every path:  *)
(* as many scopes are open as calls have one to close, and when the walk   *)
(* ends, scope_top, the context, the loop and the pending types are those  *)
(* it began with.                                                          *)
Leaves(items) == {i \in DOMAIN items : items[i].op = "leave"}

Balanced ==
  /\ Len(scopes) = Cardinality(Leaves(work))
  /\ status = "ok" => scopes = <<>> /\ types = <<>> /\ curThread = 0 /\ curLoop = 0

(* The parser leaves is_shared and identifier.type of a fresh node         *)
(* unwritten (malloc), and the code generator branches on them: in every   *)
(* accepted tree the analyzer has written all of them.                     *)
AnnotationsWritten ==
  status = "ok" =>
    \A n \in DOMAIN ast :
      /\ ast[n].kind \in {"decl", "update"} => isShared[n] # "unset"
      /\ ast[n].kind = "ident" => identType[n] # "unset"

(* An update marked shared is emitted inside lock_x, and lock_x is defined *)
(* from the mark of the declaration (where that stands at the top level of *)
(* the program: the generator defines no other, NamesResolve of Compiler): *)
(* in an accepted tree the declaration that a locked update last resolved  *)
(* to is marked too, although a body is analyzed again at every thread     *)
(* call and resets its declarations' marks.                                *)
LockedUpdateHasMutex ==
  status = "ok" =>
    \A n \in DOMAIN ast :
      ast[n].kind = "update" /\ isShared[n] = "shared" /\ bound[n] > 0
        => isShared[bound[n]] = "shared"

(* The nodes under n, n included. *)
Under(n) ==
  LET Sub[m \in DOMAIN ast] ==
        {m} \cup UNION {Sub[ast[m].kids[i]] : i \in DOMAIN ast[m].kids}
  IN  Sub[n]

ThreadedLoops == {n \in DOMAIN ast : ast[n].kind = "for" /\ ast[n].par = "thread"}
Body(f)       == Under(ast[f].kids[4])

(* A worker is a C function of its own.  Each variable that the body of a  *)
(* threaded loop reads and that is declared outside it reaches the worker: *)
(* it is the loop variable, or it is captured by the innermost threaded    *)
(* loop around the read, until captured_names[] is full.  Not the reads of *)
(* a function defined in the body, which each thread call resolves again.  *)
Owners == ThreadedLoops \cup {n \in DOMAIN ast : ast[n].kind = "func"}
Owned(n) == IF ast[n].kind = "func" THEN Under(n) ELSE Body(n)

OuterReadsCaptured ==
  status = "ok" =>
    \A f \in ThreadedLoops : \A u \in Body(f) :
      ast[u].kind = "ident" /\ bound[u] # -1 /\ bound[u] \notin Body(f)
      /\ ~(\E g \in Owners : g \in Body(f) /\ u \in Owned(g))
        => \/ ast[u].name = LoopVar(f)
           \/ \E i \in DOMAIN captured[f] : captured[f][i].name = ast[u].name
           \/ Len(captured[f]) = MaxCaptured

(* The analyzer knows that the iterations of a threaded loop share what    *)
(* surrounds them, although it books all of them on one context: in an     *)
(* accepted tree every update, in the body, of a variable declared outside *)
(* it is marked, also in the functions that are analyzed again at a thread *)
(* call.  A marked statement is emitted inside the variable's lock; a      *)
(* marked updater of a for loop is not (the generator writes it without).  *)
(* Not of parameters, whose declaration is no usage.                       *)
LoopsProtected ==
  status = "ok" =>
    \A f \in ThreadedLoops : \A u \in Body(f) :
      ast[u].kind = "update" /\ bound[u] > 0 /\ bound[u] \notin Body(f)
        => isShared[u] = "shared"

(* A name is packed once in the argument array of the workers, and the     *)
(* loop variable, which each worker defines for itself, never is.          *)
CapturedOnce ==
  \A f \in ThreadedLoops : \A i \in DOMAIN captured[f] :
    /\ captured[f][i].name # LoopVar(f)
    /\ \A j \in DOMAIN captured[f] :
         captured[f][i].name = captured[f][j].name => i = j

(* The analysis of every tree ends: a thread call of a function that calls *)
(* itself re-enters its body only as long as scopes[] lasts.               *)
Termination == <>(status # "running")

-----------------------------------------------------------------------------
(* What the documents say and the code does not do *)

(* A variable's declaration carries, when its scope closes, the mark that  *)
(* its accesses have earned ("When a variable is read or written by two or *)
(* more different thread contexts, it is automatically marked is_shared"). *)
DeclarationKnowsSharing ==
  At("leave", Kinds) =>
    \A x \in Names :
      LET e == scopes[Len(scopes)][x]
      IN  e.shared /\ e.decl # 0 => isShared[e.decl] = "shared"

(* A thread call of a recursive function is analyzed ("Functions support   *)
(* recursion"): the analyzer accepts or refuses the program.               *)
RecursionAnalyzed == status # "overflow"
===============================================================================

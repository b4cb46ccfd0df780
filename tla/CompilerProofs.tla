---------------------------- MODULE CompilerProofs ----------------------------
(***************************************************************************)
(* What the proofs about the three phases say of the compiler that runs    *)
(* them one after the other, for every text.  Each phase has an inductive  *)
(* invariant of its own; what a phase leaves is what the next one begins   *)
(* with: parse a well formed tree, semantic_analyze an annotated one.      *)
(*                                                                         *)
(* PP and AP are the parser and the analyzer once more, with their proofs. *)
(* The programs of AP are the trees that parse can return.                 *)
(***************************************************************************)
EXTENDS Compiler, EmissionProofs

Trees == {t \in Seq(Node) : WellFormed(t)}

PP == INSTANCE ParserProofs
AP == INSTANCE AnalyzerFrameProofs WITH Programs <- Trees

-----------------------------------------------------------------------------
(* The two copies of a phase have the same definitions. *)

LEMMA SameParser ==
  /\ P!Token = PP!Token
  /\ P!Init => PP!Init
  /\ P!Next => PP!Next
  /\ PP!TypeOK => P!TypeOK
  /\ PP!WellFormedTree => P!WellFormedTree
  /\ PP!NothingDropped => P!NothingDropped
<1> USE DEF
     P!StmtKinds, PP!StmtKinds, P!ExprKinds, PP!ExprKinds, P!Kinds, PP!Kinds, P!Types,
     PP!Types, P!ParallelTypes, PP!ParallelTypes, P!BinaryOps, PP!BinaryOps, P!UpdateOps,
     PP!UpdateOps, P!Params, PP!Params, P!Node, PP!Node, P!Blank, PP!Blank, P!KidsOfKind,
     PP!KidsOfKind, P!Shape, PP!Shape, P!Parents, PP!Parents, P!WellFormed, PP!WellFormed,
     P!descent, PP!descent, P!vars, PP!vars, P!TypeWords, PP!TypeWords, P!Words, PP!Words,
     P!Levels, PP!Levels, P!RuleOf, PP!RuleOf, P!Marks, PP!Marks, P!Content, PP!Content,
     P!Token, PP!Token, P!EndToken, PP!EndToken, P!Peek, PP!Peek, P!Sees, PP!Sees, P!Item,
     PP!Item, P!Enter, PP!Enter, P!Eat, PP!Eat, P!List, PP!List, P!More, PP!More, P!CallIn,
     PP!CallIn, P!Operand, PP!Operand, P!Expression, PP!Expression, P!Here, PP!Here, P!Todo,
     PP!Todo, P!At, PP!At, P!After, PP!After, P!Does, PP!Does, P!Advance, PP!Advance,
     P!Writes, PP!Writes, P!Grown, PP!Grown, P!Begins, PP!Begins, P!Allocates, PP!Allocates,
     P!Return, PP!Return, P!Fail, PP!Fail, P!Consume, PP!Consume, P!ConsumeFails,
     PP!ConsumeFails, P!Closers, PP!Closers, P!Element, PP!Element, P!ListGoesOn,
     PP!ListGoesOn, P!ListEnds, PP!ListEnds, P!Comma, PP!Comma, P!Statement, PP!Statement,
     P!Braces, PP!Braces, P!PrintStatement, PP!PrintStatement, P!IfStatement,
     PP!IfStatement, P!ElseIf, PP!ElseIf, P!ElseBlock, PP!ElseBlock, P!NoElse, PP!NoElse,
     P!ParseBlock, PP!ParseBlock, P!VarDeclaration, PP!VarDeclaration, P!TypesHere,
     PP!TypesHere, P!TypeRead, PP!TypeRead, P!TypeWord, PP!TypeWord, P!TypeMissing,
     PP!TypeMissing, P!WritesPar, PP!WritesPar, P!Value, PP!Value, P!VarUpdate,
     PP!VarUpdate, P!Assign, PP!Assign, P!AssignFails, PP!AssignFails, P!LoopParts,
     PP!LoopParts, P!ForLoop, PP!ForLoop, P!ThreadedLoop, PP!ThreadedLoop, P!ThreadBlock,
     PP!ThreadBlock, P!ThreadBody, PP!ThreadBody, P!ThreadStatement, PP!ThreadStatement,
     P!ProcessStatement, PP!ProcessStatement, P!FunctionCall, PP!FunctionCall, P!Function,
     PP!Function, P!Param, PP!Param, P!ReturnStatement, PP!ReturnStatement, P!ParseAwait,
     PP!ParseAwait, P!NameMissing, PP!NameMissing, P!StatementFails, PP!StatementFails,
     P!Operator, PP!Operator, P!NoOperator, PP!NoOperator, P!Moved, PP!Moved, P!Joined,
     PP!Joined, P!Join, PP!Join, P!Negation, PP!Negation, P!Leaf, PP!Leaf, P!Literal,
     PP!Literal, P!CallValue, PP!CallValue, P!Parenthesis, PP!Parenthesis, P!PrimaryFails,
     PP!PrimaryFails, P!Finish, PP!Finish, P!Init, PP!Init, P!Statements, PP!Statements,
     P!Expressions, PP!Expressions, P!Next, PP!Next, P!TypeOK, PP!TypeOK, P!WellFormedTree,
     PP!WellFormedTree
<1>1. P!Token = PP!Token
  BY Zenon
<1>2. P!Init => PP!Init
  BY Zenon
<1>3. P!Next => PP!Next
  BY Zenon
<1>4. PP!TypeOK => P!TypeOK
  BY Zenon
<1>5. PP!WellFormedTree => P!WellFormedTree
  BY Zenon
<1>6. PP!NothingDropped => P!NothingDropped
  BY Zenon DEF P!NothingDropped, PP!NothingDropped, P!Own, PP!Own, P!OfToken, PP!OfToken,
     P!S!FlattenSeq, PP!S!FlattenSeq
<1> QED
  BY <1>1, <1>2, <1>3, <1>4, <1>5, <1>6

Analyzed ==
  /\ A!TypeOK /\ A!SharedExactly /\ A!ContextsNest /\ A!CapturedOnce /\ A!Balanced
  /\ A!AnnotationsWritten /\ A!OuterReadsCaptured /\ A!LoopsProtected
  /\ A!LockedUpdateHasMutex

LEMMA SameAnalyzer ==
  /\ A!Next => AP!Next
  /\ AP!TypeOK => A!TypeOK
  /\ AP!SharedExactly => A!SharedExactly
  /\ AP!ContextsNest => A!ContextsNest
  /\ AP!CapturedOnce => A!CapturedOnce
  /\ AP!Balanced => A!Balanced
  /\ AP!AnnotationsWritten => A!AnnotationsWritten
  /\ AP!OuterReadsCaptured => A!OuterReadsCaptured
  /\ AP!LoopsProtected => A!LoopsProtected
  /\ AP!LockedUpdateHasMutex => A!LockedUpdateHasMutex
<1> USE DEF
     A!StmtKinds, AP!StmtKinds, A!ExprKinds, AP!ExprKinds, A!Kinds, AP!Kinds, A!Types,
     AP!Types, A!ParallelTypes, AP!ParallelTypes, A!BinaryOps, AP!BinaryOps, A!UpdateOps,
     AP!UpdateOps, A!Params, AP!Params, A!Node, AP!Node, A!Blank, AP!Blank, A!KidsOfKind,
     AP!KidsOfKind, A!Shape, AP!Shape, A!Parents, AP!Parents, A!WellFormed, AP!WellFormed,
     A!tree, AP!tree, A!walk, AP!walk, A!context, AP!context, A!vars, AP!vars, A!Entry,
     AP!Entry, A!NoEntry, AP!NoEntry, A!NewEntry, AP!NewEntry, A!Scope, AP!Scope,
     A!EmptyScope, AP!EmptyScope, A!Binds, AP!Binds, A!Undeclared, AP!Undeclared,
     A!Recorded, AP!Recorded, A!Touch, AP!Touch, A!Mark, AP!Mark, A!ParamScope,
     AP!ParamScope, A!DuplicateParams, AP!DuplicateParams, A!LoopVar, AP!LoopVar,
     A!Captures, AP!Captures, A!Callee, AP!Callee, A!Unknown, AP!Unknown, A!Ops, AP!Ops,
     A!Item, AP!Item, A!Do, AP!Do, A!Each, AP!Each, A!Restore, AP!Restore, A!nd, AP!nd,
     A!At, AP!At, A!Continue, AP!Continue, A!Push, AP!Push, A!Pop, AP!Pop, A!Fail, AP!Fail,
     A!NewContext, AP!NewContext, A!Program, AP!Program, A!Block, AP!Block, A!Function,
     AP!Function, A!FunctionFails, AP!FunctionFails, A!Leave, AP!Leave, A!Evaluate,
     AP!Evaluate, A!DeclarationValue, AP!DeclarationValue, A!Redeclares, AP!Redeclares,
     A!Declare, AP!Declare, A!DeclareFails, AP!DeclareFails, A!Update, AP!Update,
     A!UpdateFails, AP!UpdateFails, A!Store, AP!Store, A!StoreFails, AP!StoreFails,
     A!IfStatement, AP!IfStatement, A!ForLoop, AP!ForLoop, A!Test, AP!Test, A!TestFails,
     AP!TestFails, A!ThreadedBody, AP!ThreadedBody, A!EndLoop, AP!EndLoop, A!ThreadBlock,
     AP!ThreadBlock, A!EndContext, AP!EndContext, A!CallItems, AP!CallItems, A!Operands,
     AP!Operands, A!Discard, AP!Discard, A!Launch, AP!Launch, A!LaunchUnknown,
     AP!LaunchUnknown, A!ScopeOverflow, AP!ScopeOverflow, A!Literal, AP!Literal,
     A!Identifier, AP!Identifier, A!IdentifierFails, AP!IdentifierFails, A!Operator,
     AP!Operator, A!OperandsAgree, AP!OperandsAgree, A!Operate, AP!Operate, A!OperateFails,
     AP!OperateFails, A!Negate, AP!Negate, A!NegateFails, AP!NegateFails, A!CallValue,
     AP!CallValue, A!Yield, AP!Yield, A!Init, AP!Init, A!Finish, AP!Finish, A!AnalyzeNode,
     AP!AnalyzeNode, A!AnalyzeExpression, AP!AnalyzeExpression, A!Next, AP!Next, A!TypeOK,
     AP!TypeOK, A!SharedExactly, AP!SharedExactly, A!Saved, AP!Saved,
     A!SavedLoops, AP!SavedLoops, A!Innermost, AP!Innermost, A!InContext, AP!InContext,
     A!InLoop, AP!InLoop, A!ContextsNest, AP!ContextsNest, A!Leaves, AP!Leaves, A!Balanced, AP!Balanced, A!AnnotationsWritten,
     AP!AnnotationsWritten, A!LockedUpdateHasMutex, AP!LockedUpdateHasMutex, A!Under,
     AP!Under, A!ThreadedLoops, AP!ThreadedLoops, A!Body, AP!Body, A!Owners, AP!Owners,
     A!Owned, AP!Owned, A!OuterReadsCaptured, AP!OuterReadsCaptured, A!LoopsProtected,
     AP!LoopsProtected, A!CapturedOnce, AP!CapturedOnce
<1>1. A!Next => AP!Next
  BY Zenon
<1>2. AP!TypeOK => A!TypeOK
  BY Zenon
<1>3. AP!SharedExactly => A!SharedExactly
  BY Zenon
<1>4. AP!ContextsNest => A!ContextsNest
  BY Zenon
<1>5. AP!CapturedOnce => A!CapturedOnce
  BY Zenon
<1>6. AP!Balanced => A!Balanced
  BY Zenon DEF A!Cardinality, AP!Cardinality
<1>7. AP!AnnotationsWritten => A!AnnotationsWritten
  BY Zenon
<1>8. AP!OuterReadsCaptured => A!OuterReadsCaptured
  BY Zenon
<1>9. AP!LoopsProtected => A!LoopsProtected
  BY Zenon
<1>10. AP!LockedUpdateHasMutex => A!LockedUpdateHasMutex
  BY Zenon
<1> QED
  BY <1>1, <1>2, <1>3, <1>4, <1>5, <1>6, <1>7, <1>8, <1>9, <1>10

-----------------------------------------------------------------------------
(* The phases apart *)

LEMMA TreesWellFormed ==
  /\ \A t : WellFormed(t) <=> AP!WellFormed(t)
  /\ \A t : WellFormed(t) <=> P!WellFormed(t)
  /\ \A t : WellFormed(t) => t \in Trees
<1> USE DEF WellFormed, Shape, KidsOfKind, Parents, Node, Params, Kinds, StmtKinds, ExprKinds,
            Types, ParallelTypes, BinaryOps, UpdateOps
<1>1. \A t : WellFormed(t) <=> AP!WellFormed(t)
  BY Zenon DEF AP!WellFormed, AP!Shape, AP!KidsOfKind, AP!Parents, AP!Node, AP!Params,
     AP!Kinds, AP!StmtKinds, AP!ExprKinds, AP!Types, AP!ParallelTypes, AP!BinaryOps,
     AP!UpdateOps
<1>2. \A t : WellFormed(t) <=> P!WellFormed(t)
  BY Zenon DEF P!WellFormed, P!Shape, P!KidsOfKind, P!Parents, P!Node, P!Params,
     P!Kinds, P!StmtKinds, P!ExprKinds, P!Types, P!ParallelTypes, P!BinaryOps, P!UpdateOps
<1>3. \A t : WellFormed(t) => t \in Trees
  BY Zenon DEF Trees
<1> QED
  BY <1>1, <1>2, <1>3

LEMMA AnalyzerAssumptions ==
  /\ \A p \in Trees : AP!WellFormed(p)
  /\ MaxScope \in Nat \ {0} /\ MaxThreadIds \in Nat \ {0, 1}
  /\ MaxFunctions \in Nat \ {0} /\ MaxCaptured \in Nat \ {0}
<1>1. \A p \in Trees : AP!WellFormed(p)
  BY TreesWellFormed DEF Trees
<1> QED
  BY <1>1, CompilerAssumption

LEMMA AnalysisStarts == AP!Init => AP!AnalyzerInv
BY AP!AnalyzerStarts, AnalyzerAssumptions

LEMMA AnalysisSteps == AP!AnalyzerInv /\ [AP!Next]_(AP!vars) => (AP!AnalyzerInv)'
BY AP!AnalyzerSteps, AnalyzerAssumptions

LEMMA AnalysisEnsures ==
  AP!AnalyzerInv => Analyzed /\ Input
<1> SUFFICES ASSUME AP!AnalyzerInv PROVE Analyzed /\ Input
  OBVIOUS
<1>1. /\ AP!Annotated(ast, isShared, captured, MaxCaptured)
      /\ AP!TypeOK /\ AP!SharedExactly /\ AP!ContextsNest /\ AP!CapturedOnce /\ AP!Balanced
      /\ AP!AnnotationsWritten /\ AP!OuterReadsCaptured /\ AP!LoopsProtected
      /\ AP!LockedUpdateHasMutex
  BY AP!AnalyzerEnsures, AnalyzerAssumptions
<1>2. Analyzed
  BY <1>1, SameAnalyzer DEF Analyzed
<1>3. AP!WellFormed(ast) <=> WellFormed(ast)
  BY TreesWellFormed
<1>4. Input
  BY <1>1, <1>3 DEF Input, Annotated, AP!Annotated, Params, Types, AP!Params, AP!Types
<1> QED
  BY <1>2, <1>4

LEMMA ReadingSteps == P!Next => phase = "reading"
BY DEF
   P!Return, P!Fail, P!Consume, P!ConsumeFails, P!ListGoesOn, P!ListEnds, P!Comma,
   P!Statement, P!PrintStatement, P!IfStatement, P!ElseIf, P!ElseBlock, P!NoElse,
   P!ParseBlock, P!VarDeclaration, P!TypeWord, P!TypeMissing, P!Value, P!VarUpdate,
   P!Assign, P!AssignFails, P!ForLoop, P!ThreadedLoop, P!ThreadBlock, P!ThreadBody,
   P!ThreadStatement, P!ProcessStatement, P!FunctionCall, P!Function, P!Param,
   P!ReturnStatement, P!ParseAwait, P!NameMissing, P!StatementFails, P!Operator,
   P!NoOperator, P!Join, P!Negation, P!Literal, P!CallValue, P!Parenthesis, P!PrimaryFails,
   P!Finish, P!Statements, P!Expressions, P!Next, P!At

LEMMA RunningSteps == A!Next => status = "running" /\ ast' = ast
BY DEF
   A!At, A!Fail, A!Program, A!Block, A!Function, A!FunctionFails, A!Leave,
   A!DeclarationValue, A!Declare, A!DeclareFails, A!Update, A!UpdateFails, A!Store,
   A!StoreFails, A!IfStatement, A!ForLoop, A!Test, A!TestFails, A!ThreadedBody, A!EndLoop,
   A!ThreadBlock, A!EndContext, A!Operands, A!Discard, A!Launch, A!LaunchUnknown,
   A!ScopeOverflow, A!Literal, A!Identifier, A!IdentifierFails, A!Operator, A!Operate,
   A!OperateFails, A!Negate, A!NegateFails, A!CallValue, A!Yield, A!Finish, A!AnalyzeNode,
   A!AnalyzeExpression, A!Next

LEMMA EmissionReads == EmitProgram => UNCHANGED input
BY DEF
   input, At, Statement, SameTables, LineText, Line, AssignIds, Global, SharedMutexes,
   Worker, WorkerMisread, EndWorker, Forward, FunctionText, Wrappers, CallWrapper,
   BlockWrapper, Main, Close, ExpressionFails, Declaration, ThreadDeclaration,
   ProcessDeclaration, Update, PrintStatement, ReturnStatement, ThreadCallStatement,
   ThreadBlock, NothingWritten, AwaitStatement, IfStatement, Else, ElseIf, ForLoop,
   LoopHead, Dispatch, Start, Finish, Passes, EmitStatement, EmitProgram

-----------------------------------------------------------------------------
(* The phases one after the other *)

AnalysisIdle ==
  /\ work = <<>> /\ types = <<>> /\ scopes = <<>> /\ functions = <<>>
  /\ curThread = 0 /\ nextThread = 1 /\ curLoop = 0

CompilerInv ==
  /\ PP!ReadInv
  /\ status = "idle" => AnalysisIdle
  /\ status # "idle" => phase = "parsed" /\ AP!AnalyzerInv
  /\ status # "ok"   => EmissionInit
  /\ status = "ok"   => EmissionInv

LEMMA EmissionStays == EmissionInit /\ UNCHANGED emission => EmissionInit'
BY DEF EmissionInit, emission, numbers, capture, output

LEMMA AnalyzerStays ==
  ASSUME UNCHANGED <<ast, analysis, marks>>
  PROVE  UNCHANGED AP!vars
BY DEF analysis, marks, AP!vars, AP!walk, AP!context, AP!tree

LEMMA ParserStays ==
  ASSUME PP!ReadInv, UNCHANGED <<parsing, ast>>
  PROVE  (PP!ReadInv)'
<1>1. UNCHANGED <<source, pos, frames, phase, ast>>
  BY DEF parsing
<1> QED
  BY <1>1, PP!SameReading

LEMMA EmissionHolds ==
  ASSUME EmissionInv, UNCHANGED <<ast, marks, emission>>
  PROVE  EmissionInv'
<1>1. UNCHANGED emissionVars
  BY DEF marks, emissionVars, input
<1> QED
  BY <1>1, EmissionSteps

(* Reading goes on only before the analysis. *)
LEMMA ParseKeeps ==
  ASSUME CompilerInv, Parse
  PROVE  CompilerInv'
<1>1. P!Next /\ UNCHANGED <<analysis, marks, emission>>
  BY DEF Parse
<1>2. phase = "reading"
  BY <1>1, ReadingSteps
<1>3. status = "idle" /\ status' = "idle"
  BY <1>1, <1>2 DEF CompilerInv, analysis
<1>4. (PP!ReadInv)'
  <2>1. PP!ReadInv /\ PP!Next /\ "-" \notin Names
    BY <1>1, SameParser, CompilerAssumption DEF CompilerInv
  <2> QED
    BY <2>1, PP!StepKeepsReading
<1>5. AnalysisIdle'
  BY <1>1, <1>3 DEF CompilerInv, AnalysisIdle, analysis
<1>6. EmissionInit'
  BY <1>1, <1>3, EmissionStays DEF CompilerInv
<1> QED
  BY <1>3, <1>4, <1>5, <1>6 DEF CompilerInv

(* The root that parse returned is one of the programs of the analyzer. *)
LEMMA StartKeepsCompiler ==
  CompilerInv /\ StartAnalysis => CompilerInv'
<1> SUFFICES ASSUME CompilerInv, StartAnalysis PROVE CompilerInv'
  OBVIOUS
<1>1. /\ phase = "parsed" /\ status = "idle" /\ status' = "running"
      /\ work' = <<A!Do("stmt", 1)>>
      /\ isShared'  = [n \in DOMAIN ast |-> "unset"]
      /\ identType' = [n \in DOMAIN ast |-> "unset"]
      /\ captured'  = [n \in DOMAIN ast |-> <<>>]
      /\ bound'     = [n \in DOMAIN ast |-> -1]
      /\ UNCHANGED <<parsing, ast, types, scopes, curThread, nextThread, functions,
                     curLoop, emission>>
  BY DEF StartAnalysis
<1>2. AnalysisIdle
  BY <1>1 DEF CompilerInv
<1>3. ast \in Trees
  <2>1. PP!WellFormedTree
    BY PP!TreeIsWellFormed DEF CompilerInv, PP!ReadInv, PP!NInv
  <2>2. P!WellFormed(ast)
    BY <1>1, <2>1, SameParser DEF P!WellFormedTree
  <2> QED
    BY <2>2, TreesWellFormed
<1>4. (AP!Init)'
  <2>1. A!Do("stmt", 1) = AP!Do("stmt", 1)
    BY DEF A!Do, AP!Do
  <2>2. /\ ast' = ast /\ types' = <<>> /\ scopes' = <<>> /\ functions' = <<>>
        /\ curThread' = 0 /\ nextThread' = 1 /\ curLoop' = 0
    BY <1>1, <1>2 DEF AnalysisIdle
  <2> QED
    BY <1>1, <1>3, <2>1, <2>2 DEF AP!Init, AP!Do
<1>5. (AP!Init)' => (AP!AnalyzerInv)'
  BY AnalysisStarts, PTL
<1>6. phase' = "parsed" /\ (PP!ReadInv)'
  BY <1>1, ParserStays DEF CompilerInv, parsing
<1>7. EmissionInit'
  BY <1>1, EmissionStays DEF CompilerInv
<1> QED
  BY <1>1, <1>4, <1>5, <1>6, <1>7 DEF CompilerInv

(* What semantic_analyze leaves is what emit_program can be called on. *)
LEMMA AnalyzeKeeps ==
  CompilerInv /\ Analyze => CompilerInv'
<1>1. (AP!AnalyzerInv)' => Input'
  BY AnalysisEnsures, PTL
<1>2. EmissionInit' /\ Input' => EmissionInv'
  BY EmissionStarts, PTL
<1> SUFFICES ASSUME CompilerInv, Analyze PROVE CompilerInv'
  OBVIOUS
<1>3. A!Next /\ UNCHANGED <<parsing, emission>>
  BY DEF Analyze
<1>4. status = "running" /\ ast' = ast
  BY <1>3, RunningSteps
<1>5. phase = "parsed" /\ phase' = "parsed" /\ AP!AnalyzerInv /\ EmissionInit /\ PP!ReadInv
  BY <1>3, <1>4 DEF CompilerInv, parsing
<1>6. (AP!AnalyzerInv)'
  <2>1. AP!Next
    BY <1>3, SameAnalyzer
  <2> QED
    BY <1>5, <2>1, AnalysisSteps
<1>7. (PP!ReadInv)' /\ EmissionInit'
  BY <1>3, <1>4, <1>5, ParserStays, EmissionStays
<1>8. status' # "idle"
  <2>1. (AP!AnalyzerInv)' => (A!TypeOK)'
    BY AnalysisEnsures, PTL DEF Analyzed
  <2> QED
    BY <1>6, <2>1 DEF A!TypeOK
<1> QED
  BY <1>1, <1>2, <1>5, <1>6, <1>7, <1>8 DEF CompilerInv

LEMMA EmitKeeps ==
  ASSUME CompilerInv, Emit
  PROVE  CompilerInv'
<1>1. /\ status = "ok" /\ EmitProgram /\ UNCHANGED <<parsing, analysis, identType>>
      /\ UNCHANGED input
  BY EmissionReads DEF Emit
<1>2. UNCHANGED <<ast, analysis, marks>> /\ status' = "ok" /\ phase' = phase
  BY <1>1 DEF input, marks, analysis, parsing
<1>3. phase = "parsed" /\ AP!AnalyzerInv /\ EmissionInv /\ PP!ReadInv
  BY <1>1 DEF CompilerInv
<1>4. (PP!ReadInv)'
  BY <1>1, <1>2, <1>3, ParserStays
<1>5. (AP!AnalyzerInv)'
  BY <1>2, <1>3, AnalyzerStays, AnalysisSteps
<1>6. EmissionInv'
  BY <1>1, <1>3, EmissionSteps
<1> QED
  BY <1>2, <1>3, <1>4, <1>5, <1>6 DEF CompilerInv

LEMMA CompilerStarts == Init => CompilerInv
<1> SUFFICES ASSUME Init PROVE CompilerInv
  OBVIOUS
<1>1. Sources \subseteq Seq(PP!Token) /\ PP!Init
  BY CompilerAssumption, SameParser DEF Init
<1>2. PP!ReadInv
  BY <1>1, PP!InitKeepsReading
<1> QED
  BY <1>2 DEF Init, CompilerInv, AnalysisIdle

LEMMA CompilerInvariant == Spec => []CompilerInv
<1>1. CompilerInv /\ UNCHANGED vars => CompilerInv'
  <2> SUFFICES ASSUME CompilerInv, UNCHANGED vars PROVE CompilerInv'
    OBVIOUS
  <2>1. UNCHANGED <<parsing, ast, analysis, marks, emission>>
    BY DEF vars
  <2>2. UNCHANGED <<status, phase>> /\ (AnalysisIdle <=> AnalysisIdle')
    BY <2>1 DEF analysis, parsing, AnalysisIdle
  <2>3. (PP!ReadInv)'
    BY <2>1, ParserStays DEF CompilerInv
  <2>4. AP!AnalyzerInv => (AP!AnalyzerInv)'
    BY <2>1, AnalyzerStays, AnalysisSteps
  <2>5. (EmissionInit => EmissionInit') /\ (EmissionInv => EmissionInv')
    BY <2>1, EmissionStays, EmissionHolds
  <2> QED
    BY <2>2, <2>3, <2>4, <2>5 DEF CompilerInv
<1>2. CompilerInv /\ [Next]_vars => CompilerInv'
  BY <1>1, ParseKeeps, StartKeepsCompiler, AnalyzeKeeps, EmitKeeps DEF Next
<1> QED
  BY <1>2, CompilerStarts, PTL DEF Spec

-----------------------------------------------------------------------------
(* The theorems *)

(* Whatever the text, each phase works on data of the kinds that it takes  *)
(* for granted: the parser on a table of nodes, the analyzer, once it is   *)
(* called, on a tree with every table of it within its array, and          *)
(* emit_program, when it is called, on a well formed tree whose captured   *)
(* names fit the arrays that it copies them into.                          *)
THEOREM TypeOKHolds == Spec => []TypeOK
<1>1. CompilerInv => TypeOK
  <2> SUFFICES ASSUME CompilerInv PROVE TypeOK
    OBVIOUS
  <2>1. P!TypeOK
    BY PP!TypesHold, SameParser DEF CompilerInv, PP!ReadInv, PP!NInv
  <2>2. status # "idle" => A!TypeOK /\ Input
    BY AnalysisEnsures DEF CompilerInv, Analyzed
  <2>3. EmissionTypeOK
    <3>1. CASE status = "ok"
      BY <3>1 DEF CompilerInv, EmissionInv
    <3>2. CASE status # "ok"
      BY <3>2, TablesAssumption DEF CompilerInv, EmissionInit, EmissionTypeOK
    <3> QED
      BY <3>1, <3>2
  <2> QED
    BY <2>1, <2>2, <2>3 DEF TypeOK
<1> QED
  BY <1>1, CompilerInvariant, PTL

(* The tree that main hands to semantic_analyze is well formed, whatever   *)
(* the program text.                                                       *)
THEOREM WellFormedTreeHolds == Spec => []WellFormedTree
<1>1. CompilerInv => WellFormedTree
  BY PP!TreeIsWellFormed, SameParser DEF CompilerInv, PP!ReadInv, PP!NInv, WellFormedTree
<1> QED
  BY <1>1, CompilerInvariant, PTL

(* And it holds the text: each name, number and string of the program is   *)
(* in one node, in the order in which they are written, and none is made   *)
(* up.  That is all of the text, unless a token that the lexer took for    *)
(* illegal stands where a statement of the program would begin: what       *)
(* parse leaves unread begins with that token.                             *)
THEOREM NothingDroppedHolds == Spec => []NothingDropped
<1>1. CompilerInv => NothingDropped
  BY PP!WholeText, SameParser DEF CompilerInv, NothingDropped
<1> QED
  BY <1>1, CompilerInvariant, PTL

(* Of every program text without else-if and without units inside thread   *)
(* blocks or functions inside functions, if it is compiled at all, each    *)
(* statement that has a text is written exactly once, and each parallel    *)
(* call gets one wrapper: no assumption on the tree is left.               *)
THEOREM EachWrittenOnceCompiled == Spec => []EachWrittenOnce
<1>1. CompilerInv => EachWrittenOnce
  <2>1. EmissionInit => EachWrittenOnce
    BY DEF EmissionInit, EachWrittenOnce
  <2> QED
    BY <2>1, AllWrittenOnce DEF CompilerInv
<1> QED
  BY <1>1, CompilerInvariant, PTL

(* From the call of semantic_analyze on, what is proved of the analyzer is *)
(* true of it in the compiler, while it runs and while its tree is         *)
(* emitted: no later phase touches what it has left.                       *)
THEOREM AnalyzedHolds == Spec => [](status # "idle" => Analyzed)
<1>1. CompilerInv => (status # "idle" => Analyzed)
  BY AnalysisEnsures DEF CompilerInv
<1> QED
  BY <1>1, CompilerInvariant, PTL
===============================================================================

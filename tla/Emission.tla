------------------------------- MODULE Emission -------------------------------
(***************************************************************************)
(* emit_program(): the walks over the annotated tree that number the       *)
(* parallel units, fill the tables of captured and process variables, and  *)
(* write the C program.                                                    *)
(*                                                                         *)
(* The text itself is not kept.  `text' is what a C compiler has in mind   *)
(* when it has read the text so far: the names in scope, each with the     *)
(* node of the source it stands for, and the errors found.  `todo' is the  *)
(* call stack of the walk, the next item first.                            *)
(***************************************************************************)
EXTENDS FluCsAst, FiniteSets

CONSTANTS
  MaxCaptured,      \* MAX_CAPTURED
  MaxProcessVars    \* MAX_PROCESS_VARS

ASSUME TablesAssumption == MaxCaptured \in Nat /\ MaxProcessVars \in Nat

VARIABLES
  ast, isShared, captured, bound,   \* the tree, as the analyzer leaves it
  gen,        \* "idle", "running", "done", "error": exit(1), "undefined"
  todo,       \* the call stack of the walk, the next item first
  wrapperOf,  \* wrapper_id of each node
  processOf,  \* process_id of each node
  processVars,\* process_var_names[0 .. process_var_count-1]
  names,      \* captured_names[], entries beyond captured_count included
  count,      \* captured_count
  saved,      \* saved_captured_count
  nextWorker, \* threaded_worker_counter
  workerOf,   \* worker_id of each for node, 0 until its worker is written
  text,       \* the C compiler's view of the text: env and errors
  emitted,    \* how often each statement has been written
  invoked     \* how often a wrapper has been written that makes the call

input   == <<ast, isShared, captured, bound>>
numbers == <<wrapperOf, processOf, processVars>>
capture == <<names, count, saved>>
output  == <<text, emitted, invoked>>
emission == <<gen, todo, numbers, capture, nextWorker, workerOf, output>>
emissionVars == <<input, emission>>

-----------------------------------------------------------------------------
(* The C compiler's view.  A name of the text is a family and a source     *)
(* name or a number: <<"var", x>>, <<"lock", x>>, <<"call", 1>>, ...       *)

Id(family, x)     == <<family, x>>
Entry(family, x, decl) == [id |-> <<family, x>>, decl |-> decl]

(* A use of a name, which must stand for one of the nodes in of, if any. *)
Use(family, x, of) == [id |-> <<family, x>>, of |-> of]

Faults(env, u) ==
  LET at == {l \in DOMAIN env : \E e \in env[l] : e.id = u.id}
      inner == CHOOSE l \in at : \A m \in at : m <= l
  IN  IF at = {} THEN {<<"undeclared", u.id[1]>>}
      ELSE IF u.of = {} \/ \E e \in env[inner] : e.id = u.id /\ e.decl \in u.of
      THEN {} ELSE {<<"misbound", u.id[1]>>}

Refer(t, uses) ==
  [t EXCEPT !.errors = @ \cup UNION {Faults(t.env, u) : u \in uses}]

Define(t, entries) ==
  LET top == Len(t.env)
      twice == {e \in entries : \E d \in t.env[top] : d.id = e.id}
  IN  [env    |-> [t.env EXCEPT ![top] = @ \cup entries],
       errors |-> t.errors \cup {<<"redeclared", e.id[1]>> : e \in twice}]

(* A declaration that C lets a program repeat. *)
Announce(t, entries) == [t EXCEPT !.env[Len(t.env)] = @ \cup entries]

Open(t, entries) == [t EXCEPT !.env = Append(@, entries)]
Shut(t)          == [t EXCEPT !.env = SubSeq(@, 1, Len(@) - 1)]
Reject(t, why)   == [t EXCEPT !.errors = @ \cup {<<why, "text">>}]

-----------------------------------------------------------------------------
(* The tree *)

Nodes == DOMAIN ast
Kid(n, i)  == ast[n].kids[i]
Elements(s) == {s[i] : i \in DOMAIN s}

Under(n) ==
  LET Sub[m \in DOMAIN ast] == {m} \cup UNION {Sub[k] : k \in Elements(ast[m].kids)}
  IN  Sub[n]

(* A variant that forgets the else branch, against MadeNamesResolve.       *)
BelowThen(pass, n) ==
  LET kids == ast[n].kids
  IN  CASE ast[n].kind \in {"program", "block"} -> kids
        [] ast[n].kind = "func" /\ pass # "locks" -> kids
        [] ast[n].kind = "if"   /\ pass # "locks" -> <<kids[2]>>
        [] ast[n].kind = "for"  /\ pass # "locks" ->
             IF pass = "assign" THEN <<kids[1], kids[4]>> ELSE <<kids[4]>>
        [] ast[n].kind = "thread" /\ pass = "assign" -> kids
        [] OTHER -> <<>>

(* Where each walk descends, and the nodes it meets. *)
Below(pass, n) ==
  LET kids == ast[n].kids
  IN  CASE ast[n].kind \in {"program", "block"} -> kids
        [] ast[n].kind = "func" /\ pass # "locks" -> kids
        [] ast[n].kind = "if"   /\ pass # "locks" -> Tail(kids)
        [] ast[n].kind = "for"  /\ pass # "locks" ->
             IF pass = "assign" THEN <<kids[1], kids[4]>> ELSE <<kids[4]>>
        [] ast[n].kind = "thread" /\ pass = "assign" -> kids
        [] OTHER -> <<>>

Met(pass) ==
  LET From[n \in DOMAIN ast] ==
        {n} \cup UNION {From[k] : k \in Elements(Below(pass, n))}
  IN  From[1]

(* A walk meets its nodes in the order of the text, which is that of the   *)
(* table: the place of a node among those of a set, and the set so ordered. *)
Place(set, n) == Cardinality({m \in set : m <= n})
InOrder(set)  == [i \in 1 .. Cardinality(set) |-> CHOOSE n \in set : Place(set, n) = i]

Marked(n)      == ast[n].kind = "decl" /\ isShared[n] = "shared"
ThreadUnit(n)  == \/ ast[n].kind \in {"decl", "call"} /\ ast[n].par = "thread"
                  \/ ast[n].kind = "thread"
ProcessVar(n)  == ast[n].kind = "decl" /\ ast[n].par = "process"
ThreadedLoop(n) == ast[n].kind = "for" /\ ast[n].par = "thread"
Regular(n)     == ast[n].kind = "decl" /\ ast[n].par = "regular"

Top == ast[1].kids
TopLevel(chosen) == InOrder(Elements(Top) \cap chosen)
Functions == {n \in Elements(Top) : ast[n].kind = "func"}

(* find_function_return_type: the first of that name at the top level. *)
FirstNamed(f) == {n \in Functions : /\ ast[n].name = f
                                    /\ \A m \in Functions : ast[m].name = f => n <= m}
ReturnsVoid(f) == \A n \in FirstNamed(f) : ast[n].type = "void"
Untyped(f)     == \E n \in FirstNamed(f) : ast[n].type = "other"

-----------------------------------------------------------------------------
(* Expressions *)

(* is_captured_var: a search by name. *)
IsCaptured(x) == \E i \in 1 .. count : names[i] = x

UseOf(x, of) == IF IsCaptured(x) THEN Use("_", x, {}) ELSE Use("var", x, of)

Calls(f) == Use("var", f, {n \in Functions : ast[n].name = f})

(* emit_expression and emit_operand: the names an expression uses. *)
Uses(e) ==
  {UseOf(ast[u].name, {bound[u]}) : u \in {u \in Under(e) : ast[u].kind = "ident"}}
    \cup {Calls(ast[u].name) : u \in {u \in Under(e) : ast[u].kind = "call"}}

UsesOf(es) == UNION {Uses(e) : e \in es}

(* Neither writes a `!', and emit_operand writes no call. *)
Emittable(e) ==
  LET Fine[m \in DOMAIN ast] ==
        CASE ast[m].kind = "unary" -> FALSE
          [] ast[m].kind = "binop" ->
               \A u \in Under(m) : ast[u].kind \notin {"unary", "call"}
          [] OTHER -> \A k \in Elements(ast[m].kids) : Fine[k]
  IN  Fine[e]

(* A call whose unwritten type says thread or process is written as        *)
(* statements or not at all; a string in an operation loses its quotes.    *)
Garbled(e) ==
  \E u \in Under(e) :
    \/ ast[u].kind = "call" /\ ast[u].par # "regular"
    \/ ast[u].kind = "binop" /\ \E k \in Elements(ast[u].kids) : ast[k].kind = "string"

Checked(t, es) == IF \E e \in es : Garbled(e) THEN Reject(t, "garbled") ELSE t

(* The expressions a statement has written where it stands. *)
Expressions(n) ==
  LET kids == Elements(ast[n].kids)
  IN  CASE ast[n].kind \in {"update", "return"} -> kids
        [] ast[n].kind = "if" -> {Kid(n, 1)}
        [] ast[n].kind = "decl" ->
             IF Regular(n) THEN kids ELSE Elements(ast[Kid(n, 1)].kids)
        [] ast[n].kind = "call" /\ ast[n].par = "thread" -> kids
        [] ast[n].kind = "for" /\ ~ThreadedLoop(n) ->
             {Kid(n, 2)} \cup Elements(ast[Kid(n, 3)].kids)
        [] OTHER -> {}

-----------------------------------------------------------------------------
(* The walk *)

Do(op, n)    == [op |-> op, node |-> n]
Each(op, ns) == [i \in DOMAIN ns |-> Do(op, ns[i])]
Inside(n)    == Each("stmt", ast[n].kids) \o <<Do("close", n)>>

this == todo[1].node

At(op) == gen = "running" /\ todo # <<>> /\ todo[1].op = op

Statement(kinds) ==
  /\ At("stmt") /\ ast[this].kind \in kinds
  /\ \A e \in Expressions(this) : Emittable(e)

Continue(items) == todo' = items \o Tail(todo)
Writes(t)       == text' = t
Once(n)         == emitted' = [emitted EXCEPT ![n] = @ + 1]
SameTables      == UNCHANGED <<input, gen, numbers, capture, nextWorker, workerOf>>

(* A statement of one line: what it uses, defines and uses again. *)
LineText(before, defines, after) ==
  /\ Writes(Refer(Define(Refer(Checked(text, Expressions(this)), before), defines), after))
  /\ Once(this) /\ Continue(<<>>)
  /\ UNCHANGED invoked

Line(before, defines, after) == LineText(before, defines, after) /\ SameTables
-----------------------------------------------------------------------------
(* The passes of emit_program, in their order *)

Numbered(chosen) ==
  LET met == Met("assign") \cap chosen
  IN  [n \in DOMAIN ast |-> IF n \in met THEN Place(met, n) ELSE 0]

AssignIds ==
  /\ At("assign")
  /\ wrapperOf' = Numbered({n \in Nodes : ThreadUnit(n)})
  /\ processOf' = Numbered({n \in Nodes : ProcessVar(n)})
  /\ LET order == InOrder({n \in Met("assign") : ProcessVar(n)})
     IN  processVars' = [i \in 1 .. (IF Len(order) < MaxProcessVars THEN Len(order)
                                     ELSE MaxProcessVars) |-> ast[order[i]].name]
  /\ Continue(Each("global", TopLevel({n \in Nodes : Regular(n) /\ Marked(n)})))
  /\ UNCHANGED <<input, gen, capture, nextWorker, workerOf, output>>

(* A shared variable of the top level: an object of the file, whose        *)
(* initial value C computes before the program runs.                       *)
Global ==
  /\ At("global") /\ Emittable(Kid(this, 1))
  /\ LET value == Kid(this, 1)
         t == Checked(text, {value})
         d == Refer(Define(t, {Entry("var", ast[this].name, this)}), Uses(value))
     IN  Writes(IF ast[value].kind \in {"int", "string"} THEN d
                ELSE Reject(d, "not constant"))
  /\ Once(this) /\ Continue(<<>>)
  /\ UNCHANGED invoked /\ SameTables

(* collect_shared_vars: the top level only. *)
SharedMutexes ==
  /\ At("locks")
  /\ Writes(Announce(text, {Entry("lock", ast[n].name, 0) :
                              n \in {n \in Met("locks") : Marked(n)}}))
  /\ Continue(Each("worker", InOrder({n \in Met("workers") : ThreadedLoop(n)})))
  /\ UNCHANGED <<emitted, invoked>> /\ SameTables

Overwritten(f) ==
  LET own == [i \in DOMAIN captured[f] |-> captured[f][i].name]
  IN  own \o SubSeq(names, Len(own) + 1, Len(names))

LoopVar(f) == ast[Kid(Kid(f, 2), 1)].name

(* The head of the worker is read off the condition and the initial value  *)
(* without looking at their kinds.                                         *)
HeadAsRead(f) ==
  LET cond == Kid(f, 2)
      left == Kid(cond, 1)
      right == Kid(cond, 2)
  IN  /\ ast[cond].kind = "binop" /\ ast[left].kind = "ident"
      /\ ast[right].kind \in {"int", "ident"}
      /\ ast[Kid(Kid(f, 1), 1)].kind = "int"

(* The names a worker function starts with; none for a captured variable's *)
(* own name, which is reached through its pointer.                         *)
WorkerNames(f) ==
  UNION {{Entry("_", captured[f][i].name, 0), Entry("_lock", captured[f][i].name, 0)} :
           i \in DOMAIN captured[f]}

(* The names in the head: the variable of the worker has the left operand's. *)
HeadVars(f) == {Kid(Kid(f, 2), i) : i \in {i \in 1 .. 2 : ast[Kid(Kid(f, 2), i)].kind = "ident"}}

Worker ==
  /\ At("worker") /\ HeadAsRead(this)
  /\ workerOf' = [workerOf EXCEPT ![this] = nextWorker]
  /\ saved' = count /\ count' = Len(captured[this]) /\ names' = Overwritten(this)
  /\ LET t == Define(text, {Entry("worker", nextWorker, this)})
         f == Open(Open(t, WorkerNames(this)),
                   {Entry("var", LoopVar(this), Kid(this, 1))})
     IN  Writes(Refer(f, {Use("var", ast[e].name, {bound[e]}) : e \in HeadVars(this)}))
  /\ Continue(Each("stmt", ast[Kid(this, 4)].kids) \o <<Do("endWorker", this)>>)
  /\ UNCHANGED <<input, gen, numbers, nextWorker, emitted, invoked>>

(* Reading a union through the wrong member is undefined: a wild pointer,  *)
(* or some other number.  The model stops there.                           *)
WorkerMisread ==
  /\ At("worker") /\ ~HeadAsRead(this)
  /\ gen' = "undefined"
  /\ UNCHANGED <<input, todo, numbers, capture, nextWorker, workerOf, output>>


EndWorker ==
  /\ At("endWorker")
  /\ count' = saved /\ nextWorker' = nextWorker + 1
  /\ Writes(Shut(Shut(text))) /\ Continue(<<>>)
  /\ UNCHANGED <<input, gen, numbers, names, saved, workerOf, emitted, invoked>>

(* emit_wrapper_forward_decls, and on to the functions of the top level. *)
Forward ==
  /\ At("forward")
  /\ LET met == Met("forward")
     IN  Writes(Announce(text,
           {Entry("call", wrapperOf[n], n) : n \in {n \in met : ThreadUnit(n)}}
             \cup {Entry("process_call", processOf[n], n) : n \in {n \in met : ProcessVar(n)}}))
  /\ Continue(Each("function", TopLevel(Functions)))
  /\ UNCHANGED <<emitted, invoked>> /\ SameTables

FunctionText ==
  /\ At("function")
  /\ LET params == Elements(ast[this].params)
         t == Open(Define(text, {Entry("var", ast[this].name, this)}),
                   {Entry("var", p.name, 0) : p \in params})
     IN  Writes(IF \E p \in params : p.type = "other" THEN Reject(t, "void") ELSE t)
  /\ Once(this) /\ Continue(Inside(this))
  /\ UNCHANGED invoked /\ SameTables

(* emit_all_thread_call_wrappers, emit_all_process_call_wrappers *)
Wrappers ==
  /\ At("wrappers")
  /\ Continue(Each("wrapper", InOrder({n \in Met("wrappers") : ThreadUnit(n)}))
                \o Each("child", InOrder({n \in Met("wrappers") : ProcessVar(n)})))
  /\ UNCHANGED output /\ SameTables

CallOf(n) == IF ast[n].kind = "decl" THEN Kid(n, 1) ELSE n

(* c_type of what is no type is void, whose value C does not let one use.  *)
VoidValue(n) ==
  LET f == ast[CallOf(n)].name
  IN  ast[n].kind = "decl" /\ (Untyped(f) \/ (ProcessVar(n) /\ ReturnsVoid(f)))

(* The wrapper of a result is empty when the function is void or unknown.  *)
CallWrapper ==
  /\ At("wrapper") \/ At("child")
  /\ ast[this].kind # "thread"
  /\ LET f == ast[CallOf(this)].name
         empty == At("wrapper") /\ ast[this].kind = "decl" /\ ReturnsVoid(f)
         t == Refer(text, {Calls(f)})
     IN  /\ Writes(IF empty THEN text
                   ELSE IF VoidValue(this) THEN Reject(t, "void") ELSE t)
         /\ invoked' = IF empty THEN invoked ELSE [invoked EXCEPT ![this] = @ + 1]
  /\ Continue(<<>>)
  /\ UNCHANGED emitted /\ SameTables

BlockWrapper ==
  /\ At("wrapper") /\ ast[this].kind = "thread"
  /\ Writes(Open(text, {})) /\ Continue(Inside(this))
  /\ invoked' = [invoked EXCEPT ![this] = @ + 1]
  /\ UNCHANGED emitted /\ SameTables

(* is_parallel_stmt *)
Parallel(n) == \/ ast[n].kind \in {"decl", "call"} /\ ast[n].par # "regular"
               \/ ast[n].kind \in {"thread", "await"}

(* A variant that does not leave out the parallel statements, against      *)
(* EachWrittenOnce.                                                        *)
RestUnfiltered(n) == ast[n].kind \notin {"func", "decl"}

Rest(n)     == ~Parallel(n) /\ ast[n].kind \notin {"func", "decl"}

(* main: the mutexes, the other variables, the parallel statements, the rest. *)
Main ==
  /\ At("main")
  /\ LET shared == {n \in Met("init") : Marked(n)}
     IN  Writes(Refer(Open(text, {}), {Use("lock", ast[n].name, {}) : n \in shared}))
  /\ Continue(Each("stmt", TopLevel({n \in Nodes : Regular(n) /\ ~Marked(n)}))
                \o Each("stmt", TopLevel({n \in Nodes : Parallel(n)}))
                \o Each("stmt", TopLevel({n \in Nodes : Rest(n)}))
                \o <<Do("close", 1)>>)
  /\ UNCHANGED <<emitted, invoked>> /\ SameTables

Close ==
  /\ At("close")
  /\ Writes(Shut(text)) /\ Continue(<<>>)
  /\ UNCHANGED <<emitted, invoked>> /\ SameTables
-----------------------------------------------------------------------------
(* emit_statement *)

(* An expression that the generator does not write ends it: exit(1). *)
ExpressionFails ==
  /\ \/ At("stmt") /\ \E e \in Expressions(this) : ~Emittable(e)
     \/ At("global") /\ ~Emittable(Kid(this, 1))
  /\ gen' = "error"
  /\ UNCHANGED <<input, todo, numbers, capture, nextWorker, workerOf, output>>

Variable(n) == Entry("var", ast[n].name, n)

(* In C a variable is in scope in its own initial value. *)
Declaration ==
  /\ Statement({"decl"}) /\ Regular(this)
  /\ Line({}, {Variable(this)}, UsesOf(Expressions(this)))

ThreadDeclaration ==
  /\ Statement({"decl"}) /\ ast[this].par = "thread"
  /\ Line({}, {Variable(this), Entry("_args_tw", wrapperOf[this], this),
               Entry("_thread", ast[this].name, this)},
          UsesOf(Expressions(this)) \cup {Use("call", wrapperOf[this], {this})})

ProcessDeclaration ==
  /\ Statement({"decl"}) /\ ast[this].par = "process"
  /\ Line(UsesOf(Expressions(this)),
          {Variable(this), Entry("_ptr", ast[this].name, this),
           Entry("_process", ast[this].name, this),
           Entry("_args_p", processOf[this], this)},
          {Use("process_call", processOf[this], {this})})

LockUses(n) ==
  IF isShared[n] # "shared" THEN {}
  ELSE {Use(IF IsCaptured(ast[n].name) THEN "_lock" ELSE "lock", ast[n].name, {})}

Update ==
  /\ Statement({"update"})
  /\ Line(LockUses(this) \cup {UseOf(ast[this].name, {bound[this]})}, {},
          UsesOf(Expressions(this)))

(* A literal, or a variable by its own name; nothing else is written. *)
PrintStatement ==
  /\ Statement({"print"})
  /\ LET value == Kid(this, 1)
     IN  IF ast[value].kind \in {"int", "string", "ident"}
         THEN Line({}, {}, IF ast[value].kind = "ident"
                           THEN {Use("var", ast[value].name, {bound[value]})} ELSE {})
         ELSE Continue(<<>>) /\ UNCHANGED output /\ SameTables

ReturnStatement ==
  Statement({"return"}) /\ Line({}, {}, UsesOf(Expressions(this)))

ThreadCallStatement ==
  /\ Statement({"call"}) /\ ast[this].par = "thread"
  /\ Line(UsesOf(Expressions(this)),
          {Entry(f, wrapperOf[this], this) : f \in {"_args_tw", "_thread_tw"}},
          {Use("call", wrapperOf[this], {this})})

ThreadBlock ==
  /\ Statement({"thread"})
  /\ Line({}, {Entry("_thread_tw", wrapperOf[this], this)},
          {Use("call", wrapperOf[this], {this})})

(* A process call without a variable, and a function inside a statement    *)
(* list other than that of the program, leave nothing in the text.         *)
NothingWritten ==
  /\ Statement({"call", "func"}) /\ ast[this].par # "thread"
  /\ Continue(<<>>) /\ UNCHANGED output /\ SameTables

IsProcessVariable(x) == \E i \in DOMAIN processVars : processVars[i] = x

AwaitStatement ==
  /\ Statement({"await"})
  /\ LET waits(k) ==
           LET x == ast[k].name
           IN  IF IsProcessVariable(x)
               THEN {Use(f, x, {bound[k]}) : f \in {"_process", "_ptr", "var"}}
               ELSE {Use("_thread", x, {bound[k]})}
     IN  Line({}, {}, UNION {waits(k) : k \in Elements(ast[this].kids)})

IfStatement ==
  /\ Statement({"if"})
  /\ Writes(Open(Refer(Checked(text, Expressions(this)), UsesOf(Expressions(this))), {}))
  /\ Continue(Inside(Kid(this, 2))
                \o (IF Len(ast[this].kids) = 3 THEN <<Do("else", Kid(this, 3))>> ELSE <<>>))
  /\ Once(this) /\ UNCHANGED invoked /\ SameTables

Else ==
  /\ At("else") /\ ast[this].kind = "block"
  /\ Writes(Open(text, {})) /\ Continue(Inside(this))
  /\ UNCHANGED <<emitted, invoked>> /\ SameTables

(* emit_block on the if node of an else-if reads the low half of the       *)
(* pointer to its branch as a number of statements: none when that is      *)
(* negative, otherwise it follows wild pointers.                           *)
ElseIf ==
  /\ At("else") /\ ast[this].kind = "if"
  /\ \/ Continue(<<>>) /\ UNCHANGED gen
     \/ gen' = "undefined" /\ UNCHANGED todo
  /\ UNCHANGED <<input, numbers, capture, nextWorker, workerOf, output>>

ForLoop ==
  /\ Statement({"for"}) /\ ~ThreadedLoop(this)
  /\ Writes(Open(text, {}))
  /\ Continue(<<Do("stmt", Kid(this, 1)), Do("head", this)>>
                \o Inside(Kid(this, 4)) \o <<Do("close", this)>>)
  /\ Once(this) /\ UNCHANGED invoked /\ SameTables

(* The updater names its variable as it is, without pointer or lock. *)
LoopHead ==
  /\ At("head")
  /\ LET upd == Kid(this, 3)
         t == Checked(text, Expressions(this))
     IN  /\ Writes(Open(Refer(t, {Use("var", ast[upd].name, {bound[upd]})}
                                   \cup UsesOf(Expressions(this))), {}))
         /\ Once(upd)
  /\ Continue(<<>>)
  /\ UNCHANGED invoked /\ SameTables

(* What a variable captured by loop f is outside its body. *)
OuterDecls(f, x) ==
  LET body == Under(Kid(f, 4))
  IN  {bound[u] : u \in {u \in body : /\ ast[u].kind = "ident" /\ ast[u].name = x
                                      /\ bound[u] \notin body}}

(* The dispatch of a threaded loop, at the place of the loop. *)
Dispatch ==
  /\ Statement({"for"}) /\ ThreadedLoop(this)
  /\ LET caught == {captured[this][i].name : i \in DOMAIN captured[this]}
         arrays == IF caught = {} THEN {"starts", "threads"} ELSE {"_fargs", "threads"}
     IN  LineText({Use("var", x, OuterDecls(this, x)) : x \in caught},
                  {Entry("_lock", x, this) : x \in caught}
                    \cup {Entry(a, "-", this) : a \in arrays},
                  {Use("worker", workerOf[this], {this})})
  /\ saved' = count /\ names' = Overwritten(this)
  /\ UNCHANGED <<input, gen, numbers, count, nextWorker, workerOf>>
-----------------------------------------------------------------------------
Zeros == [n \in DOMAIN ast |-> 0]

(* What the walk relies on, and the analyzer delivers. *)
Input == Annotated(ast, isShared, captured, MaxCaptured)

(* The globals of codegen.c before emit_program. *)
EmissionInit ==
  /\ gen = "idle" /\ todo = <<>>
  /\ wrapperOf = <<>> /\ processOf = <<>> /\ processVars = <<>>
  /\ names = <<>> /\ count = 0 /\ saved = 0
  /\ nextWorker = 1 /\ workerOf = <<>>
  /\ text = [env |-> <<{}>>, errors |-> {}]
  /\ emitted = <<>> /\ invoked = <<>>

Start ==
  /\ gen = "idle" /\ gen' = "running"
  /\ todo' = <<Do("assign", 1), Do("locks", 1), Do("forward", 1),
               Do("wrappers", 1), Do("main", 1)>>
  /\ wrapperOf' = Zeros /\ processOf' = Zeros /\ workerOf' = Zeros
  /\ emitted' = Zeros /\ invoked' = Zeros
  /\ UNCHANGED <<input, processVars, capture, nextWorker, text>>

Finish ==
  /\ gen = "running" /\ todo = <<>>
  /\ gen' = "done"
  /\ UNCHANGED <<input, todo, numbers, capture, nextWorker, workerOf, output>>

Passes ==
  \/ AssignIds \/ Global \/ SharedMutexes \/ Worker \/ WorkerMisread \/ EndWorker
  \/ Forward \/ FunctionText \/ Wrappers \/ CallWrapper \/ BlockWrapper
  \/ Main \/ Close

EmitStatement ==
  \/ ExpressionFails \/ Declaration \/ ThreadDeclaration \/ ProcessDeclaration
  \/ Update \/ PrintStatement \/ ReturnStatement \/ ThreadCallStatement
  \/ ThreadBlock \/ NothingWritten \/ AwaitStatement
  \/ IfStatement \/ Else \/ ElseIf \/ ForLoop \/ LoopHead \/ Dispatch

EmitProgram == Start \/ Passes \/ EmitStatement \/ Finish

(* emit_program on any tree that parse can return, whatever its marks are. *)
EmissionSpec == EmissionInit /\ Input /\ [][EmitProgram]_emissionVars

-----------------------------------------------------------------------------
(* Correctness *)

Items == [op : {"assign", "locks", "forward", "wrappers", "main", "global",
                "worker", "endWorker", "function", "wrapper", "child", "stmt",
                "close", "else", "head"},
          node : Nodes]

(* Every variable has its type: what the other properties rest on. *)
EmissionTypeOK ==
  /\ gen \in {"idle", "running", "done", "error", "undefined"}
  /\ todo \in Seq(Items)
  /\ processVars \in Seq(Names) /\ Len(processVars) <= MaxProcessVars
  /\ names \in Seq(Names) /\ Len(names) <= MaxCaptured
  /\ count \in 0 .. Len(names) /\ saved \in 0 .. Len(names)
  /\ nextWorker \in Nat \ {0}
  /\ text.env # <<>>
  /\ gen # "idle" =>
       \A t \in {wrapperOf, processOf, workerOf, emitted, invoked} : t \in [Nodes -> Nat]

(* The nodes that stand in a list of statements, and those of them that    *)
(* become threads or processes.                                            *)
Listed  == UNION {Elements(ast[m].kids) :
                    m \in {m \in Nodes : ast[m].kind \in {"program", "block", "thread", "func"}}}
Calling == {n \in Listed : ThreadUnit(n) \/ ProcessVar(n)}
Loops   == {n \in Listed : ThreadedLoop(n)}
Units   == Calling \cup Loops

Of(kind) == {n \in Nodes : ast[n].kind = kind}
Inner(n) == Under(n) \ {n}

(* Where the passes leave something out. *)
NoElseIf  == \A n \in Of("if") : \A k \in Elements(ast[n].kids) : ast[k].kind # "if"
NoUnitIn(kinds) == \A n \in Units : ast[n].kind \in kinds => Units \cap Inner(n) = {}
FunctionsAtTop == Of("func") = Functions
HasText(n) == /\ ast[n].kind = "print" => ast[Kid(n, 1)].kind \in {"int", "string", "ident"}
              /\ ~(ast[n].kind = "call" /\ ast[n].par = "process")
Answers(n) == ast[n].kind = "decl" => ~ReturnsVoid(ast[CallOf(n)].name)

(* Each statement of the source is in the C program exactly once, in       *)
(* whichever function the passes put it: none is lost between the three    *)
(* groups of main and the walks for functions, workers and wrappers, and   *)
(* none is taken by two of them; and each parallel call or block is run by *)
(* exactly one wrapper.  Not for what stands in an else-if or in a thread  *)
(* or function inside a thread or function: see AnyDepth.                  *)
EachWrittenOnce ==
  gen = "done" /\ NoElseIf /\ NoUnitIn({"thread"}) /\ FunctionsAtTop =>
    /\ \A n \in Listed : HasText(n) => emitted[n] = 1
    /\ \A n \in Calling : Answers(n) => invoked[n] = 1

-----------------------------------------------------------------------------
(* Scopes.  Home(n) is the C function that n is written in: what stands in *)
(* a thread block or a threaded loop has left the function around it.      *)

CFunctions == Functions \cup Loops \cup Of("thread")
Home(n)    == LET homes == {m \in CFunctions : n \in Inner(m)}
              IN  IF homes = {} THEN 1 ELSE CHOOSE m \in homes : \A k \in homes : k <= m

FileScope(n)  == n \in Elements(Top) /\ Regular(n) /\ Marked(n)
TopOf(n)   == CHOOSE t \in Elements(Top) : n \in Under(t)
IsCapture(f, x) == f \in Loops /\ \E i \in DOMAIN captured[f] : captured[f][i].name = x

(* The text of main is the top level sorted by this. *)
PlaceInMain(n) == IF Regular(n) THEN IF FileScope(n) THEN 0 ELSE 1
                  ELSE IF Parallel(n) THEN 2 ELSE 3

(* What is written where n stands sees x, declared by d, a parameter if 0. *)
Sees(n, d, x) ==
  LET home == Home(n)
  IN  \/ d = 0 /\ \E p \in Elements(ast[home].params) : p.name = x
      \/ /\ d > 0 /\ Home(d) = home
         /\ home = 1 => PlaceInMain(TopOf(d)) <= PlaceInMain(TopOf(n))
         /\ \A f \in Of("for") : d = Kid(f, 1) => n \in Under(f)
      \/ d > 0 /\ FileScope(d)

(* A captured variable is seen through its pointer, but not by a print or  *)
(* an updater, which name it as it is; the loop must see it itself.        *)
NamesIt(n) == n \in Of("update") \/ n \in Of("ident")
SeesIt(n) ==
  LET x == ast[n].name
      f == Home(n)
  IN  \/ Sees(n, bound[n], x)
      \/ /\ IsCapture(f, x) /\ n \in Under(Kid(f, 4)) /\ Sees(f, bound[n], x)
         /\ \A p \in Of("print") : n \notin Under(p)
         /\ \A g \in Of("for") : n # Kid(g, 3)

(* int c = c reads the new variable in C, the old one in FluCs.            *)
NoSelf == \A d \in Of("decl") : \A n \in Inner(d) : ast[n].name # ast[d].name

(* A function has a name of its own, and is called where its text has been *)
(* written: after it, or by main and the wrappers.                         *)
FunctionNames ==
  /\ \A f, g \in Functions : ast[f].name = ast[g].name => f = g
  /\ \A f \in Functions :
       /\ \A d \in Of("decl") : ast[d].name # ast[f].name
       /\ \A g \in Functions : \A p \in Elements(ast[g].params) : p.name # ast[f].name

Spawned(n) == \E u \in Calling : ast[u].kind # "thread" /\ n = CallOf(u)
CallsWritten ==
  \A n \in Of("call") : \E f \in Functions :
    /\ ast[f].name = ast[n].name
    /\ \/ Spawned(n)
       \/ Home(n) \notin Loops /\ (Home(n) \in Functions => f <= Home(n))

(* What C refuses for other reasons: the type of a call that the parser    *)
(* did not write, a string as operand, a global that is not a constant.    *)
PlainText ==
  /\ \A n \in Of("call") : n \in Listed \/ ast[n].par = "regular" \/ Spawned(n)
  /\ \A n \in Of("binop") : \A k \in Elements(ast[n].kids) : ast[k].kind # "string"
  /\ \A n \in Of("decl") : FileScope(n) => ast[Kid(n, 1)].kind \in {"int", "string"}
  /\ \A n \in Calling : ~VoidValue(n)
  /\ \A f \in Functions : \A p \in Elements(ast[f].params) : p.type # "other"

(* The condition of a threaded loop is on the loop's own variable: on      *)
(* another one, that one is what the worker declares and counts.           *)
HeadsAgree == \A f \in Loops : workerOf[f] # 0 => LoopVar(f) = ast[Kid(f, 1)].name


(* The same of the names that the generator makes up: each worker, wrapper, *)
(* argument array, thread, child and lock that the C program names has been *)
(* declared there, once.  Await looks a name up in one table for all the    *)
(* functions, which must not hold another function's.                       *)
OneLoopPerList == \A m \in Nodes : \A f, g \in Loops \cap Elements(ast[m].kids) : f = g

LocksAtTop ==
  /\ \A n \in Listed : Marked(n) => n \in Elements(Top)
  /\ \A n \in Of("update") : isShared[n] = "shared" =>
       \/ bound[n] \in Elements(Top)
       \/ IsCapture(Home(n), ast[n].name)
       \/ n \notin Listed

AwaitsResults ==
  \A a \in Of("await") : \A k \in Elements(ast[a].kids) :
    /\ bound[k] \in Calling /\ Sees(k, bound[k], ast[k].name)
    /\ ProcessVar(bound[k]) <=> ast[k].name \in Elements(processVars)

MadeNamesResolve ==
  gen = "done" /\ NoUnitIn({"for", "thread"}) /\ OneLoopPerList /\ LocksAtTop
    /\ AwaitsResults /\ (\A f \in Of("for") : Regular(Kid(f, 1))) =>
    \A e \in text.errors : e[2] \in {"var", "text"}
===============================================================================

----------------------------- MODULE ParallelCalls -----------------------------
(***************************************************************************)
(* The C program emitted for the thread and process statements of the top  *)
(* level:                                                                  *)
(*                                                                         *)
(*   int x = thread f();    pthread_create, the wrapper stores into x      *)
(*   int x = process f();   fork, the child stores into *x_ptr and exits   *)
(*   await { x, y };        pthread_join, or waitpid and x = *x_ptr        *)
(*   thread f();  thread { ... }     pthread_create and pthread_join       *)
(*   c += 1;                under lock_c when its node is marked is_shared *)
(*                                                                         *)
(* A unit is a flow of control: 0 is main, k > 0 the thread or the child   *)
(* process that statement k starts.  The threads share the memory and the  *)
(* mutexes of main; fork gives a child a copy of both, as they are.  The   *)
(* code looks at no result of pthread_create, fork or mmap: they succeed.  *)
(***************************************************************************)
EXTENDS Integers, Sequences

CONSTANTS
  Globals,      \* the variables declared at the top level, emitted as globals
  Results,      \* the variables declared by thread and process statements
  Programs      \* the source programs, their marks as the analyzer leaves them

(* body: the globals updated by the function or the block, in order, or by *)
(* the update itself.  marked: those whose update nodes are marked.        *)
(* nested: the statement stands inside an if of the top level.             *)
Statement ==
  [op : {"thread", "process", "run", "await", "update"},
   var : Results \cup {"-"}, awaits : Seq(Results),
   body : Seq(Globals), marked : SUBSET Globals, nested : BOOLEAN]

(* is_parallel_stmt: main runs these first, then all the others. *)
Parallel(s) == s.op # "update" /\ ~s.nested
Ordinary(s) == ~Parallel(s)

Emitted(p) == SelectSeq(p, Parallel) \o SelectSeq(p, Ordinary)

(* What the C compiler accepts: a variable has one declaration, and what   *)
(* is awaited has been declared.                                           *)
Declares(c, k, x) == c[k].op \in {"thread", "process"} /\ c[k].var = x

Compiles(c) ==
  /\ c \in Seq(Statement)
  /\ \A j, k \in DOMAIN c, x \in Results : Declares(c, j, x) /\ Declares(c, k, x) => j = k
  /\ \A k \in DOMAIN c : c[k].op \in {"thread", "process"} => c[k].var \in Results
  /\ \A j \in DOMAIN c : c[j].op = "await" =>
       \A i \in DOMAIN c[j].awaits : \E k \in 1 .. j - 1 : Declares(c, k, c[j].awaits[i])
  /\ \A k \in DOMAIN c : c[k].op = "update" => Len(c[k].body) = 1

ASSUME ProgramsAssumption == \A p \in Programs : Compiles(Emitted(p))

(* What exclusion rests on: a global that two statements of the address    *)
(* space of main update is marked in both.                                 *)
Touches(s, g)  == s.op # "process" /\ \E i \in DOMAIN s.body : s.body[i] = g

MarksComplete(programs) ==
  \A p \in programs : \A j, k \in DOMAIN Emitted(p) : \A g \in Globals :
    j # k /\ Touches(Emitted(p)[j], g) /\ Touches(Emitted(p)[k], g)
      => g \in Emitted(p)[j].marked

VARIABLES
  code,     \* the statements of main as emitted, fixed
  at,       \* the statement main is at
  item,     \* the position of main in the list of an await
  pc,       \* where each unit is in its body
  step,     \* the update of the body it is at
  reg,      \* the value it has loaded
  mem,      \* of each address space: the <<statement, step>> updates of a global
  owner,    \* of each address space: the holder of lock_x, Free if none
  result,   \* the variables of main: the unit whose result they hold
  cell      \* *x_ptr, in memory that parent and child share

vars == <<code, at, item, pc, step, reg, mem, owner, result, cell>>

Free    == -1
Units   == {0} \cup DOMAIN code
Spaces  == Units
Garbage == -1      \* int x;  without an initializer

(* A variant in which fork copies nothing (Isolation). *)
SharedSpace(u) == 0

(* The address space of a unit. *)
Space(u) == IF u # 0 /\ code[u].op = "process" THEN u ELSE 0

(* The statement whose body a unit runs. *)
Text(u)   == IF u = 0 THEN at ELSE u
Body(u)   == code[Text(u)].body
Marked(u) == code[Text(u)].marked

(* is_process_variable *)
ProcessVariable(x) == \E k \in DOMAIN code : code[k].op = "process" /\ code[k].var = x

Goto(u, label) == pc' = [pc EXCEPT ![u] = label]

-----------------------------------------------------------------------------
(* main *)

MainAt(op) == pc[0] = "body" /\ at \in DOMAIN code /\ code[at].op = op

CreateThread ==
  /\ MainAt("thread")
  /\ result' = [result EXCEPT ![code[at].var] = Garbage]
  /\ Goto(at, "body") /\ at' = at + 1
  /\ UNCHANGED <<code, item, step, reg, mem, owner, cell>>

(* The child has a copy of the memory and of the mutexes of the parent. *)
Fork ==
  /\ MainAt("process")
  /\ result' = [result EXCEPT ![code[at].var] = 0]
  /\ cell' = [cell EXCEPT ![code[at].var] = 0]
  /\ mem' = [mem EXCEPT ![at] = mem[0]]
  /\ owner' = [owner EXCEPT ![at] = owner[0]]
  /\ Goto(at, "body") /\ at' = at + 1
  /\ UNCHANGED <<code, item, step, reg>>

(* A thread call or block as a statement: main creates the thread ... *)
Run ==
  /\ MainAt("run") /\ pc[at] = "none"
  /\ Goto(at, "body")
  /\ UNCHANGED <<code, at, item, step, reg, mem, owner, result, cell>>

(* ... and joins it at once. *)
RunJoin ==
  /\ MainAt("run") /\ pc[at] = "done"
  /\ at' = at + 1
  /\ UNCHANGED <<code, item, pc, step, reg, mem, owner, result, cell>>

Awaited == code[at].awaits[item]

(* A variant that joins whichever thread has ended (EffectsVisible). *)
AwaitAnyThread ==
  /\ MainAt("await") /\ item <= Len(code[at].awaits)
  /\ ~ProcessVariable(Awaited)
  /\ \E k \in DOMAIN code : code[k].op = "thread" /\ pc[k] = "done"
  /\ item' = item + 1
  /\ UNCHANGED <<code, at, pc, step, reg, mem, owner, result, cell>>

AwaitThread ==
  /\ MainAt("await") /\ item <= Len(code[at].awaits)
  /\ ~ProcessVariable(Awaited)
  /\ \E k \in DOMAIN code : Declares(code, k, Awaited) /\ pc[k] = "done"
  /\ item' = item + 1
  /\ UNCHANGED <<code, at, pc, step, reg, mem, owner, result, cell>>

(* A variant that does not copy the result (AwaitDelivers). *)
AwaitProcessOnly ==
  /\ MainAt("await") /\ item <= Len(code[at].awaits)
  /\ ProcessVariable(Awaited)
  /\ \E k \in DOMAIN code : Declares(code, k, Awaited) /\ pc[k] = "done"
  /\ item' = item + 1
  /\ UNCHANGED <<code, at, pc, step, reg, mem, owner, result, cell>>

(* waitpid(_process_x); x = *x_ptr; *)
AwaitProcess ==
  /\ MainAt("await") /\ item <= Len(code[at].awaits)
  /\ ProcessVariable(Awaited)
  /\ \E k \in DOMAIN code : Declares(code, k, Awaited) /\ pc[k] = "done"
  /\ result' = [result EXCEPT ![Awaited] = cell[Awaited]]
  /\ item' = item + 1
  /\ UNCHANGED <<code, at, pc, step, reg, mem, owner, cell>>

(* A variant that leaves the position of the list behind (TypeOK). *)
EndAwaitOnly ==
  /\ MainAt("await") /\ item > Len(code[at].awaits)
  /\ at' = at + 1
  /\ UNCHANGED <<code, item, pc, step, reg, mem, owner, result, cell>>

EndAwait ==
  /\ MainAt("await") /\ item > Len(code[at].awaits)
  /\ item' = 1 /\ at' = at + 1
  /\ UNCHANGED <<code, pc, step, reg, mem, owner, result, cell>>

EndUpdate ==
  /\ MainAt("update") /\ step[0] > Len(Body(0))
  /\ step' = [step EXCEPT ![0] = 1] /\ at' = at + 1
  /\ UNCHANGED <<code, item, pc, reg, mem, owner, result, cell>>

(* return 0: the process ends, and with it the threads not yet joined. *)
ReturnFromMain ==
  /\ pc[0] = "body" /\ at = Len(code) + 1
  /\ Goto(0, "done")
  /\ UNCHANGED <<code, at, item, step, reg, mem, owner, result, cell>>

-----------------------------------------------------------------------------
(* A body: of a thread, of a child process, or an update of main *)

Running(u) ==
  /\ u = 0 => at \in DOMAIN code /\ code[at].op = "update"
  /\ Space(u) = 0 => pc[0] # "done"

AtUpdate(u) == Running(u) /\ pc[u] = "body" /\ step[u] <= Len(Body(u))
Global(u)   == Body(u)[step[u]]

(* A variant that ignores the mark (Exclusion, NoLostUpdate). *)
Unguarded(u) ==
  /\ AtUpdate(u) /\ Global(u) \in Marked(u)
  /\ Goto(u, "load")
  /\ UNCHANGED <<code, at, item, step, reg, mem, owner, result, cell>>

LockShared(u) ==
  /\ AtUpdate(u) /\ Global(u) \in Marked(u)
  /\ owner[Space(u)][Global(u)] = Free
  /\ owner' = [owner EXCEPT ![Space(u)][Global(u)] = u]
  /\ Goto(u, "load")
  /\ UNCHANGED <<code, at, item, step, reg, mem, result, cell>>

NoLock(u) ==
  /\ AtUpdate(u) /\ Global(u) \notin Marked(u)
  /\ Goto(u, "load")
  /\ UNCHANGED <<code, at, item, step, reg, mem, owner, result, cell>>

Load(u) ==
  /\ Running(u) /\ pc[u] = "load"
  /\ reg' = [reg EXCEPT ![u] = mem[Space(u)][Global(u)]]
  /\ Goto(u, "store")
  /\ UNCHANGED <<code, at, item, step, mem, owner, result, cell>>

Store(u) ==
  /\ Running(u) /\ pc[u] = "store"
  /\ mem' = [mem EXCEPT ![Space(u)][Global(u)] = reg[u] \cup {<<Text(u), step[u]>>}]
  /\ Goto(u, "unlock")
  /\ UNCHANGED <<code, at, item, step, reg, owner, result, cell>>

(* A variant that keeps the mutex (Termination). *)
KeepShared(u) ==
  /\ Running(u) /\ pc[u] = "unlock"
  /\ Goto(u, "body") /\ step' = [step EXCEPT ![u] = @ + 1]
  /\ UNCHANGED <<code, at, item, reg, mem, owner, result, cell>>

UnlockShared(u) ==
  /\ Running(u) /\ pc[u] = "unlock"
  /\ owner' = IF Global(u) \in Marked(u)
              THEN [owner EXCEPT ![Space(u)][Global(u)] = Free] ELSE owner
  /\ Goto(u, "body") /\ step' = [step EXCEPT ![u] = @ + 1]
  /\ UNCHANGED <<code, at, item, reg, mem, result, cell>>

EndOfBody(u) == u # 0 /\ Running(u) /\ pc[u] = "body" /\ step[u] > Len(Body(u))

(* The wrapper stores the result of f at args[0] and returns. *)
ThreadReturns(u) ==
  /\ EndOfBody(u) /\ code[u].op = "thread"
  /\ result' = [result EXCEPT ![code[u].var] = u]
  /\ Goto(u, "done")
  /\ UNCHANGED <<code, at, item, step, reg, mem, owner, cell>>

BlockReturns(u) ==
  /\ EndOfBody(u) /\ code[u].op = "run"
  /\ Goto(u, "done")
  /\ UNCHANGED <<code, at, item, step, reg, mem, owner, result, cell>>

(* The child stores the result of f at x_ptr and calls exit(0). *)
ChildExits(u) ==
  /\ EndOfBody(u) /\ code[u].op = "process"
  /\ cell' = [cell EXCEPT ![code[u].var] = u]
  /\ Goto(u, "done")
  /\ UNCHANGED <<code, at, item, step, reg, mem, owner, result>>

-----------------------------------------------------------------------------
Init ==
  /\ code \in {Emitted(p) : p \in Programs}
  /\ at = 1 /\ item = 1
  /\ pc    = [u \in Units |-> IF u = 0 THEN "body" ELSE "none"]
  /\ step  = [u \in Units |-> 1]
  /\ reg   = [u \in Units |-> {}]
  /\ mem   = [s \in Spaces |-> [g \in Globals |-> {}]]
  /\ owner = [s \in Spaces |-> [g \in Globals |-> Free]]
  /\ result = [x \in Results |-> Garbage]
  /\ cell   = [x \in Results |-> 0]

Main ==
  \/ CreateThread \/ Fork \/ Run \/ RunJoin
  \/ AwaitThread \/ AwaitProcess \/ EndAwait \/ EndUpdate \/ ReturnFromMain

Unit(u) ==
  \/ LockShared(u) \/ NoLock(u) \/ Load(u) \/ Store(u) \/ UnlockShared(u)
  \/ ThreadReturns(u) \/ BlockReturns(u) \/ ChildExits(u)

Next == Main \/ \E u \in Units : Unit(u)

AllUnits == {0} \cup UNION {DOMAIN p : p \in Programs}

(* Each thread and each process keeps running while it can. *)
Spec ==
  /\ Init /\ [][Next]_vars
  /\ WF_vars(Main) /\ \A u \in AllUnits : WF_vars(u \in Units /\ Unit(u))

-----------------------------------------------------------------------------
(* Correctness *)

Updates == Nat \X Nat

(* Every variable has its type, and main is in a list only at an await. *)
TypeOK ==
  /\ Compiles(code)
  /\ at \in 1 .. Len(code) + 1
  /\ item \in Nat \ {0} /\ (at > Len(code) \/ code[at].op # "await" => item = 1)
  /\ pc \in [Units -> {"none", "body", "load", "store", "unlock", "done"}]
  /\ step \in [Units -> Nat \ {0}]
  /\ reg \in [Units -> SUBSET Updates]
  /\ mem \in [Spaces -> [Globals -> SUBSET Updates]]
  /\ owner \in [Spaces -> [Globals -> Units \cup {Free}]]
  /\ result \in [Results -> Units \cup {Garbage}]
  /\ cell \in [Results -> Units]

(* Between the load and the store of an update no other unit of the same   *)
(* address space loads or stores the variable.                             *)
Updating(u, g) == pc[u] \in {"load", "store"} /\ Global(u) = g

Exclusion ==
  \A u, v \in Units : \A g \in Globals :
    Updating(u, g) /\ Updating(v, g) /\ Space(u) = Space(v) => u = v

(* No update made in an address space is ever undone by another one. *)
NoLostUpdate ==
  [][\A s \in Spaces : \A g \in Globals : mem[s][g] \subseteq mem'[s][g]]_vars

(* Main has gone past the point where it waits for unit k: its place in    *)
(* the list of an await, or, for a call or a block as a statement, the      *)
(* statement itself, where the code joins it (see CallerContinues).        *)
WaitedFor(k) ==
  \/ code[k].op = "run" /\ at > k
  \/ \E j \in DOMAIN code : \E i \in DOMAIN code[j].awaits :
       /\ code[j].op = "await" /\ Declares(code, k, code[j].awaits[i])
       /\ at > j \/ (at = j /\ item > i)

(* "This prevents the parent context from using a result before the        *)
(* associated task has finished": an awaited variable holds the result of  *)
(* its own call, whether a thread stored it or a child process sent it.    *)
AwaitDelivers ==
  \A k \in DOMAIN code :
    WaitedFor(k) /\ code[k].op # "run" => result[code[k].var] = k

(* Everything a unit did is in its memory, for a thread that of main, once *)
(* main has waited for it: pthread_join and waitpid are of the unit meant.  *)
EffectsVisible ==
  \A k \in DOMAIN code : WaitedFor(k) =>
    \A i \in DOMAIN code[k].body : <<k, i>> \in mem[Space(k)][code[k].body[i]]

(* "Full memory isolation": a child process changes no variable of its     *)
(* parent, it starts from what the parent had done when it forked, and     *)
(* from then on nobody but itself changes what it sees.                    *)
Isolated ==
  \A k \in DOMAIN code : code[k].op = "process" =>
    \A g \in Globals :
      /\ \A u \in mem'[0][g] \ mem[0][g] : u[1] # k
      /\ pc[k] = "none" => mem'[k][g] \in {mem[k][g], mem[0][g]}
      /\ pc[k] # "none" => \A u \in mem'[k][g] \ mem[k][g] : u[1] = k

Isolation == [][Isolated]_vars

(* Main returns, and every child process it started exits. *)
Termination ==
  <>(pc[0] = "done" /\ \A k \in DOMAIN code : code[k].op = "process" => pc[k] = "done")

-----------------------------------------------------------------------------
(* What the documents say and the code does not do *)

(* Main is not held up at a thread call or a thread block that stands as a *)
(* statement ("The parent context continues its execution immediately").   *)
CallerContinues == MainAt("run") => ENABLED Main
===============================================================================

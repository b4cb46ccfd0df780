------------------------------ MODULE ParallelFor ------------------------------
(***************************************************************************)
(* The C code emitted for one threaded for loop,                           *)
(*                                                                         *)
(*   thread=N for (int i = Start; i < Limit; i++) { body }                 *)
(*                                                                         *)
(* main creates N workers, one after the other, and then joins them in the *)
(* same order.  Worker w runs for_loop_worker_<id>: it takes the indices   *)
(* Start + w, Start + w + N, ... and for each one locks the mutex          *)
(* _lock_x of every captured variable x, runs the body, and unlocks them.  *)
(* An update of y in the body whose node is marked is_shared locks         *)
(* _lock_y when y is captured and the global lock_y otherwise, and the     *)
(* assignment itself is a load and a store.                                *)
(*                                                                         *)
(* pthread_create is taken to succeed, as the code never looks at its      *)
(* result; a mutex is the default one of POSIX, which its owner must not   *)
(* lock again (it then waits for itself).                                  *)
(***************************************************************************)
EXTENDS Integers, Sequences

CONSTANTS
  N,            \* thread_amount
  Start,        \* the literal of the initializer
  Limit,        \* the right operand of the condition, i < Limit
  Vars,         \* the variables around the loop
  Loops         \* the loop bodies considered, as the analyzer annotates them

Workers == 0 .. N - 1

(* captured: captured_names of the loop, in order.  body: the variables    *)
(* that the statements of the body update.  shared: those of them whose    *)
(* update nodes are marked is_shared.                                      *)
Loop == [captured : Seq(Vars), body : Seq(Vars), shared : SUBSET Vars]

Elements(s) == {s[j] : j \in DOMAIN s}

ASSUME LoopAssumption ==
  /\ N \in Nat \ {0} /\ Start \in Int /\ Limit \in Int
  /\ Loops \subseteq Loop

(* What the analyzer delivers: a captured variable is listed once, and an  *)
(* update of a variable declared outside the loop is marked, unless the    *)
(* variable is a parameter, whose declaration counts as no access; then it *)
(* is captured if the body reads it.                                       *)
ASSUME AnalyzerAssumption ==
  \A l \in Loops :
    /\ \A j, k \in DOMAIN l.captured : l.captured[j] = l.captured[k] => j = k
    /\ Elements(l.body) \subseteq l.shared \cup Elements(l.captured)

VARIABLES
  loop,    \* the loop that is run, fixed
  main,    \* "create", "join" or "after"
  next,    \* the i of main's loop over threads[]
  pc,      \* where each worker is
  idx,     \* the loop variable of each worker
  step,    \* its position in Captured or in Body
  reg,     \* the value it has loaded
  owner,   \* the holder of each mutex, Free if none
  val,     \* of each variable: the <<index, statement>> updates it contains
  ran      \* history: the indices for which each worker has run the body

vars == <<loop, main, next, pc, idx, step, reg, owner, val, ran>>

Captured == loop.captured
Body     == loop.body
Shared   == loop.shared

Free == -1

(* The mutexes: the loop's own _lock_x, and the global lock_x. *)
Local(x)   == <<"_lock", x>>
Global(x)  == <<"lock", x>>
Mutexes    == {"_lock", "lock"} \X Vars
MutexOf(x) == IF x \in Elements(Captured) THEN Local(x) ELSE Global(x)

Goto(w, label, k) ==
  pc' = [pc EXCEPT ![w] = label] /\ step' = [step EXCEPT ![w] = k]

Lock(w, m)   == owner[m] = Free /\ owner' = [owner EXCEPT ![m] = w]
Unlock(m)    == owner' = [owner EXCEPT ![m] = Free]

-----------------------------------------------------------------------------
(* main: the dispatch code emitted in place of the loop *)

Create ==
  /\ main = "create" /\ next < N
  /\ next' = next + 1
  /\ pc' = [pc EXCEPT ![next] = "test"]
  /\ idx' = [idx EXCEPT ![next] = next + Start]
  /\ UNCHANGED <<loop, main, step, reg, owner, val, ran>>

Created ==
  /\ main = "create" /\ next = N
  /\ main' = "join" /\ next' = 0
  /\ UNCHANGED <<loop, pc, idx, step, reg, owner, val, ran>>

(* A variant that does not wait for the worker (AfterTheLoop). *)
JoinNothing ==
  /\ main = "join" /\ next < N
  /\ next' = next + 1
  /\ UNCHANGED <<loop, main, pc, idx, step, reg, owner, val, ran>>

Join ==
  /\ main = "join" /\ next < N /\ pc[next] = "done"
  /\ next' = next + 1
  /\ UNCHANGED <<loop, main, pc, idx, step, reg, owner, val, ran>>

(* pthread_mutex_destroy of each _lock_x, and on to the next statement. *)
Joined ==
  /\ main = "join" /\ next = N
  /\ main' = "after"
  /\ UNCHANGED <<loop, next, pc, idx, step, reg, owner, val, ran>>

-----------------------------------------------------------------------------
(* for_loop_worker *)

(* A variant that tests i <= Limit (TypeOK). *)
TestInclusive(w) ==
  /\ pc[w] = "test"
  /\ IF idx[w] <= Limit THEN Goto(w, "outer", 1) ELSE Goto(w, "done", 1)
  /\ UNCHANGED <<loop, main, next, idx, reg, owner, val, ran>>

(* i < Limit *)
Test(w) ==
  /\ pc[w] = "test"
  /\ IF idx[w] < Limit THEN Goto(w, "outer", 1) ELSE Goto(w, "done", 1)
  /\ UNCHANGED <<loop, main, next, idx, reg, owner, val, ran>>

(* A variant that does not lock the captured variables (Exclusion). *)
SkipCaptured(w) ==
  /\ pc[w] = "outer" /\ step[w] <= Len(Captured)
  /\ Goto(w, "outer", step[w] + 1)
  /\ UNCHANGED <<loop, main, next, idx, reg, owner, val, ran>>

LockCaptured(w) ==
  /\ pc[w] = "outer" /\ step[w] <= Len(Captured)
  /\ Lock(w, Local(Captured[step[w]]))
  /\ Goto(w, "outer", step[w] + 1)
  /\ UNCHANGED <<loop, main, next, idx, reg, val, ran>>

EnterBody(w) ==
  /\ pc[w] = "outer" /\ step[w] > Len(Captured)
  /\ Goto(w, "update", 1)
  /\ UNCHANGED <<loop, main, next, idx, reg, owner, val, ran>>

(* A variant that does not lock the shared variable (NoLostUpdate). *)
SkipShared(w) ==
  /\ pc[w] = "update" /\ step[w] <= Len(Body)
  /\ Body[step[w]] \in Shared
  /\ Goto(w, "load", step[w])
  /\ UNCHANGED <<loop, main, next, idx, reg, owner, val, ran>>

LockShared(w) ==
  /\ pc[w] = "update" /\ step[w] <= Len(Body)
  /\ Body[step[w]] \in Shared
  /\ Lock(w, MutexOf(Body[step[w]]))
  /\ Goto(w, "load", step[w])
  /\ UNCHANGED <<loop, main, next, idx, reg, val, ran>>

NoLock(w) ==
  /\ pc[w] = "update" /\ step[w] <= Len(Body)
  /\ Body[step[w]] \notin Shared
  /\ Goto(w, "load", step[w])
  /\ UNCHANGED <<loop, main, next, idx, reg, owner, val, ran>>

Load(w) ==
  /\ pc[w] = "load"
  /\ reg' = [reg EXCEPT ![w] = val[Body[step[w]]]]
  /\ Goto(w, "store", step[w])
  /\ UNCHANGED <<loop, main, next, idx, owner, val, ran>>

Store(w) ==
  /\ pc[w] = "store"
  /\ val' = [val EXCEPT ![Body[step[w]]] = reg[w] \cup {<<idx[w], step[w]>>}]
  /\ Goto(w, "leave", step[w])
  /\ UNCHANGED <<loop, main, next, idx, reg, owner, ran>>

UnlockShared(w) ==
  /\ pc[w] = "leave"
  /\ IF Body[step[w]] \in Shared THEN Unlock(MutexOf(Body[step[w]]))
     ELSE UNCHANGED owner
  /\ Goto(w, "update", step[w] + 1)
  /\ UNCHANGED <<loop, main, next, idx, reg, val, ran>>

LeaveBody(w) ==
  /\ pc[w] = "update" /\ step[w] > Len(Body)
  /\ ran' = [ran EXCEPT ![w] = @ \cup {idx[w]}]
  /\ Goto(w, "release", 1)
  /\ UNCHANGED <<loop, main, next, idx, reg, owner, val>>

(* A variant that keeps the locks of the captured variables (Termination). *)
KeepCaptured(w) ==
  /\ pc[w] = "release" /\ step[w] <= Len(Captured)
  /\ Goto(w, "release", step[w] + 1)
  /\ UNCHANGED <<loop, main, next, idx, reg, owner, val, ran>>

UnlockCaptured(w) ==
  /\ pc[w] = "release" /\ step[w] <= Len(Captured)
  /\ Unlock(Local(Captured[step[w]]))
  /\ Goto(w, "release", step[w] + 1)
  /\ UNCHANGED <<loop, main, next, idx, reg, val, ran>>

(* A variant whose workers step by one (SlicesDisjoint). *)
AdvanceByOne(w) ==
  /\ pc[w] = "release" /\ step[w] > Len(Captured)
  /\ idx' = [idx EXCEPT ![w] = @ + 1]
  /\ Goto(w, "test", 1)
  /\ UNCHANGED <<loop, main, next, reg, owner, val, ran>>

(* i = i + N, whatever the updater of the source loop says. *)
Advance(w) ==
  /\ pc[w] = "release" /\ step[w] > Len(Captured)
  /\ idx' = [idx EXCEPT ![w] = @ + N]
  /\ Goto(w, "test", 1)
  /\ UNCHANGED <<loop, main, next, reg, owner, val, ran>>

-----------------------------------------------------------------------------
Init ==
  /\ loop \in Loops
  /\ main = "create" /\ next = 0
  /\ pc   = [w \in Workers |-> "none"]
  /\ idx  = [w \in Workers |-> 0]
  /\ step = [w \in Workers |-> 1]
  /\ reg  = [w \in Workers |-> {}]
  /\ owner = [m \in Mutexes |-> Free]
  /\ val  = [x \in Vars |-> {}]
  /\ ran  = [w \in Workers |-> {}]

Main == Create \/ Created \/ Join \/ Joined

Worker(w) ==
  \/ Test(w) \/ LockCaptured(w) \/ EnterBody(w)
  \/ LockShared(w) \/ NoLock(w) \/ Load(w) \/ Store(w) \/ UnlockShared(w)
  \/ LeaveBody(w) \/ UnlockCaptured(w) \/ Advance(w)

Next == Main \/ \E w \in Workers : Worker(w)

(* The threads of the program are scheduled by the kernel, each of which   *)
(* keeps running while it can.                                             *)
Spec ==
  /\ Init /\ [][Next]_vars
  /\ WF_vars(Main) /\ \A w \in Workers : WF_vars(Worker(w))

-----------------------------------------------------------------------------
(* Correctness *)

Labels == {"none", "test", "outer", "update", "load", "store", "leave",
           "release", "done"}

(* Every variable has its type, and the body runs only for indices of the  *)
(* source loop.                                                            *)
TypeOK ==
  /\ loop \in Loops
  /\ main \in {"create", "join", "after"} /\ next \in 0 .. N
  /\ pc \in [Workers -> Labels] /\ idx \in [Workers -> Int]
  /\ step \in [Workers -> Nat \ {0}]
  /\ reg \in [Workers -> SUBSET (Int \X Nat)]
  /\ owner \in [Mutexes -> Workers \cup {Free}]
  /\ val \in [Vars -> SUBSET (Int \X Nat)]
  /\ ran \in [Workers -> SUBSET (Start .. Limit - 1)]

(* Between the load and the store of an update no other worker loads or    *)
(* stores the same variable, whether its protection is the lock around the *)
(* body (captured) or the lock around the update (marked), on two mutexes  *)
(* that never are the two locks of one variable.                           *)
Updating(w, x) == pc[w] \in {"load", "store"} /\ Body[step[w]] = x

Exclusion ==
  \A v, w \in Workers : \A x \in Vars :
    Updating(v, x) /\ Updating(w, x) => v = w

(* "Thread 0 runs i=0,3,6,...; thread 1 runs i=1,4,7,...": no index is run *)
(* by two workers.                                                         *)
SlicesDisjoint ==
  \A v, w \in Workers : v # w => ran[v] \cap ran[w] = {}

(* A store never undoes an update that another worker made meanwhile.      *)
NoLostUpdate == [][\A x \in Vars : val[x] \subseteq val'[x]]_vars

(* When main goes on after the loop, every index has been run, every       *)
(* update it made is in the variables, all workers are gone and each mutex *)
(* that main destroys is unlocked.                                         *)
AfterTheLoop ==
  main = "after" =>
    /\ UNION {ran[w] : w \in Workers} = Start .. Limit - 1
    /\ \A x \in Vars :
         val[x] = {u \in (Start .. Limit - 1) \X DOMAIN Body : Body[u[2]] = x}
    /\ \A w \in Workers : pc[w] = "done"
    /\ \A m \in Mutexes : owner[m] = Free

(* The loop does to the program around it what the loop as written would:  *)
(* a store is the moment at which the whole update takes effect.           *)
Written == INSTANCE AtomicLoop WITH
             Indices <- Start .. Limit - 1, body <- Body, ended <- main = "after"

ImplementsLoop == Written!Spec

(* The statement after the loop is reached. *)
Termination == <>(main = "after")
===============================================================================

--------------------------- MODULE ParallelForProofs ---------------------------
(***************************************************************************)
(* Proofs about ParallelFor, for any number of workers, any range of       *)
(* indices and any set of loops that the analyzer may annotate.            *)
(*                                                                         *)
(* Bounds and TypeOK together are inductive.  LockInv says which worker    *)
(* holds which mutex at each label; Exclusion follows from it, RegInv from *)
(* Exclusion, and NoLostUpdate from RegInv.  SliceInv says that a worker   *)
(* only ever sees indices of its own residue class.                        *)
(*                                                                         *)
(* The second half: the workers do together what the loop as written does, *)
(* AfterTheLoop and ImplementsLoop.  Progress says how far a worker is     *)
(* from its index, its label and its step alone; RanInv and ValInv say     *)
(* that the history and the variables contain exactly that; MainInv says   *)
(* which workers exist and which have ended at each stage of main; FreeInv *)
(* is the converse of LockInv: a mutex that is owned is one that its owner *)
(* has still to unlock.                                                    *)
(***************************************************************************)
EXTENDS ParallelFor, TLAPS

USE DEF Workers

(* The index of a worker inside an iteration is one of the source loop,    *)
(* and its step inside an update is one of the body.                       *)
InIteration(w) ==
  pc[w] \in {"outer", "update", "load", "store", "leave", "release"}

Bounds ==
  \A w \in Workers :
    /\ pc[w] # "none" => Start <= idx[w]
    /\ InIteration(w) => idx[w] < Limit
    /\ pc[w] \in {"load", "store", "leave"} => step[w] \in DOMAIN Body

TypeInv == TypeOK /\ Bounds

LEMMA LoopFields ==
  ASSUME loop \in Loops
  PROVE  /\ Captured \in Seq(Vars) /\ Body \in Seq(Vars) /\ Shared \subseteq Vars
         /\ Len(Captured) \in Nat /\ Len(Body) \in Nat
         /\ DOMAIN Captured = 1 .. Len(Captured) /\ DOMAIN Body = 1 .. Len(Body)
         /\ \A j \in DOMAIN Captured : Captured[j] \in Vars
         /\ \A k \in DOMAIN Body : Body[k] \in Vars
         /\ \A j, k \in DOMAIN Captured : Captured[j] = Captured[k] => j = k
         /\ \A k \in DOMAIN Body : Body[k] \in Shared \/ Body[k] \in Elements(Captured)
<1> USE DEF Captured, Body, Shared, Elements
<1>1. loop \in Loop
  BY LoopAssumption
<1>2. Captured \in Seq(Vars) /\ Body \in Seq(Vars) /\ Shared \subseteq Vars
  BY <1>1 DEF Loop
<1>3. /\ \A j, k \in DOMAIN Captured : Captured[j] = Captured[k] => j = k
      /\ Elements(Body) \subseteq Shared \cup Elements(Captured)
  BY AnalyzerAssumption
<1> QED
  BY <1>2, <1>3

(* The loop is fixed. *)
LEMMA SameLoop == loop' = loop => Captured' = Captured /\ Body' = Body /\ Shared' = Shared
BY DEF Captured, Body, Shared

LEMMA InitType == Init => TypeInv
<1> SUFFICES ASSUME Init PROVE TypeInv
  OBVIOUS
<1> USE LoopAssumption DEF Init
<1>1. TypeOK
  BY DEF TypeOK, Labels, Mutexes, Free
<1>2. Bounds
  BY DEF Bounds, InIteration
<1> QED
  BY <1>1, <1>2 DEF TypeInv

LEMMA MainType == TypeInv /\ Main => TypeInv'
<1> SUFFICES ASSUME TypeInv, Main PROVE TypeInv'
  OBVIOUS
<1>1. /\ loop' = loop
      /\ UNCHANGED <<step, reg, owner, val, ran>>
  BY DEF Main, Create, Created, Join, Joined
<1>2. Body' = Body
  BY <1>1, SameLoop
<1> USE LoopAssumption, <1>1, <1>2 DEF TypeInv, TypeOK, Bounds, InIteration
<1>3. CASE Create
  <2>1. TypeOK'
    BY <1>3 DEF Create, Labels
  <2>2. Bounds'
    BY <1>3 DEF Create, Labels
  <2> QED
    BY <2>1, <2>2
<1>4. CASE Created
  BY <1>4 DEF Created
<1>5. CASE Join
  BY <1>5 DEF Join
<1>6. CASE Joined
  BY <1>6 DEF Joined
<1> QED
  BY <1>3, <1>4, <1>5, <1>6 DEF Main

(* Moving a worker to another label. *)
LEMMA GotoType ==
  ASSUME TypeOK, NEW w \in Workers, NEW label \in Labels, NEW k \in Nat \ {0},
         Goto(w, label, k)
  PROVE  /\ pc' \in [Workers -> Labels] /\ step' \in [Workers -> Nat \ {0}]
         /\ \A v \in Workers : /\ pc'[v] = IF v = w THEN label ELSE pc[v]
                               /\ step'[v] = IF v = w THEN k ELSE step[v]
BY DEF TypeOK, Goto

LEMMA WorkerType ==
  ASSUME NEW w \in Workers, TypeInv, Worker(w)
  PROVE  TypeInv'
<1>1. /\ Len(Captured) \in Nat /\ Len(Body) \in Nat /\ DOMAIN Body = 1 .. Len(Body)
      /\ \A k \in DOMAIN Body : Body[k] \in Vars
      /\ DOMAIN Captured = 1 .. Len(Captured)
      /\ \A k \in DOMAIN Captured : Captured[k] \in Vars
  BY LoopFields DEF TypeInv, TypeOK
<1>2. loop' = loop /\ main' = main /\ next' = next
  BY DEF Worker, Test, LockCaptured, EnterBody, LockShared, NoLock, Load, Store,
         UnlockShared, LeaveBody, UnlockCaptured, Advance
<1>3. Body' = Body
  BY <1>2, SameLoop
<1>4. TypeOK /\ Bounds /\ step[w] \in Nat \ {0} /\ step[w] + 1 \in Nat \ {0}
  BY DEF TypeInv, TypeOK
<1> USE <1>1, <1>2, <1>3, <1>4
<1>5. CASE Test(w)
  <2>1. Goto(w, IF idx[w] < Limit THEN "outer" ELSE "done", 1)
    BY <1>5 DEF Test, Goto
  <2>2. /\ pc' \in [Workers -> Labels] /\ step' \in [Workers -> Nat \ {0}]
        /\ \A v \in Workers : /\ pc'[v] = IF v = w THEN (IF idx[w] < Limit THEN "outer" ELSE "done") ELSE pc[v]
                              /\ step'[v] = IF v = w THEN 1 ELSE step[v]
    BY <2>1, GotoType DEF Labels
  <2>3. UNCHANGED <<idx, reg, owner, val, ran>>
    BY <1>5 DEF Test
  <2>4. TypeOK'
    BY <2>2, <2>3 DEF TypeOK
  <2>5. Bounds'
    BY <1>5, <2>2, <2>3, LoopAssumption DEF Test, TypeOK, Bounds, InIteration
  <2> QED
    BY <2>4, <2>5 DEF TypeInv
<1>6. CASE LockCaptured(w)
  <2>1. Goto(w, "outer", step[w] + 1)
    BY <1>6 DEF LockCaptured
  <2>2. /\ pc' \in [Workers -> Labels] /\ step' \in [Workers -> Nat \ {0}]
        /\ \A v \in Workers : /\ pc'[v] = IF v = w THEN "outer" ELSE pc[v]
                              /\ step'[v] = IF v = w THEN step[w] + 1 ELSE step[v]
    BY <2>1, GotoType DEF Labels
  <2>3. UNCHANGED <<idx, reg, val, ran>>
    BY <1>6 DEF LockCaptured
  <2>4. owner' \in [Mutexes -> Workers \cup {Free}]
    BY <1>6, LoopAssumption DEF LockCaptured, Lock, Local, Mutexes, TypeOK, Bounds, InIteration
  <2>5. TypeOK'
    BY <2>2, <2>3, <2>4 DEF TypeOK
  <2>6. Bounds'
    BY <1>6, <2>2, <2>3, <2>4, LoopAssumption DEF LockCaptured, TypeOK, Bounds, InIteration
  <2> QED
    BY <2>5, <2>6 DEF TypeInv
<1>7. CASE EnterBody(w)
  <2>1. Goto(w, "update", 1)
    BY <1>7 DEF EnterBody
  <2>2. /\ pc' \in [Workers -> Labels] /\ step' \in [Workers -> Nat \ {0}]
        /\ \A v \in Workers : /\ pc'[v] = IF v = w THEN "update" ELSE pc[v]
                              /\ step'[v] = IF v = w THEN 1 ELSE step[v]
    BY <2>1, GotoType DEF Labels
  <2>3. UNCHANGED <<idx, reg, owner, val, ran>>
    BY <1>7 DEF EnterBody
  <2>4. TypeOK'
    BY <2>2, <2>3 DEF TypeOK
  <2>5. Bounds'
    BY <1>7, <2>2, <2>3, LoopAssumption DEF EnterBody, TypeOK, Bounds, InIteration
  <2> QED
    BY <2>4, <2>5 DEF TypeInv
<1>8. CASE LockShared(w)
  <2>1. Goto(w, "load", step[w])
    BY <1>8 DEF LockShared
  <2>2. /\ pc' \in [Workers -> Labels] /\ step' \in [Workers -> Nat \ {0}]
        /\ \A v \in Workers : /\ pc'[v] = IF v = w THEN "load" ELSE pc[v]
                              /\ step'[v] = IF v = w THEN step[w] ELSE step[v]
    BY <2>1, GotoType DEF Labels
  <2>3. UNCHANGED <<idx, reg, val, ran>>
    BY <1>8 DEF LockShared
  <2>4. owner' \in [Mutexes -> Workers \cup {Free}]
    BY <1>8, LoopAssumption DEF LockShared, Lock, MutexOf, Local, Global, Mutexes, TypeOK, Bounds, InIteration
  <2>5. step[w] \in DOMAIN Body
    BY <1>8 DEF LockShared
  <2>6. TypeOK'
    BY <2>2, <2>3, <2>4, <2>5 DEF TypeOK
  <2>7. Bounds'
    BY <1>8, <2>2, <2>3, <2>4, <2>5, LoopAssumption DEF LockShared, TypeOK, Bounds, InIteration
  <2> QED
    BY <2>6, <2>7 DEF TypeInv
<1>9. CASE NoLock(w)
  <2>1. Goto(w, "load", step[w])
    BY <1>9 DEF NoLock
  <2>2. /\ pc' \in [Workers -> Labels] /\ step' \in [Workers -> Nat \ {0}]
        /\ \A v \in Workers : /\ pc'[v] = IF v = w THEN "load" ELSE pc[v]
                              /\ step'[v] = IF v = w THEN step[w] ELSE step[v]
    BY <2>1, GotoType DEF Labels
  <2>3. UNCHANGED <<idx, reg, owner, val, ran>>
    BY <1>9 DEF NoLock
  <2>4. step[w] \in DOMAIN Body
    BY <1>9 DEF NoLock
  <2>5. TypeOK'
    BY <2>2, <2>3, <2>4 DEF TypeOK
  <2>6. Bounds'
    BY <1>9, <2>2, <2>3, <2>4, LoopAssumption DEF NoLock, TypeOK, Bounds, InIteration
  <2> QED
    BY <2>5, <2>6 DEF TypeInv
<1>10. CASE Load(w)
  <2>1. Goto(w, "store", step[w])
    BY <1>10 DEF Load
  <2>2. /\ pc' \in [Workers -> Labels] /\ step' \in [Workers -> Nat \ {0}]
        /\ \A v \in Workers : /\ pc'[v] = IF v = w THEN "store" ELSE pc[v]
                              /\ step'[v] = IF v = w THEN step[w] ELSE step[v]
    BY <2>1, GotoType DEF Labels
  <2>3. UNCHANGED <<idx, owner, val, ran>>
    BY <1>10 DEF Load
  <2>4. reg' \in [Workers -> SUBSET (Int \X Nat)]
    BY <1>10, LoopAssumption DEF Load, TypeOK, Bounds, InIteration
  <2>5. TypeOK'
    BY <2>2, <2>3, <2>4 DEF TypeOK
  <2>6. Bounds'
    BY <1>10, <2>2, <2>3, <2>4, LoopAssumption DEF Load, TypeOK, Bounds, InIteration
  <2> QED
    BY <2>5, <2>6 DEF TypeInv
<1>11. CASE Store(w)
  <2>1. Goto(w, "leave", step[w])
    BY <1>11 DEF Store
  <2>2. /\ pc' \in [Workers -> Labels] /\ step' \in [Workers -> Nat \ {0}]
        /\ \A v \in Workers : /\ pc'[v] = IF v = w THEN "leave" ELSE pc[v]
                              /\ step'[v] = IF v = w THEN step[w] ELSE step[v]
    BY <2>1, GotoType DEF Labels
  <2>3. UNCHANGED <<idx, reg, owner, ran>>
    BY <1>11 DEF Store
  <2>4. val' \in [Vars -> SUBSET (Int \X Nat)]
    BY <1>11, LoopAssumption DEF Store, TypeOK, Bounds, InIteration
  <2>5. TypeOK'
    BY <2>2, <2>3, <2>4 DEF TypeOK
  <2>6. Bounds'
    BY <1>11, <2>2, <2>3, <2>4, LoopAssumption DEF Store, TypeOK, Bounds, InIteration
  <2> QED
    BY <2>5, <2>6 DEF TypeInv
<1>12. CASE UnlockShared(w)
  <2>1. Goto(w, "update", step[w] + 1)
    BY <1>12 DEF UnlockShared
  <2>2. /\ pc' \in [Workers -> Labels] /\ step' \in [Workers -> Nat \ {0}]
        /\ \A v \in Workers : /\ pc'[v] = IF v = w THEN "update" ELSE pc[v]
                              /\ step'[v] = IF v = w THEN step[w] + 1 ELSE step[v]
    BY <2>1, GotoType DEF Labels
  <2>3. UNCHANGED <<idx, reg, val, ran>>
    BY <1>12 DEF UnlockShared
  <2>4. owner' \in [Mutexes -> Workers \cup {Free}]
    BY <1>12, LoopAssumption DEF UnlockShared, Unlock, TypeOK, Bounds, InIteration
  <2>5. TypeOK'
    BY <2>2, <2>3, <2>4 DEF TypeOK
  <2>6. Bounds'
    BY <1>12, <2>2, <2>3, <2>4, LoopAssumption DEF UnlockShared, TypeOK, Bounds, InIteration
  <2> QED
    BY <2>5, <2>6 DEF TypeInv
<1>13. CASE LeaveBody(w)
  <2>1. Goto(w, "release", 1)
    BY <1>13 DEF LeaveBody
  <2>2. /\ pc' \in [Workers -> Labels] /\ step' \in [Workers -> Nat \ {0}]
        /\ \A v \in Workers : /\ pc'[v] = IF v = w THEN "release" ELSE pc[v]
                              /\ step'[v] = IF v = w THEN 1 ELSE step[v]
    BY <2>1, GotoType DEF Labels
  <2>3. UNCHANGED <<idx, reg, owner, val>>
    BY <1>13 DEF LeaveBody
  <2>4. ran' \in [Workers -> SUBSET (Start .. Limit - 1)]
    BY <1>13, LoopAssumption DEF LeaveBody, TypeOK, Bounds, InIteration
  <2>5. TypeOK'
    BY <2>2, <2>3, <2>4 DEF TypeOK
  <2>6. Bounds'
    BY <1>13, <2>2, <2>3, <2>4, LoopAssumption DEF LeaveBody, TypeOK, Bounds, InIteration
  <2> QED
    BY <2>5, <2>6 DEF TypeInv
<1>14. CASE UnlockCaptured(w)
  <2>1. Goto(w, "release", step[w] + 1)
    BY <1>14 DEF UnlockCaptured
  <2>2. /\ pc' \in [Workers -> Labels] /\ step' \in [Workers -> Nat \ {0}]
        /\ \A v \in Workers : /\ pc'[v] = IF v = w THEN "release" ELSE pc[v]
                              /\ step'[v] = IF v = w THEN step[w] + 1 ELSE step[v]
    BY <2>1, GotoType DEF Labels
  <2>3. UNCHANGED <<idx, reg, val, ran>>
    BY <1>14 DEF UnlockCaptured
  <2>4. owner' \in [Mutexes -> Workers \cup {Free}]
    BY <1>14, LoopAssumption DEF UnlockCaptured, Unlock, TypeOK, Bounds, InIteration
  <2>5. TypeOK'
    BY <2>2, <2>3, <2>4 DEF TypeOK
  <2>6. Bounds'
    BY <1>14, <2>2, <2>3, <2>4, LoopAssumption DEF UnlockCaptured, TypeOK, Bounds, InIteration
  <2> QED
    BY <2>5, <2>6 DEF TypeInv
<1>15. CASE Advance(w)
  <2>1. Goto(w, "test", 1)
    BY <1>15 DEF Advance
  <2>2. /\ pc' \in [Workers -> Labels] /\ step' \in [Workers -> Nat \ {0}]
        /\ \A v \in Workers : /\ pc'[v] = IF v = w THEN "test" ELSE pc[v]
                              /\ step'[v] = IF v = w THEN 1 ELSE step[v]
    BY <2>1, GotoType DEF Labels
  <2>3. UNCHANGED <<reg, owner, val, ran>>
    BY <1>15 DEF Advance
  <2>4. idx' \in [Workers -> Int] /\ \A v \in Workers : idx'[v] = IF v = w THEN idx[v] + N ELSE idx[v]
    BY <1>15, LoopAssumption DEF Advance, TypeOK, Bounds, InIteration
  <2>5. Start <= idx[w] + N
    <3>1. Start <= idx[w] /\ idx[w] \in Int
      BY <1>15 DEF Advance, TypeOK, Bounds
    <3> QED
      BY <3>1, LoopAssumption
  <2>6. TypeOK'
    BY <2>2, <2>3, <2>4, <2>5 DEF TypeOK
  <2>7. Bounds'
    BY <1>15, <2>2, <2>3, <2>4, <2>5, LoopAssumption DEF Advance, TypeOK, Bounds, InIteration
  <2> QED
    BY <2>6, <2>7 DEF TypeInv
<1> QED
  BY <1>5, <1>6, <1>7, <1>8, <1>9, <1>10, <1>11, <1>12, <1>13, <1>14, <1>15 DEF Worker

LEMMA TypeInvariant == Spec => []TypeInv
<1>1. TypeInv /\ [Next]_vars => TypeInv'
  <2> SUFFICES ASSUME TypeInv, [Next]_vars PROVE TypeInv'
    OBVIOUS
  <2>1. CASE Main
    BY <2>1, MainType
  <2>2. ASSUME NEW w \in Workers, Worker(w) PROVE TypeInv'
    BY <2>2, WorkerType
  <2>3. CASE UNCHANGED vars
    <3>1. Body' = Body
      BY <2>3, SameLoop DEF vars
    <3> QED
      BY <2>3, <3>1 DEF TypeInv, TypeOK, Bounds, InIteration, vars
  <2> QED
    BY <2>1, <2>2, <2>3 DEF Next
<1> QED
  BY <1>1, InitType, PTL DEF Spec

(* Every variable keeps its type, and the body runs only for indices of    *)
(* the source loop (TypeOK), whatever the number of workers.               *)
THEOREM TypeCorrect == Spec => []TypeOK
<1>1. TypeInv => TypeOK
  BY DEF TypeInv
<1> QED
  BY <1>1, TypeInvariant, PTL

-----------------------------------------------------------------------------
(* Mutual exclusion *)

(* The mutexes that a worker holds at each label. *)
HoldsCaptured(w, j) ==
  \/ pc[w] = "outer" /\ j < step[w]
  \/ pc[w] \in {"update", "load", "store", "leave"}
  \/ pc[w] = "release" /\ step[w] <= j

HoldsShared(w) ==
  pc[w] \in {"load", "store", "leave"} /\ Body[step[w]] \in Shared

CapturedHeld ==
  \A v \in Workers : \A j \in DOMAIN Captured :
    HoldsCaptured(v, j) => owner[Local(Captured[j])] = v

(* A variable that is both captured and marked is never reached: its       *)
(* worker would wait for the mutex it holds.                               *)
SharedHeld ==
  \A v \in Workers :
    HoldsShared(v) => /\ Body[step[v]] \notin Elements(Captured)
                      /\ owner[Global(Body[step[v]])] = v

LockInv == CapturedHeld /\ SharedHeld

LEMMA MutexesDiffer ==
  \A x, y \in Vars : /\ Local(x) \in Mutexes /\ Global(x) \in Mutexes
                     /\ Local(x) # Global(y)
                     /\ Local(x) = Local(y) => x = y
                     /\ Global(x) = Global(y) => x = y
BY DEF Local, Global, Mutexes

LEMMA MainLocks == TypeInv /\ LockInv /\ Main => LockInv'
<1> SUFFICES ASSUME TypeInv, LockInv, Main PROVE LockInv'
  OBVIOUS
<1>1. /\ loop' = loop /\ UNCHANGED <<step, owner>>
      /\ \A v \in Workers : pc'[v] = pc[v] \/ pc'[v] = "test"
  BY DEF Main, Create, Created, Join, Joined, TypeInv, TypeOK
<1>2. Captured' = Captured /\ Body' = Body /\ Shared' = Shared
  BY <1>1, SameLoop
<1>3. CapturedHeld'
  BY <1>1, <1>2 DEF LockInv, CapturedHeld, HoldsCaptured
<1>4. SharedHeld'
  BY <1>1, <1>2 DEF LockInv, SharedHeld, HoldsShared, Elements
<1> QED
  BY <1>3, <1>4 DEF LockInv

LEMMA WorkerLocks ==
  ASSUME NEW w \in Workers, TypeInv, LockInv, Worker(w)
  PROVE  LockInv'
<1>1. /\ Len(Captured) \in Nat /\ Len(Body) \in Nat
      /\ DOMAIN Captured = 1 .. Len(Captured) /\ DOMAIN Body = 1 .. Len(Body)
      /\ \A j \in DOMAIN Captured : Captured[j] \in Vars
      /\ \A k \in DOMAIN Body : Body[k] \in Vars
      /\ \A j, k \in DOMAIN Captured : Captured[j] = Captured[k] => j = k
  BY LoopFields DEF TypeInv, TypeOK
<1>2. loop' = loop
  BY DEF Worker, Test, LockCaptured, EnterBody, LockShared, NoLock, Load, Store,
         UnlockShared, LeaveBody, UnlockCaptured, Advance
<1>3. Captured' = Captured /\ Body' = Body /\ Shared' = Shared
  BY <1>2, SameLoop
<1>4. /\ \A v \in Workers : step[v] \in Nat \ {0} /\ v # Free
      /\ \A v \in Workers : pc[v] \in {"load", "store", "leave"} => step[v] \in DOMAIN Body
      /\ owner \in [Mutexes -> Workers \cup {Free}]
      /\ TypeOK /\ step[w] + 1 \in Nat \ {0}
  <2>1. TypeOK /\ Bounds
    BY DEF TypeInv
  <2>2. /\ step \in [Workers -> Nat \ {0}]
        /\ owner \in [Mutexes -> Workers \cup {Free}]
    BY <2>1 DEF TypeOK
  <2>3. \A v \in Workers : step[v] \in Nat \ {0}
    BY <2>2
  <2>4. \A v \in Workers : v # Free
    BY LoopAssumption DEF Free
  <2>5. \A v \in Workers : pc[v] \in {"load", "store", "leave"} => step[v] \in DOMAIN Body
    BY <2>1 DEF Bounds
  <2>6. step[w] + 1 \in Nat \ {0}
    BY <2>3
  <2> QED
    BY <2>1, <2>2, <2>3, <2>4, <2>5, <2>6
<1>5. CapturedHeld /\ SharedHeld
  BY DEF LockInv
<1> USE <1>1, <1>3, <1>4
<1>6. CASE Test(w)
  <2>1. Goto(w, IF idx[w] < Limit THEN "outer" ELSE "done", 1)
    BY <1>6 DEF Test, Goto
  <2>2. \A v \in Workers :
          /\ pc'[v] = IF v = w THEN (IF idx[w] < Limit THEN "outer" ELSE "done") ELSE pc[v]
          /\ step'[v] = IF v = w THEN 1 ELSE step[v]
    BY <2>1, GotoType DEF Labels
  <2>3. owner' = owner
    BY <1>6 DEF Test
  <2>4. CapturedHeld'
    BY <1>6, <1>5, <2>2, <2>3, MutexesDiffer DEF Test, CapturedHeld, HoldsCaptured
  <2>5. SharedHeld'
    BY <1>6, <1>5, <2>2, <2>3, MutexesDiffer DEF Test, SharedHeld, HoldsShared, Elements
  <2> QED
    BY <2>4, <2>5 DEF LockInv
<1>7. CASE LockCaptured(w)
  <2>1. Goto(w, "outer", step[w] + 1)
    BY <1>7 DEF LockCaptured
  <2>2. \A v \in Workers :
          /\ pc'[v] = IF v = w THEN "outer" ELSE pc[v]
          /\ step'[v] = IF v = w THEN step[w] + 1 ELSE step[v]
    BY <2>1, GotoType DEF Labels
  <2>3. step[w] \in DOMAIN Captured /\ owner[Local(Captured[step[w]])] = Free
    BY <1>7 DEF LockCaptured, Lock
  <2>4. \A m \in Mutexes : owner'[m] = IF m = Local(Captured[step[w]]) THEN w ELSE owner[m]
    BY <1>7, MutexesDiffer DEF LockCaptured, Lock
  <2>5. CapturedHeld'
    BY <1>7, <1>5, <2>2, <2>3, <2>4, MutexesDiffer DEF LockCaptured, CapturedHeld, HoldsCaptured
  <2>6. SharedHeld'
    BY <1>7, <1>5, <2>2, <2>3, <2>4, MutexesDiffer DEF LockCaptured, SharedHeld, HoldsShared, Elements
  <2> QED
    BY <2>5, <2>6 DEF LockInv
<1>8. CASE EnterBody(w)
  <2>1. Goto(w, "update", 1)
    BY <1>8 DEF EnterBody
  <2>2. \A v \in Workers :
          /\ pc'[v] = IF v = w THEN "update" ELSE pc[v]
          /\ step'[v] = IF v = w THEN 1 ELSE step[v]
    BY <2>1, GotoType DEF Labels
  <2>3. owner' = owner
    BY <1>8 DEF EnterBody
  <2>4. CapturedHeld'
    BY <1>8, <1>5, <2>2, <2>3, MutexesDiffer DEF EnterBody, CapturedHeld, HoldsCaptured
  <2>5. SharedHeld'
    BY <1>8, <1>5, <2>2, <2>3, MutexesDiffer DEF EnterBody, SharedHeld, HoldsShared, Elements
  <2> QED
    BY <2>4, <2>5 DEF LockInv
<1>9. CASE LockShared(w)
  <2>1. Goto(w, "load", step[w])
    BY <1>9 DEF LockShared
  <2>2. \A v \in Workers :
          /\ pc'[v] = IF v = w THEN "load" ELSE pc[v]
          /\ step'[v] = IF v = w THEN step[w] ELSE step[v]
    BY <2>1, GotoType DEF Labels
  <2>3. Body[step[w]] \in Vars /\ Body[step[w]] \notin Elements(Captured)
    <3>1. step[w] \in DOMAIN Body /\ owner[MutexOf(Body[step[w]])] = Free
      BY <1>9 DEF LockShared, Lock
    <3>2. \A j \in DOMAIN Captured : owner[Local(Captured[j])] = w
      BY <1>9, <1>5 DEF LockShared, CapturedHeld, HoldsCaptured
    <3>3. ASSUME Body[step[w]] \in Elements(Captured) PROVE FALSE
      <4>1. PICK j \in DOMAIN Captured : Body[step[w]] = Captured[j]
        BY <3>3 DEF Elements
      <4>2. owner[MutexOf(Body[step[w]])] = w
        BY <3>2, <3>3, <4>1 DEF MutexOf
      <4> QED
        BY <3>1, <4>2
    <3> QED
      BY <3>1, <3>3
  <2>4. owner[Global(Body[step[w]])] = Free
    BY <1>9, <2>3 DEF LockShared, Lock, MutexOf
  <2>5. \A m \in Mutexes : owner'[m] = IF m = Global(Body[step[w]]) THEN w ELSE owner[m]
    BY <1>9, <2>3, MutexesDiffer DEF LockShared, Lock, MutexOf
  <2>6. CapturedHeld'
    BY <1>9, <1>5, <2>2, <2>3, <2>4, <2>5, MutexesDiffer DEF LockShared, CapturedHeld, HoldsCaptured
  <2>7. SharedHeld'
    BY <1>9, <1>5, <2>2, <2>3, <2>4, <2>5, MutexesDiffer DEF LockShared, SharedHeld, HoldsShared, Elements
  <2> QED
    BY <2>6, <2>7 DEF LockInv
<1>10. CASE NoLock(w)
  <2>1. Goto(w, "load", step[w])
    BY <1>10 DEF NoLock
  <2>2. \A v \in Workers :
          /\ pc'[v] = IF v = w THEN "load" ELSE pc[v]
          /\ step'[v] = IF v = w THEN step[w] ELSE step[v]
    BY <2>1, GotoType DEF Labels
  <2>3. owner' = owner
    BY <1>10 DEF NoLock
  <2>4. CapturedHeld'
    BY <1>10, <1>5, <2>2, <2>3, MutexesDiffer DEF NoLock, CapturedHeld, HoldsCaptured
  <2>5. SharedHeld'
    BY <1>10, <1>5, <2>2, <2>3, MutexesDiffer DEF NoLock, SharedHeld, HoldsShared, Elements
  <2> QED
    BY <2>4, <2>5 DEF LockInv
<1>11. CASE Load(w)
  <2>1. Goto(w, "store", step[w])
    BY <1>11 DEF Load
  <2>2. \A v \in Workers :
          /\ pc'[v] = IF v = w THEN "store" ELSE pc[v]
          /\ step'[v] = IF v = w THEN step[w] ELSE step[v]
    BY <2>1, GotoType DEF Labels
  <2>3. owner' = owner
    BY <1>11 DEF Load
  <2>4. CapturedHeld'
    BY <1>11, <1>5, <2>2, <2>3, MutexesDiffer DEF Load, CapturedHeld, HoldsCaptured
  <2>5. SharedHeld'
    BY <1>11, <1>5, <2>2, <2>3, MutexesDiffer DEF Load, SharedHeld, HoldsShared, Elements
  <2> QED
    BY <2>4, <2>5 DEF LockInv
<1>12. CASE Store(w)
  <2>1. Goto(w, "leave", step[w])
    BY <1>12 DEF Store
  <2>2. \A v \in Workers :
          /\ pc'[v] = IF v = w THEN "leave" ELSE pc[v]
          /\ step'[v] = IF v = w THEN step[w] ELSE step[v]
    BY <2>1, GotoType DEF Labels
  <2>3. owner' = owner
    BY <1>12 DEF Store
  <2>4. CapturedHeld'
    BY <1>12, <1>5, <2>2, <2>3, MutexesDiffer DEF Store, CapturedHeld, HoldsCaptured
  <2>5. SharedHeld'
    BY <1>12, <1>5, <2>2, <2>3, MutexesDiffer DEF Store, SharedHeld, HoldsShared, Elements
  <2> QED
    BY <2>4, <2>5 DEF LockInv
<1>13. CASE UnlockShared(w)
  <2>1. Goto(w, "update", step[w] + 1)
    BY <1>13 DEF UnlockShared
  <2>2. \A v \in Workers :
          /\ pc'[v] = IF v = w THEN "update" ELSE pc[v]
          /\ step'[v] = IF v = w THEN step[w] + 1 ELSE step[v]
    BY <2>1, GotoType DEF Labels
  <2>3. step[w] \in DOMAIN Body /\ Body[step[w]] \in Vars
    BY <1>13 DEF UnlockShared
  <2>4. Body[step[w]] \in Shared =>
          /\ Body[step[w]] \notin Elements(Captured)
          /\ owner[Global(Body[step[w]])] = w
    BY <1>13, <1>5 DEF UnlockShared, SharedHeld, HoldsShared
  <2>5. \A m \in Mutexes : owner'[m] =
          IF Body[step[w]] \in Shared /\ m = Global(Body[step[w]]) THEN Free ELSE owner[m]
    BY <1>13, <2>3, <2>4, MutexesDiffer DEF UnlockShared, Unlock, MutexOf
  <2>6. CapturedHeld'
    BY <1>13, <1>5, <2>2, <2>3, <2>4, <2>5, MutexesDiffer DEF UnlockShared, CapturedHeld, HoldsCaptured
  <2>7. SharedHeld'
    BY <1>13, <1>5, <2>2, <2>3, <2>4, <2>5, MutexesDiffer DEF UnlockShared, SharedHeld, HoldsShared, Elements
  <2> QED
    BY <2>6, <2>7 DEF LockInv
<1>14. CASE LeaveBody(w)
  <2>1. Goto(w, "release", 1)
    BY <1>14 DEF LeaveBody
  <2>2. \A v \in Workers :
          /\ pc'[v] = IF v = w THEN "release" ELSE pc[v]
          /\ step'[v] = IF v = w THEN 1 ELSE step[v]
    BY <2>1, GotoType DEF Labels
  <2>3. owner' = owner
    BY <1>14 DEF LeaveBody
  <2>4. CapturedHeld'
    BY <1>14, <1>5, <2>2, <2>3, MutexesDiffer DEF LeaveBody, CapturedHeld, HoldsCaptured
  <2>5. SharedHeld'
    BY <1>14, <1>5, <2>2, <2>3, MutexesDiffer DEF LeaveBody, SharedHeld, HoldsShared, Elements
  <2> QED
    BY <2>4, <2>5 DEF LockInv
<1>15. CASE UnlockCaptured(w)
  <2>1. Goto(w, "release", step[w] + 1)
    BY <1>15 DEF UnlockCaptured
  <2>2. \A v \in Workers :
          /\ pc'[v] = IF v = w THEN "release" ELSE pc[v]
          /\ step'[v] = IF v = w THEN step[w] + 1 ELSE step[v]
    BY <2>1, GotoType DEF Labels
  <2>3. step[w] \in DOMAIN Captured /\ owner[Local(Captured[step[w]])] = w
    BY <1>15, <1>5 DEF UnlockCaptured, CapturedHeld, HoldsCaptured
  <2>4. \A m \in Mutexes : owner'[m] = IF m = Local(Captured[step[w]]) THEN Free ELSE owner[m]
    BY <1>15, MutexesDiffer DEF UnlockCaptured, Unlock
  <2>5. CapturedHeld'
    BY <1>15, <1>5, <2>2, <2>3, <2>4, MutexesDiffer DEF UnlockCaptured, CapturedHeld, HoldsCaptured
  <2>6. SharedHeld'
    BY <1>15, <1>5, <2>2, <2>3, <2>4, MutexesDiffer DEF UnlockCaptured, SharedHeld, HoldsShared, Elements
  <2> QED
    BY <2>5, <2>6 DEF LockInv
<1>16. CASE Advance(w)
  <2>1. Goto(w, "test", 1)
    BY <1>16 DEF Advance
  <2>2. \A v \in Workers :
          /\ pc'[v] = IF v = w THEN "test" ELSE pc[v]
          /\ step'[v] = IF v = w THEN 1 ELSE step[v]
    BY <2>1, GotoType DEF Labels
  <2>3. owner' = owner
    BY <1>16 DEF Advance
  <2>4. CapturedHeld'
    BY <1>16, <1>5, <2>2, <2>3, MutexesDiffer DEF Advance, CapturedHeld, HoldsCaptured
  <2>5. SharedHeld'
    BY <1>16, <1>5, <2>2, <2>3, MutexesDiffer DEF Advance, SharedHeld, HoldsShared, Elements
  <2> QED
    BY <2>4, <2>5 DEF LockInv
<1> QED
  BY <1>6, <1>7, <1>8, <1>9, <1>10, <1>11, <1>12, <1>13, <1>14, <1>15, <1>16 DEF Worker

LEMMA LockInvariant == Spec => [](TypeInv /\ LockInv)
<1>1. Init => LockInv
  BY LoopAssumption
     DEF Init, LockInv, CapturedHeld, SharedHeld, HoldsCaptured, HoldsShared
<1>2. TypeInv /\ LockInv /\ [Next]_vars => LockInv'
  <2> SUFFICES ASSUME TypeInv, LockInv, [Next]_vars PROVE LockInv'
    OBVIOUS
  <2>1. CASE Main
    BY <2>1, MainLocks
  <2>2. ASSUME NEW w \in Workers, Worker(w) PROVE LockInv'
    BY <2>2, WorkerLocks
  <2>3. CASE UNCHANGED vars
    <3>1. Captured' = Captured /\ Body' = Body /\ Shared' = Shared
      BY <2>3, SameLoop DEF vars
    <3>2. CapturedHeld'
      BY <2>3, <3>1 DEF vars, LockInv, CapturedHeld, HoldsCaptured
    <3>3. SharedHeld'
      BY <2>3, <3>1 DEF vars, LockInv, SharedHeld, HoldsShared, Elements
    <3> QED
      BY <3>2, <3>3 DEF LockInv
  <2> QED
    BY <2>1, <2>2, <2>3 DEF Next
<1> QED
  BY <1>1, <1>2, TypeInvariant, PTL DEF Spec

LEMMA LocksExclude == TypeInv /\ LockInv => Exclusion
<1> SUFFICES ASSUME TypeInv, LockInv,
                    NEW v \in Workers, NEW w \in Workers, NEW x \in Vars,
                    Updating(v, x), Updating(w, x)
             PROVE  v = w
  BY DEF Exclusion
<1>1. /\ step[v] \in DOMAIN Body /\ Body[step[v]] = x
      /\ Body[step[w]] = x
  BY DEF Updating, TypeInv, Bounds
<1>2. CASE x \in Shared
  BY <1>1, <1>2 DEF Updating, LockInv, SharedHeld, HoldsShared
<1>3. CASE x \in Elements(Captured)
  <2>1. PICK j \in DOMAIN Captured : Captured[j] = x
    BY <1>3 DEF Elements
  <2> QED
    BY <2>1 DEF Updating, LockInv, CapturedHeld, HoldsCaptured
<1>4. x \in Shared \/ x \in Elements(Captured)
  BY <1>1, LoopFields DEF TypeInv, TypeOK
<1> QED
  BY <1>2, <1>3, <1>4

(* No two workers are inside an update of the same variable (Exclusion):   *)
(* each such update is covered by the lock around the body or by the lock  *)
(* around the update, and whoever is inside owns that mutex.               *)
THEOREM ExclusionHolds == Spec => []Exclusion
BY LockInvariant, LocksExclude, PTL

-----------------------------------------------------------------------------
(* Updates are not lost *)

(* The value a worker is about to write back is still the current one.     *)
RegInv ==
  \A w \in Workers : pc[w] = "store" => reg[w] = val[Body[step[w]]]

LEMMA WorkerValues ==
  ASSUME NEW w \in Workers, TypeInv, LockInv, RegInv, Worker(w)
  PROVE  RegInv' /\ \A x \in Vars : val[x] \subseteq val'[x]
<1>1. /\ DOMAIN Body = 1 .. Len(Body)
      /\ \A k \in DOMAIN Body : Body[k] \in Vars
      /\ TypeOK
      /\ \A v \in Workers : pc[v] \in {"load", "store", "leave"} => step[v] \in DOMAIN Body
  BY LoopFields DEF TypeInv, TypeOK, Bounds
<1>2. loop' = loop
  BY DEF Worker, Test, LockCaptured, EnterBody, LockShared, NoLock, Load, Store,
         UnlockShared, LeaveBody, UnlockCaptured, Advance
<1>3. Body' = Body
  BY <1>2, SameLoop
<1> USE <1>1, <1>3
<1>4. CASE Load(w)
  <2>1. /\ \A v \in Workers : /\ pc'[v] = IF v = w THEN "store" ELSE pc[v]
                              /\ step'[v] = step[v]
        /\ \A v \in Workers : reg'[v] = IF v = w THEN val[Body[step[w]]] ELSE reg[v]
        /\ val' = val
    BY <1>4 DEF Load, Goto, TypeOK
  <2> QED
    BY <2>1 DEF RegInv
<1>5. CASE Store(w)
  <2>1. /\ \A v \in Workers : /\ pc'[v] = IF v = w THEN "leave" ELSE pc[v]
                              /\ step'[v] = step[v]
        /\ reg' = reg /\ pc[w] = "store"
        /\ \A x \in Vars : val'[x] = IF x = Body[step[w]]
                                     THEN reg[w] \cup {<<idx[w], step[w]>>} ELSE val[x]
    BY <1>5 DEF Store, Goto, TypeOK
  <2>2. \A v \in Workers : pc[v] = "store" /\ v # w => Body[step[v]] # Body[step[w]]
    BY <2>1, LocksExclude DEF Exclusion, Updating
  <2>3. RegInv'
    BY <2>1, <2>2 DEF RegInv
  <2>4. reg[w] = val[Body[step[w]]]
    BY <2>1 DEF RegInv
  <2> QED
    BY <2>1, <2>3, <2>4
<1>6. CASE ~Load(w) /\ ~Store(w)
  <2>1. /\ reg' = reg /\ val' = val
        /\ \A v \in Workers : pc'[v] = "store" => pc[v] = "store" /\ step'[v] = step[v]
    BY <1>6 DEF Worker, Test, LockCaptured, EnterBody, LockShared, NoLock,
                UnlockShared, LeaveBody, UnlockCaptured, Advance, Goto, TypeOK
  <2> QED
    BY <2>1 DEF RegInv
<1> QED
  BY <1>4, <1>5, <1>6

LEMMA StepValues ==
  TypeInv /\ LockInv /\ RegInv /\ [Next]_vars
    => RegInv' /\ \A x \in Vars : val[x] \subseteq val'[x]
<1> SUFFICES ASSUME TypeInv, LockInv, RegInv, [Next]_vars
             PROVE  RegInv' /\ \A x \in Vars : val[x] \subseteq val'[x]
  OBVIOUS
<1>1. CASE Main \/ UNCHANGED vars
  <2>1. /\ loop' = loop /\ UNCHANGED <<step, reg, val>>
        /\ \A v \in Workers : pc'[v] = pc[v] \/ pc'[v] = "test"
    BY <1>1 DEF vars, Main, Create, Created, Join, Joined, TypeInv, TypeOK
  <2>2. Body' = Body
    BY <2>1, SameLoop
  <2> QED
    BY <2>1, <2>2 DEF RegInv
<1>2. ASSUME NEW w \in Workers, Worker(w)
      PROVE  RegInv' /\ \A x \in Vars : val[x] \subseteq val'[x]
  BY <1>2, WorkerValues
<1> QED
  BY <1>1, <1>2 DEF Next

(* A store never undoes an update made by another worker since the load    *)
(* (NoLostUpdate), because the two are excluded from each other.           *)
THEOREM NoLostUpdateHolds == Spec => NoLostUpdate
<1>1. Init => RegInv
  BY DEF Init, RegInv
<1>2. TypeInv /\ LockInv /\ RegInv /\ [Next]_vars
        => [\A x \in Vars : val[x] \subseteq val'[x]]_vars
  BY StepValues
<1>3. TypeInv /\ LockInv /\ RegInv /\ [Next]_vars => RegInv'
  BY StepValues
<1> QED
  BY <1>1, <1>2, <1>3, LockInvariant, PTL DEF Spec, NoLostUpdate

-----------------------------------------------------------------------------
(* The slices of the workers *)

Slice(w) == {Start + w + r * N : r \in Nat}

LEMMA SlicesDiffer ==
  ASSUME NEW v \in Workers, NEW w \in Workers, NEW r \in Nat, NEW s \in Nat,
         v + r * N = w + s * N
  PROVE  v = w
<1>1. N \in Nat /\ v \in Nat /\ w \in Nat /\ v < N /\ w < N
  BY LoopAssumption
<1>2. ASSUME r < s PROVE FALSE
  <2>1. PICK d \in Nat : s = r + 1 + d
    BY <1>2
  <2>2. s * N = r * N + N + d * N
    BY <2>1, <1>1
  <2>3. d * N >= 0 /\ r * N \in Nat /\ d * N \in Nat
    BY <1>1
  <2> QED
    BY <1>1, <2>2, <2>3
<1>3. ASSUME s < r PROVE FALSE
  <2>1. PICK d \in Nat : r = s + 1 + d
    BY <1>3
  <2>2. r * N = s * N + N + d * N
    BY <2>1, <1>1
  <2>3. d * N >= 0 /\ s * N \in Nat /\ d * N \in Nat
    BY <1>1
  <2> QED
    BY <1>1, <2>2, <2>3
<1>4. r = s
  BY <1>2, <1>3
<1>5. r * N \in Int
  BY <1>1
<1> QED
  BY <1>1, <1>4, <1>5

SliceInv ==
  \A w \in Workers : /\ ran[w] \subseteq Slice(w)
                     /\ pc[w] # "none" => idx[w] \in Slice(w)

LEMMA SlicesAdvance ==
  ASSUME NEW w \in Workers, NEW i \in Slice(w)
  PROVE  i + N \in Slice(w)
<1>1. PICK r \in Nat : i = Start + w + r * N
  BY DEF Slice
<1>2. N \in Nat /\ Start \in Int /\ w \in Int /\ r * N \in Int
  BY LoopAssumption
<1>3. (r + 1) * N = r * N + N
  BY <1>2
<1>4. i + N = Start + w + (r + 1) * N
  BY <1>1, <1>2, <1>3
<1> QED
  BY <1>4 DEF Slice

LEMMA SliceStep == TypeInv /\ SliceInv /\ [Next]_vars => SliceInv'
<1> SUFFICES ASSUME TypeInv, SliceInv, [Next]_vars PROVE SliceInv'
  OBVIOUS
<1> USE DEF TypeInv, TypeOK, SliceInv
<1>1. CASE Create
  <2>1. next \in Workers
    BY <1>1, LoopAssumption DEF Create
  <2>2. next + Start = Start + next + 0 * N
    BY <2>1, LoopAssumption
  <2>3. next + Start \in Slice(next)
    BY <2>2 DEF Slice
  <2>4. /\ ran' = ran
        /\ \A v \in Workers : /\ pc'[v] = IF v = next THEN "test" ELSE pc[v]
                              /\ idx'[v] = IF v = next THEN next + Start ELSE idx[v]
    BY <1>1 DEF Create
  <2> QED
    BY <2>3, <2>4
<1>2. CASE Created \/ Join \/ Joined \/ UNCHANGED vars
  BY <1>2 DEF Created, Join, Joined, vars
<1>3. ASSUME NEW w \in Workers, Worker(w) PROVE SliceInv'
  <2>1. CASE LeaveBody(w)
    <3>1. /\ idx' = idx /\ idx[w] \in Slice(w)
          /\ \A v \in Workers : /\ pc'[v] # "none" => pc[v] # "none"
                                /\ ran'[v] = IF v = w THEN ran[w] \cup {idx[w]} ELSE ran[v]
      BY <2>1 DEF LeaveBody, Goto
    <3> QED
      BY <3>1
  <2>2. CASE Advance(w)
    <3>1. idx[w] + N \in Slice(w)
      BY <2>2, SlicesAdvance DEF Advance
    <3>2. /\ ran' = ran
          /\ \A v \in Workers : /\ pc'[v] # "none" => pc[v] # "none"
                                /\ idx'[v] = IF v = w THEN idx[w] + N ELSE idx[v]
      BY <2>2 DEF Advance, Goto
    <3> QED
      BY <3>1, <3>2
  <2>3. CASE ~LeaveBody(w) /\ ~Advance(w)
    <3>1. /\ UNCHANGED <<idx, ran>>
          /\ \A v \in Workers : pc'[v] # "none" => pc[v] # "none"
      BY <1>3, <2>3 DEF Worker, Test, LockCaptured, EnterBody, LockShared, NoLock,
           Load, Store, UnlockShared, UnlockCaptured, Goto
    <3> QED
      BY <3>1
  <2> QED
    BY <2>1, <2>2, <2>3
<1> QED
  BY <1>1, <1>2, <1>3 DEF Next, Main

(* No index is run by two workers (SlicesDisjoint): each sees only indices *)
(* congruent to Start plus its own number.                                 *)
THEOREM SlicesDisjointHolds == Spec => []SlicesDisjoint
<1>1. Init => SliceInv
  BY DEF Init, SliceInv
<1>2. SliceInv => SlicesDisjoint
  <2> SUFFICES ASSUME SliceInv, NEW v \in Workers, NEW w \in Workers, v # w,
                      NEW i \in ran[v], i \in ran[w]
               PROVE  FALSE
    BY DEF SlicesDisjoint
  <2>1. PICK r \in Nat : i = Start + v + r * N
    BY DEF SliceInv, Slice
  <2>2. PICK s \in Nat : i = Start + w + s * N
    BY DEF SliceInv, Slice
  <2>3. r * N \in Int /\ s * N \in Int /\ Start \in Int /\ v \in Int /\ w \in Int
    BY LoopAssumption
  <2>4. v + r * N = w + s * N
    BY <2>1, <2>2, <2>3
  <2> QED
    BY <2>4, SlicesDiffer
<1> QED
  BY <1>1, <1>2, SliceStep, TypeInvariant, PTL DEF Spec

-----------------------------------------------------------------------------
(* The arithmetic of the slices *)

LEMMA SliceFacts ==
  ASSUME NEW w \in Workers
  PROVE  /\ Slice(w) \subseteq Int
         /\ \A i \in Slice(w) : Start + w <= i
         /\ \A i, j \in Slice(w) : i < j + N => i <= j
<1>1. N \in Nat \ {0} /\ w \in Nat /\ Start \in Int
  BY LoopAssumption
<1>2. ASSUME NEW r \in Nat PROVE r * N \in Nat
  BY <1>1
<1>3. Slice(w) \subseteq Int /\ \A i \in Slice(w) : Start + w <= i
  BY <1>1, <1>2 DEF Slice
<1>4. ASSUME NEW i \in Slice(w), NEW j \in Slice(w), i < j + N PROVE i <= j
  <2>1. PICK r \in Nat : i = Start + w + r * N
    BY DEF Slice
  <2>2. PICK s \in Nat : j = Start + w + s * N
    BY DEF Slice
  <2>3. CASE r <= s
    <3>1. PICK d \in Nat : s = r + d
      BY <2>3
    <3>2. s * N = r * N + d * N
      BY <3>1, <1>1
    <3>3. d * N \in Nat /\ r * N \in Nat
      BY <1>2
    <3> QED
      BY <2>1, <2>2, <3>2, <3>3, <1>1
  <2>4. CASE s < r
    <3>1. PICK d \in Nat : r = s + 1 + d
      BY <2>4
    <3>2. r * N = s * N + N + d * N
      BY <3>1, <1>1
    <3>3. d * N \in Nat /\ s * N \in Nat
      BY <1>2
    <3> QED
      BY <2>1, <2>2, <3>2, <3>3, <1>1, <1>4
  <2> QED
    BY <2>3, <2>4
<1> QED
  BY <1>3, <1>4

LEMMA SlicesApart ==
  ASSUME NEW v \in Workers, NEW w \in Workers, NEW i \in Slice(v), i \in Slice(w)
  PROVE  v = w
<1>1. PICK r \in Nat : i = Start + v + r * N
  BY DEF Slice
<1>2. PICK s \in Nat : i = Start + w + s * N
  BY DEF Slice
<1>3. Start \in Int /\ N \in Int
  BY LoopAssumption
<1>4. Start + v + r * N = Start + w + s * N
  BY <1>1, <1>2
<1>5. v + r * N = w + s * N
  <2> DEFINE p == r * N
             q == s * N
  <2>1. p \in Int /\ q \in Int
    BY <1>3
  <2>2. Start + v + p = Start + w + q
    BY <1>4
  <2> HIDE DEF p, q
  <2>3. v + p = w + q
    BY <1>3, <2>1, <2>2
  <2> QED
    BY <2>3 DEF p, q
<1> QED
  BY <1>5, SlicesDiffer

(* Every index of the loop is in the slice of some worker. *)
LEMMA SlicesCover ==
  ASSUME NEW i \in Int, Start <= i
  PROVE  \E w \in Workers : i \in Slice(w)
<1> DEFINE d == i - Start
           r == d \div N
           w == d % N
<1>1. N \in Nat \ {0} /\ Start \in Int /\ d \in Nat
  BY LoopAssumption
<1>2. r \in Nat /\ w \in Workers /\ d = N * r + w
  <2> HIDE DEF d
  <2> QED
    BY <1>1
<1>3. N * r = r * N /\ r * N \in Int
  <2> HIDE DEF r
  <2> QED
    BY <1>1, <1>2
<1>4. i = Start + w + r * N
  <2>1. i = Start + d
    BY <1>1
  <2> HIDE DEF d, r, w
  <2> QED
    BY <2>1, <1>1, <1>2, <1>3
<1> QED
  BY <1>2, <1>4 DEF Slice

-----------------------------------------------------------------------------
(* What each worker has done *)

(* Worker w has finished the iteration of index i. *)
Past(w, i) ==
  /\ pc[w] # "none"
  /\ i < idx[w] \/ (i = idx[w] /\ pc[w] = "release")

(* Worker w has made update k of the iteration of index i. *)
Within(w, k) ==
  \/ pc[w] \in {"update", "load", "store"} /\ k < step[w]
  \/ pc[w] = "leave" /\ k <= step[w]

Passed(w, i, k) == Past(w, i) \/ (i = idx[w] /\ Within(w, k))

RanInv ==
  \A w \in Workers : \A i \in Slice(w) : i \in ran[w] <=> Past(w, i)

(* The variables contain only updates of the loop, each in the variable    *)
(* that the statement updates.                                             *)
OwnUpdates ==
  \A x \in Vars : \A u \in val[x] :
    /\ u \in (Start .. Limit - 1) \X DOMAIN Body
    /\ Body[u[2]] = x

ValInv ==
  /\ OwnUpdates
  /\ \A w \in Workers : \A i \in Slice(w) : \A k \in DOMAIN Body :
       <<i, k>> \in val[Body[k]] <=> Passed(w, i, k)

DoneInv == \A w \in Workers : pc[w] = "done" => Limit <= idx[w]

MainInv ==
  /\ main = "create" => \A w \in Workers : w < next <=> pc[w] # "none"
  /\ main = "join" => \A w \in Workers : w < next => pc[w] = "done"
  /\ main = "after" => \A w \in Workers : pc[w] = "done"

(* A worker that is gone does not come back, so main's knowledge stays.    *)
LEMMA WorkerMain ==
  ASSUME NEW w \in Workers, TypeInv, Worker(w)
  PROVE  /\ main' = main /\ next' = next /\ loop' = loop
         /\ pc[w] \notin {"none", "done"} /\ pc'[w] # "none"
         /\ \A v \in Workers : v # w => /\ pc'[v] = pc[v] /\ step'[v] = step[v]
                                        /\ idx'[v] = idx[v] /\ ran'[v] = ran[v]
BY DEF Worker, Test, LockCaptured, EnterBody, LockShared, NoLock, Load, Store,
       UnlockShared, LeaveBody, UnlockCaptured, Advance, Goto, TypeInv, TypeOK

LEMMA WorkerDone ==
  ASSUME NEW w \in Workers, TypeInv, Worker(w), DoneInv
  PROVE  DoneInv'
<1>1. /\ idx \in [Workers -> Int] /\ Limit \in Int /\ pc \in [Workers -> Labels]
  BY LoopAssumption DEF TypeInv, TypeOK
<1>2. pc'[w] = "done" => idx'[w] = idx[w] /\ ~(idx[w] < Limit)
  BY <1>1 DEF Worker, Test, LockCaptured, EnterBody, LockShared, NoLock, Load, Store,
       UnlockShared, LeaveBody, UnlockCaptured, Advance, Goto
<1>3. \A v \in Workers : v # w => pc'[v] = pc[v] /\ idx'[v] = idx[v]
  BY WorkerMain
<1> QED
  BY <1>1, <1>2, <1>3 DEF DoneInv

LEMMA MainStages ==
  ASSUME TypeInv, MainInv, DoneInv, Main
  PROVE  /\ MainInv' /\ DoneInv'
         /\ UNCHANGED <<loop, step, val, ran>>
         /\ \A w \in Workers : \/ pc'[w] = pc[w] /\ idx'[w] = idx[w]
                               \/ pc[w] = "none" /\ pc'[w] = "test" /\ idx'[w] = Start + w
<1>1. /\ next \in 0 .. N /\ N \in Nat \ {0} /\ Start \in Int /\ Limit \in Int
      /\ pc \in [Workers -> Labels] /\ idx \in [Workers -> Int]
  BY LoopAssumption DEF TypeInv, TypeOK
<1> USE <1>1
<1>2. UNCHANGED <<loop, step, val, ran>>
  BY DEF Main, Create, Created, Join, Joined
<1>3. CASE Create
  <2>1. next \in Workers /\ next + Start = Start + next
    BY <1>3 DEF Create
  <2>2. /\ main = "create" /\ main' = "create" /\ next' = next + 1
        /\ \A w \in Workers : /\ pc'[w] = IF w = next THEN "test" ELSE pc[w]
                              /\ idx'[w] = IF w = next THEN next + Start ELSE idx[w]
    BY <1>3 DEF Create
  <2>3. pc[next] = "none"
    BY <2>1, <2>2 DEF MainInv
  <2>4. MainInv'
    BY <2>1, <2>2 DEF MainInv
  <2>5. DoneInv'
    BY <2>1, <2>2 DEF DoneInv
  <2> QED
    BY <1>2, <2>1, <2>2, <2>3, <2>4, <2>5
<1>4. CASE Created
  BY <1>2, <1>4 DEF Created, MainInv, DoneInv
<1>5. CASE Join
  <2>1. /\ main = "join" /\ main' = "join" /\ next' = next + 1
        /\ pc[next] = "done" /\ pc' = pc /\ idx' = idx
    BY <1>5 DEF Join
  <2>2. \A w \in Workers : w < next + 1 => w < next \/ w = next
    OBVIOUS
  <2>3. MainInv'
    BY <2>1, <2>2 DEF MainInv
  <2> QED
    BY <1>2, <2>1, <2>3 DEF DoneInv
<1>6. CASE Joined
  BY <1>2, <1>6 DEF Joined, MainInv, DoneInv
<1> QED
  BY <1>3, <1>4, <1>5, <1>6 DEF Main

LEMMA MainProgress ==
  ASSUME TypeInv, MainInv, DoneInv, RanInv, ValInv, Main
  PROVE  RanInv' /\ ValInv'
<1>1. /\ UNCHANGED <<loop, step, val, ran>>
      /\ \A w \in Workers : \/ pc'[w] = pc[w] /\ idx'[w] = idx[w]
                            \/ pc[w] = "none" /\ pc'[w] = "test" /\ idx'[w] = Start + w
  BY MainStages
<1>2. Body' = Body
  BY <1>1, SameLoop
<1>3. ASSUME NEW w \in Workers, NEW i \in Slice(w)
      PROVE  /\ Past(w, i)' <=> Past(w, i)
             /\ \A k \in DOMAIN Body : Passed(w, i, k)' <=> Passed(w, i, k)
  <2>1. CASE pc'[w] = pc[w] /\ idx'[w] = idx[w]
    BY <1>1, <2>1 DEF Past, Passed, Within
  <2>2. CASE pc[w] = "none" /\ pc'[w] = "test" /\ idx'[w] = Start + w
    <3>1. ~(i < Start + w)
      BY SliceFacts, LoopAssumption
    <3>2. ~Past(w, i) /\ \A k \in DOMAIN Body : ~Passed(w, i, k)
      BY <2>2 DEF Past, Passed, Within
    <3>3. ~Past(w, i)' /\ \A k \in DOMAIN Body : ~Passed(w, i, k)'
      BY <2>2, <3>1 DEF Past, Passed, Within
    <3> QED
      BY <3>2, <3>3
  <2> QED
    BY <1>1, <2>1, <2>2
<1>4. RanInv'
  BY <1>1, <1>3 DEF RanInv
<1>5. ValInv'
  BY <1>1, <1>2, <1>3 DEF ValInv, OwnUpdates
<1> QED
  BY <1>4, <1>5

(* What a worker has done grows by an update in Store, by an index in      *)
(* LeaveBody, and by nothing in any other step.                            *)
LEMMA WorkerPast ==
  ASSUME NEW w \in Workers, TypeInv, SliceInv, Worker(w), ~LeaveBody(w),
         NEW v \in Workers, NEW i \in Slice(v)
  PROVE  Past(v, i)' <=> Past(v, i)
<1>1. /\ idx \in [Workers -> Int] /\ pc \in [Workers -> Labels] /\ i \in Int
      /\ N \in Nat \ {0}
  BY LoopAssumption, SliceFacts DEF TypeInv, TypeOK
<1>2. CASE v # w
  BY <1>2, WorkerMain DEF Past
<1>3. CASE v = w /\ Advance(w)
  <2>1. /\ pc[w] = "release" /\ pc'[w] = "test" /\ idx'[w] = idx[w] + N
    BY <1>1, <1>3 DEF Advance, Goto
  <2>2. idx[w] \in Slice(w)
    BY <2>1 DEF SliceInv
  <2>3. i < idx[w] + N <=> i < idx[w] \/ i = idx[w]
    <3>1. i < idx[w] + N => i <= idx[w]
      BY <1>3, <2>2, SliceFacts
    <3> QED
      BY <1>1, <3>1
  <2> QED
    BY <1>3, <2>1, <2>3 DEF Past
<1>4. CASE v = w /\ ~Advance(w)
  <2>1. /\ idx'[w] = idx[w] /\ pc[w] # "none" /\ pc'[w] # "none"
        /\ pc[w] = "release" <=> pc'[w] = "release"
    BY <1>1, <1>4 DEF Worker, Test, LockCaptured, EnterBody, LockShared, NoLock, Load,
         Store, UnlockShared, UnlockCaptured, Goto
  <2> QED
    BY <1>4, <2>1 DEF Past
<1> QED
  BY <1>2, <1>3, <1>4

LEMMA WorkerRan ==
  ASSUME NEW w \in Workers, TypeInv, SliceInv, RanInv, Worker(w)
  PROVE  RanInv'
<1>1. /\ idx \in [Workers -> Int] /\ pc \in [Workers -> Labels]
      /\ ran \in [Workers -> SUBSET (Start .. Limit - 1)]
  BY DEF TypeInv, TypeOK
<1>2. CASE LeaveBody(w)
  <2>1. /\ pc[w] = "update" /\ idx' = idx
        /\ \A v \in Workers : /\ pc'[v] = IF v = w THEN "release" ELSE pc[v]
                              /\ ran'[v] = IF v = w THEN ran[w] \cup {idx[w]} ELSE ran[v]
    BY <1>1, <1>2 DEF LeaveBody, Goto
  <2>2. \A i \in Slice(w) : Past(w, i) <=> i < idx[w]
    BY <2>1 DEF Past
  <2>3. \A i \in Slice(w) : Past(w, i)' <=> i < idx[w] \/ i = idx[w]
    BY <2>1 DEF Past
  <2>4. \A v \in Workers : v # w => \A i \in Slice(v) : Past(v, i)' <=> Past(v, i)
    BY <2>1 DEF Past
  <2> QED
    BY <2>1, <2>2, <2>3, <2>4 DEF RanInv
<1>3. CASE ~LeaveBody(w)
  <2>1. ran' = ran
    BY <1>3 DEF Worker, Test, LockCaptured, EnterBody, LockShared, NoLock, Load, Store,
         UnlockShared, UnlockCaptured, Advance
  <2> QED
    BY <1>3, <2>1, WorkerPast DEF RanInv
<1> QED
  BY <1>2, <1>3

LEMMA WorkerPassed ==
  ASSUME NEW w \in Workers, TypeInv, SliceInv, Worker(w), ~Store(w),
         NEW v \in Workers, NEW i \in Slice(v), NEW k \in DOMAIN Body
  PROVE  Passed(v, i, k)' <=> Passed(v, i, k)
<1>1. /\ idx \in [Workers -> Int] /\ pc \in [Workers -> Labels]
      /\ step \in [Workers -> Nat \ {0}]
      /\ i \in Int /\ N \in Nat \ {0}
      /\ Len(Body) \in Nat /\ k \in 1 .. Len(Body)
  BY LoopAssumption, SliceFacts, LoopFields DEF TypeInv, TypeOK
<1>2. CASE v # w
  BY <1>2, WorkerMain DEF Passed, Past, Within
<1>3. CASE v = w /\ LeaveBody(w)
  <2>1. /\ pc[w] = "update" /\ pc'[w] = "release" /\ idx'[w] = idx[w]
        /\ step[w] > Len(Body)
    BY <1>1, <1>3 DEF LeaveBody, Goto
  <2>2. k < step[w]
    BY <1>1, <2>1
  <2> QED
    BY <1>3, <2>1, <2>2 DEF Passed, Past, Within
<1>4. CASE v = w /\ Advance(w)
  <2>1. /\ pc[w] = "release" /\ pc'[w] = "test"
    BY <1>1, <1>4 DEF Advance, Goto
  <2>2. ~LeaveBody(w)
    BY <2>1 DEF LeaveBody
  <2>3. Past(w, i)' <=> Past(w, i)
    BY <1>4, <2>2, WorkerPast
  <2> QED
    BY <1>4, <2>1, <2>3 DEF Passed, Within
<1>5. CASE v = w /\ ~LeaveBody(w) /\ ~Advance(w)
  <2>1. Past(w, i)' <=> Past(w, i)
    BY <1>5, WorkerPast
  <2>2. idx'[w] = idx[w]
    BY <1>5 DEF Worker, Test, LockCaptured, EnterBody, LockShared, NoLock, Load,
         Store, UnlockShared, UnlockCaptured
  <2>3. Within(w, k)' <=> Within(w, k)
    <3>1. CASE UnlockShared(w)
      <4>1. /\ pc[w] = "leave" /\ pc'[w] = "update" /\ step'[w] = step[w] + 1
        BY <1>1, <3>1 DEF UnlockShared, Goto
      <4> QED
        BY <1>1, <4>1 DEF Within
    <3>2. CASE EnterBody(w)
      <4>1. /\ pc[w] = "outer" /\ pc'[w] = "update" /\ step'[w] = 1
        BY <1>1, <3>2 DEF EnterBody, Goto
      <4> QED
        BY <1>1, <4>1 DEF Within
    <3>3. CASE LockShared(w) \/ NoLock(w) \/ Load(w)
      <4>1. /\ pc[w] \in {"update", "load"} /\ pc'[w] \in {"load", "store"}
            /\ step'[w] = step[w]
        BY <1>1, <3>3 DEF LockShared, NoLock, Load, Goto
      <4> QED
        BY <4>1 DEF Within
    <3>4. CASE Test(w) \/ LockCaptured(w) \/ UnlockCaptured(w)
      <4>1. /\ pc[w] \in {"test", "outer", "release"}
            /\ pc'[w] \in {"outer", "done", "release"}
        BY <1>1, <3>4 DEF Test, LockCaptured, UnlockCaptured, Goto
      <4> QED
        BY <4>1 DEF Within
    <3> QED
      BY <1>5, <3>1, <3>2, <3>3, <3>4 DEF Worker
  <2> QED
    BY <1>5, <2>1, <2>2, <2>3 DEF Passed
<1> QED
  BY <1>2, <1>3, <1>4, <1>5

-----------------------------------------------------------------------------
(* A store is one update, taken as a whole *)

(* What Store does when nothing has changed since the load: it adds the    *)
(* update that comes next in the iteration, and nothing else.              *)
LEMMA StoreMakes ==
  ASSUME NEW w \in Workers, TypeInv, RegInv, SliceInv, ValInv, Store(w)
  PROVE  /\ idx[w] \in Slice(w) /\ idx[w] \in Start .. Limit - 1
         /\ step[w] \in DOMAIN Body /\ Body[step[w]] \in Vars
         /\ val' = [val EXCEPT ![Body[step[w]]] = @ \cup {<<idx[w], step[w]>>}]
         /\ <<idx[w], step[w]>> \notin val[Body[step[w]]]
         /\ \A j \in DOMAIN Body : j < step[w] => <<idx[w], j>> \in val[Body[j]]
<1>1. /\ pc[w] = "store" /\ reg[w] = val[Body[step[w]]]
      /\ val' = [val EXCEPT ![Body[step[w]]] = reg[w] \cup {<<idx[w], step[w]>>}]
  BY DEF Store, RegInv
<1>2. idx[w] \in Slice(w) /\ step[w] \in DOMAIN Body
  BY <1>1 DEF SliceInv, TypeInv, Bounds
<1>3. Body[step[w]] \in Vars /\ DOMAIN Body = 1 .. Len(Body) /\ Len(Body) \in Nat
  BY <1>2, LoopFields DEF TypeInv, TypeOK
<1>4. idx[w] \in Start .. Limit - 1
  BY <1>1, LoopAssumption DEF TypeInv, TypeOK, Bounds, InIteration
<1>5. \A k \in DOMAIN Body : Passed(w, idx[w], k) <=> k < step[w]
  BY <1>1, <1>4, LoopAssumption DEF Passed, Past, Within
<1>6. \A k \in DOMAIN Body : <<idx[w], k>> \in val[Body[k]] <=> k < step[w]
  BY <1>2, <1>5 DEF ValInv
<1>7. <<idx[w], step[w]>> \notin val[Body[step[w]]]
  BY <1>2, <1>3, <1>6
<1> QED
  BY <1>1, <1>2, <1>3, <1>4, <1>6, <1>7

LEMMA StoreProgress ==
  ASSUME NEW w \in Workers, TypeInv, RegInv, SliceInv, ValInv, Store(w)
  PROVE  ValInv'
<1>1. /\ pc[w] = "store" /\ UNCHANGED <<loop, idx>>
      /\ \A v \in Workers : /\ pc'[v] = IF v = w THEN "leave" ELSE pc[v]
                            /\ step'[v] = step[v]
  BY DEF Store, Goto, TypeInv, TypeOK
<1>2. Body' = Body
  BY <1>1, SameLoop
<1>3. /\ idx[w] \in Slice(w) /\ idx[w] \in Start .. Limit - 1
      /\ step[w] \in DOMAIN Body /\ Body[step[w]] \in Vars
      /\ val' = [val EXCEPT ![Body[step[w]]] = @ \cup {<<idx[w], step[w]>>}]
  BY StoreMakes
<1>4. /\ val \in [Vars -> SUBSET (Int \X Nat)] /\ step[w] \in Nat
      /\ DOMAIN Body = 1 .. Len(Body) /\ Len(Body) \in Nat
      /\ \A k \in DOMAIN Body : Body[k] \in Vars
  BY LoopFields DEF TypeInv, TypeOK
<1>5. \A x \in Vars : val'[x] = IF x = Body[step[w]] THEN val[x] \cup {<<idx[w], step[w]>>}
                               ELSE val[x]
  BY <1>3, <1>4
<1>6. OwnUpdates'
  <2>1. OwnUpdates
    BY DEF ValInv
  <2> QED
    BY <1>2, <1>3, <1>4, <1>5, <2>1 DEF OwnUpdates
<1>7. ASSUME NEW v \in Workers, NEW i \in Slice(v), NEW k \in DOMAIN Body
      PROVE  <<i, k>> \in val'[Body[k]] <=> Passed(v, i, k)'
  <2>1. <<i, k>> \in val'[Body[k]] <=>
          <<i, k>> \in val[Body[k]] \/ (i = idx[w] /\ k = step[w])
    <3>1. CASE Body[k] = Body[step[w]]
      <4>1. val'[Body[k]] = val[Body[k]] \cup {<<idx[w], step[w]>>}
        BY <1>4, <1>5, <3>1
      <4> QED
        BY <4>1
    <3>2. CASE Body[k] # Body[step[w]]
      <4>1. val'[Body[k]] = val[Body[k]]
        BY <1>4, <1>5, <3>2
      <4> QED
        BY <3>2, <4>1
    <3> QED
      BY <3>1, <3>2
  <2>2. <<i, k>> \in val[Body[k]] <=> Passed(v, i, k)
    BY DEF ValInv
  <2>3. CASE v # w
    <3>1. i # idx[w]
      BY <1>3, <2>3, SlicesApart
    <3>2. Passed(v, i, k)' <=> Passed(v, i, k)
      BY <1>1, <2>3 DEF Passed, Past, Within
    <3> QED
      BY <2>1, <2>2, <3>1, <3>2
  <2>4. CASE v = w
    <3>1. Past(w, i)' <=> Past(w, i)
      BY <1>1 DEF Past
    <3>2. Within(w, k) <=> k < step[w]
      BY <1>1 DEF Within
    <3>3. Within(w, k)' <=> k < step[w] \/ k = step[w]
      BY <1>1, <1>4 DEF Within
    <3> QED
      BY <1>1, <2>1, <2>2, <2>4, <3>1, <3>2, <3>3 DEF Passed
  <2> QED
    BY <2>3, <2>4
<1> QED
  BY <1>2, <1>6, <1>7 DEF ValInv

LEMMA WorkerVal ==
  ASSUME NEW w \in Workers, TypeInv, RegInv, SliceInv, ValInv, Worker(w)
  PROVE  ValInv'
<1>1. CASE Store(w)
  BY <1>1, StoreProgress
<1>2. CASE ~Store(w)
  <2>1. val' = val /\ loop' = loop
    BY <1>2 DEF Worker, Test, LockCaptured, EnterBody, LockShared, NoLock, Load,
         UnlockShared, LeaveBody, UnlockCaptured, Advance
  <2>2. Body' = Body
    BY <2>1, SameLoop
  <2>3. OwnUpdates'
    BY <2>1, <2>2 DEF ValInv, OwnUpdates
  <2>4. \A v \in Workers : \A i \in Slice(v) : \A k \in DOMAIN Body :
          Passed(v, i, k)' <=> Passed(v, i, k)
    BY <1>2, WorkerPassed
  <2> QED
    BY <2>1, <2>2, <2>3, <2>4 DEF ValInv
<1> QED
  BY <1>1, <1>2

-----------------------------------------------------------------------------
(* All of it together *)

Progress == MainInv /\ DoneInv /\ RanInv /\ ValInv

LEMMA InitProgress == Init => Progress
<1> SUFFICES ASSUME Init PROVE Progress
  OBVIOUS
<1>1. /\ main = "create" /\ next = 0 /\ val = [x \in Vars |-> {}]
      /\ \A w \in Workers : pc[w] = "none" /\ ran[w] = {}
  BY DEF Init
<1>2. MainInv /\ DoneInv
  BY <1>1, LoopAssumption DEF MainInv, DoneInv
<1>3. RanInv
  BY <1>1 DEF RanInv, Past
<1>4. ValInv
  <2>1. OwnUpdates
    BY <1>1 DEF OwnUpdates
  <2>2. \A k \in DOMAIN Body : val[Body[k]] = {}
    <3>1. \A k \in DOMAIN Body : Body[k] \in Vars
      BY LoopFields DEF Init
    <3> QED
      BY <1>1, <3>1
  <2>3. \A w \in Workers : \A i \in Slice(w) : \A k \in DOMAIN Body : ~Passed(w, i, k)
    BY <1>1 DEF Passed, Past, Within
  <2> QED
    BY <2>1, <2>2, <2>3 DEF ValInv
<1> QED
  BY <1>2, <1>3, <1>4 DEF Progress

LEMMA StepProgress ==
  TypeInv /\ RegInv /\ SliceInv /\ Progress /\ [Next]_vars => Progress'
<1> SUFFICES ASSUME TypeInv, RegInv, SliceInv, Progress, [Next]_vars PROVE Progress'
  OBVIOUS
<1> USE DEF Progress
<1>1. CASE Main
  BY <1>1, MainStages, MainProgress
<1>2. ASSUME NEW w \in Workers, Worker(w) PROVE Progress'
  <2>1. MainInv'
    BY <1>2, WorkerMain DEF MainInv
  <2>2. DoneInv' /\ RanInv' /\ ValInv'
    BY <1>2, WorkerDone, WorkerRan, WorkerVal
  <2> QED
    BY <2>1, <2>2
<1>3. CASE UNCHANGED vars
  <2>1. Body' = Body
    BY <1>3, SameLoop DEF vars
  <2>2. /\ UNCHANGED <<main, next, pc, idx, step, val, ran>>
    BY <1>3 DEF vars
  <2>3. MainInv' /\ DoneInv' /\ RanInv'
    BY <2>2 DEF MainInv, DoneInv, RanInv, Past
  <2>4. ValInv'
    BY <2>1, <2>2 DEF ValInv, OwnUpdates, Passed, Past, Within
  <2> QED
    BY <2>3, <2>4
<1> QED
  BY <1>1, <1>2, <1>3 DEF Next

LEMMA ProgressInvariant ==
  Spec => [](TypeInv /\ RegInv /\ SliceInv /\ Progress)
<1>1. Init => RegInv /\ SliceInv
  BY DEF Init, RegInv, SliceInv
<1>2. TypeInv /\ LockInv /\ RegInv /\ [Next]_vars => RegInv'
  BY StepValues
<1> QED
  BY <1>1, <1>2, InitProgress, StepProgress, SliceStep, LockInvariant, PTL DEF Spec

-----------------------------------------------------------------------------
(* The mutexes that are held *)

(* Worker w has still to unlock m. *)
Holds(w, m) ==
  \/ \E j \in DOMAIN Captured : m = Local(Captured[j]) /\ HoldsCaptured(w, j)
  \/ HoldsShared(w) /\ m = Global(Body[step[w]])

FreeInv == \A m \in Mutexes : \A w \in Workers : owner[m] = w => Holds(w, m)

(* A step of w keeps FreeInv when it changes owners to Free or to itself   *)
(* only, and has still to unlock what it owns afterwards.                  *)
LEMMA OthersHold ==
  ASSUME NEW w \in Workers, TypeInv, FreeInv, Worker(w),
         \A m \in Mutexes :
           /\ owner'[m] \in {owner[m], Free, w}
           /\ owner'[m] = w => Holds(w, m)'
  PROVE  FreeInv'
<1>1. /\ loop' = loop
      /\ \A v \in Workers : v # w => pc'[v] = pc[v] /\ step'[v] = step[v]
  BY WorkerMain
<1>2. Captured' = Captured /\ Body' = Body /\ Shared' = Shared
  BY <1>1, SameLoop
<1>3. ASSUME NEW m \in Mutexes, NEW v \in Workers, owner'[m] = v PROVE Holds(v, m)'
  <2>1. CASE v = w
    BY <1>3, <2>1
  <2>2. CASE v # w
    <3>1. v # Free
      BY LoopAssumption DEF Free
    <3>2. Holds(v, m)
      BY <1>3, <2>2, <3>1 DEF FreeInv
    <3> QED
      BY <1>1, <1>2, <2>2, <3>2 DEF Holds, HoldsCaptured, HoldsShared
  <2> QED
    BY <2>1, <2>2
<1> QED
  BY <1>3 DEF FreeInv

LEMMA WorkerFree ==
  ASSUME NEW w \in Workers, TypeInv, LockInv, FreeInv, Worker(w)
  PROVE  FreeInv'
<1>1. /\ Len(Captured) \in Nat /\ DOMAIN Captured = 1 .. Len(Captured)
      /\ \A j \in DOMAIN Captured : Captured[j] \in Vars
      /\ \A k \in DOMAIN Body : Body[k] \in Vars
      /\ step \in [Workers -> Nat \ {0}] /\ pc \in [Workers -> Labels]
      /\ owner \in [Mutexes -> Workers \cup {Free}]
      /\ w # Free
  BY LoopFields, LoopAssumption DEF TypeInv, TypeOK, Free
<1>2. Captured' = Captured /\ Body' = Body /\ Shared' = Shared
  BY WorkerMain, SameLoop
<1>3. \A m \in Mutexes : owner[m] = w => Holds(w, m)
  BY DEF FreeInv
<1> USE <1>1, <1>2
<1>4. CASE Test(w) \/ NoLock(w) \/ Load(w) \/ Store(w) \/ Advance(w)
  <2>1. owner' = owner
    BY <1>4 DEF Test, NoLock, Load, Store, Advance
  <2>2. \A m \in Mutexes : Holds(w, m) => Holds(w, m)'
    <3>1. CASE Test(w) \/ Advance(w)
      <4>1. /\ pc[w] \in {"test", "release"}
            /\ pc[w] = "release" => step[w] > Len(Captured)
        BY <3>1 DEF Test, Advance
      <4>2. \A m \in Mutexes : ~Holds(w, m)
        BY <4>1 DEF Holds, HoldsCaptured, HoldsShared
      <4> QED
        BY <4>2
    <3>2. CASE NoLock(w)
      <4>1. pc[w] = "update" /\ pc'[w] = "load"
        BY <3>2 DEF NoLock, Goto
      <4> QED
        BY <4>1 DEF Holds, HoldsCaptured, HoldsShared
    <3>3. CASE Load(w) \/ Store(w)
      <4>1. /\ pc[w] \in {"load", "store"} /\ pc'[w] \in {"store", "leave"}
            /\ step'[w] = step[w]
        BY <3>3 DEF Load, Store, Goto
      <4> QED
        BY <4>1 DEF Holds, HoldsCaptured, HoldsShared
    <3> QED
      BY <1>4, <3>1, <3>2, <3>3
  <2> QED
    BY <1>3, <2>1, <2>2, OthersHold
<1>5. CASE EnterBody(w) \/ LeaveBody(w)
  <2>1. /\ owner' = owner
        /\ \/ pc[w] = "outer" /\ step[w] > Len(Captured) /\ pc'[w] = "update"
           \/ pc[w] = "update" /\ pc'[w] = "release" /\ step'[w] = 1
    BY <1>5 DEF EnterBody, LeaveBody, Goto
  <2>2. \A m \in Mutexes : Holds(w, m) => Holds(w, m)'
    BY <2>1 DEF Holds, HoldsCaptured, HoldsShared
  <2> QED
    BY <1>3, <2>1, <2>2, OthersHold
<1>6. CASE LockCaptured(w)
  <2>1. /\ pc[w] = "outer" /\ pc'[w] = "outer" /\ step'[w] = step[w] + 1
        /\ step[w] \in DOMAIN Captured
        /\ owner' = [owner EXCEPT ![Local(Captured[step[w]])] = w]
    BY <1>6 DEF LockCaptured, Lock, Goto
  <2>2. \A m \in Mutexes : Holds(w, m) => Holds(w, m)'
    BY <2>1 DEF Holds, HoldsCaptured, HoldsShared
  <2>3. \A m \in Mutexes : m = Local(Captured[step[w]]) => Holds(w, m)'
    BY <2>1 DEF Holds, HoldsCaptured
  <2>4. \A m \in Mutexes : owner'[m] = IF m = Local(Captured[step[w]]) THEN w ELSE owner[m]
    BY <2>1
  <2>5. \A m \in Mutexes : /\ owner'[m] \in {owner[m], Free, w}
                           /\ owner'[m] = w => Holds(w, m)'
    BY <1>3, <2>2, <2>3, <2>4
  <2> QED
    BY <2>5, OthersHold
<1>7. CASE LockShared(w)
  <2>1. /\ pc[w] = "update" /\ pc'[w] = "load" /\ step'[w] = step[w]
        /\ step[w] \in DOMAIN Body /\ Body[step[w]] \in Shared
        /\ owner[MutexOf(Body[step[w]])] = Free
        /\ owner' = [owner EXCEPT ![MutexOf(Body[step[w]])] = w]
    <3>1. DOMAIN Body = 1 .. Len(Body) /\ Len(Body) \in Nat
      BY LoopFields DEF TypeInv, TypeOK
    <3>2. step[w] \in DOMAIN Body
      BY <1>7, <3>1 DEF LockShared
    <3>3. pc[w] = "update" /\ pc'[w] = "load" /\ step'[w] = step[w]
      BY <1>7 DEF LockShared, Goto
    <3> QED
      BY <1>7, <3>2, <3>3 DEF LockShared, Lock
  <2>2. \A m \in Mutexes : Holds(w, m) => Holds(w, m)'
    BY <2>1 DEF Holds, HoldsCaptured, HoldsShared
  <2>3. Body[step[w]] \notin Elements(Captured)
    <3>1. \A j \in DOMAIN Captured : owner[Local(Captured[j])] = w
      BY <2>1 DEF LockInv, CapturedHeld, HoldsCaptured
    <3>2. ASSUME NEW j \in DOMAIN Captured, Body[step[w]] = Captured[j] PROVE FALSE
      <4>1. Body[step[w]] \in Elements(Captured)
        BY <3>2 DEF Elements
      <4> QED
        BY <2>1, <3>1, <3>2, <4>1 DEF MutexOf
    <3> QED
      BY <3>2 DEF Elements
  <2>4. \A m \in Mutexes : m = Global(Body[step[w]]) => Holds(w, m)'
    BY <2>1 DEF Holds, HoldsShared
  <2>5. \A m \in Mutexes : owner'[m] = IF m = Global(Body[step[w]]) THEN w ELSE owner[m]
    BY <2>1, <2>3 DEF MutexOf
  <2>6. \A m \in Mutexes : /\ owner'[m] \in {owner[m], Free, w}
                           /\ owner'[m] = w => Holds(w, m)'
    BY <1>3, <2>2, <2>4, <2>5
  <2> QED
    BY <2>6, OthersHold
<1>8. CASE UnlockShared(w)
  <2>1. /\ pc[w] = "leave" /\ pc'[w] = "update" /\ step[w] \in DOMAIN Body
        /\ owner' = IF Body[step[w]] \in Shared
                    THEN [owner EXCEPT ![MutexOf(Body[step[w]])] = Free] ELSE owner
    BY <1>8 DEF UnlockShared, Unlock, Goto, TypeInv, Bounds
  <2>2. Body[step[w]] \in Shared => Body[step[w]] \notin Elements(Captured)
    BY <2>1 DEF LockInv, SharedHeld, HoldsShared
  <2>3. \A m \in Mutexes : owner'[m] = IF Body[step[w]] \in Shared /\ m = Global(Body[step[w]])
                                       THEN Free ELSE owner[m]
    BY <2>1, <2>2 DEF MutexOf
  <2>4. ASSUME NEW m \in Mutexes, owner'[m] = w PROVE Holds(w, m)'
    <3>1. Holds(w, m) /\ ~(Body[step[w]] \in Shared /\ m = Global(Body[step[w]]))
      BY <1>3, <2>3, <2>4
    <3>2. \E j \in DOMAIN Captured : m = Local(Captured[j])
      BY <3>1 DEF Holds, HoldsShared
    <3> QED
      BY <2>1, <3>2 DEF Holds, HoldsCaptured
  <2> QED
    BY <2>3, <2>4, OthersHold
<1>9. CASE UnlockCaptured(w)
  <2>1. /\ pc[w] = "release" /\ pc'[w] = "release" /\ step'[w] = step[w] + 1
        /\ step[w] \in DOMAIN Captured
        /\ owner' = [owner EXCEPT ![Local(Captured[step[w]])] = Free]
    BY <1>9 DEF UnlockCaptured, Unlock, Goto
  <2>2. \A m \in Mutexes : owner'[m] = IF m = Local(Captured[step[w]]) THEN Free ELSE owner[m]
    BY <2>1
  <2>3. ASSUME NEW m \in Mutexes, owner'[m] = w PROVE Holds(w, m)'
    <3>1. Holds(w, m) /\ m # Local(Captured[step[w]])
      BY <1>3, <2>2, <2>3
    <3>2. PICK j \in DOMAIN Captured : m = Local(Captured[j]) /\ step[w] <= j
      BY <2>1, <3>1 DEF Holds, HoldsCaptured, HoldsShared
    <3>3. step[w] + 1 <= j
      BY <3>1, <3>2
    <3> QED
      BY <2>1, <3>2, <3>3 DEF Holds, HoldsCaptured
  <2> QED
    BY <2>2, <2>3, OthersHold
<1> QED
  BY <1>4, <1>5, <1>6, <1>7, <1>8, <1>9 DEF Worker

LEMMA FreeInvariant == Spec => []FreeInv
<1>1. Init => FreeInv
  BY LoopAssumption DEF Init, FreeInv, Free
<1>2. TypeInv /\ LockInv /\ Progress /\ FreeInv /\ [Next]_vars => FreeInv'
  <2> SUFFICES ASSUME TypeInv, LockInv, Progress, FreeInv, [Next]_vars PROVE FreeInv'
    OBVIOUS
  <2>1. CASE Main
    <3>1. /\ UNCHANGED <<loop, step>>
          /\ \A w \in Workers : pc'[w] = pc[w] \/ pc[w] = "none"
      BY <2>1, MainStages DEF Progress
    <3>2. owner' = owner
      BY <2>1 DEF Main, Create, Created, Join, Joined
    <3>3. Captured' = Captured /\ Body' = Body /\ Shared' = Shared
      BY <3>1, SameLoop
    <3> QED
      BY <3>1, <3>2, <3>3 DEF FreeInv, Holds, HoldsCaptured, HoldsShared
  <2>2. ASSUME NEW w \in Workers, Worker(w) PROVE FreeInv'
    BY <2>2, WorkerFree
  <2>3. CASE UNCHANGED vars
    <3>1. Captured' = Captured /\ Body' = Body /\ Shared' = Shared
      BY <2>3, SameLoop DEF vars
    <3> QED
      BY <2>3, <3>1 DEF vars, FreeInv, Holds, HoldsCaptured, HoldsShared
  <2> QED
    BY <2>1, <2>2, <2>3 DEF Next
<1> QED
  BY <1>1, <1>2, LockInvariant, ProgressInvariant, PTL DEF Spec

-----------------------------------------------------------------------------
(* When the loop is over *)

(* Workers that are gone have done the whole of their slices, and the      *)
(* slices make up the loop.                                                *)
LEMMA AllDone ==
  ASSUME TypeInv, SliceInv, Progress, \A w \in Workers : pc[w] = "done"
  PROVE  \A i \in Start .. Limit - 1 :
           /\ \E w \in Workers : i \in ran[w]
           /\ \A k \in DOMAIN Body : <<i, k>> \in val[Body[k]]
<1> SUFFICES ASSUME NEW i \in Start .. Limit - 1
             PROVE  /\ \E w \in Workers : i \in ran[w]
                    /\ \A k \in DOMAIN Body : <<i, k>> \in val[Body[k]]
  OBVIOUS
<1>1. Start \in Int /\ Limit \in Int /\ i \in Int /\ Start <= i /\ i < Limit
  BY LoopAssumption
<1>2. PICK w \in Workers : i \in Slice(w)
  BY <1>1, SlicesCover
<1>3. pc[w] = "done" /\ Limit <= idx[w] /\ idx[w] \in Int
  BY DEF Progress, DoneInv, TypeInv, TypeOK
<1>4. Past(w, i)
  BY <1>1, <1>3 DEF Past
<1>5. i \in ran[w]
  BY <1>2, <1>4 DEF Progress, RanInv
<1>6. \A k \in DOMAIN Body : <<i, k>> \in val[Body[k]]
  BY <1>2, <1>4 DEF Progress, ValInv, Passed
<1> QED
  BY <1>5, <1>6

(* When main goes on after the loop every index has been run, the          *)
(* variables contain all the updates of the loop and no others, the        *)
(* workers are gone and the mutexes that main destroys are unlocked        *)
(* (AfterTheLoop).                                                         *)
THEOREM AfterTheLoopHolds == Spec => []AfterTheLoop
<1>1. TypeInv /\ SliceInv /\ Progress /\ FreeInv => AfterTheLoop
  <2> SUFFICES ASSUME TypeInv, SliceInv, Progress, FreeInv, main = "after"
               PROVE  AfterTheLoop
    BY DEF AfterTheLoop
  <2>1. \A w \in Workers : pc[w] = "done"
    BY DEF Progress, MainInv
  <2>2. UNION {ran[w] : w \in Workers} = Start .. Limit - 1
    <3>1. \A w \in Workers : ran[w] \subseteq Start .. Limit - 1
      BY DEF TypeInv, TypeOK
    <3>2. \A i \in Start .. Limit - 1 : \E w \in Workers : i \in ran[w]
      BY <2>1, AllDone
    <3> QED
      BY <3>1, <3>2
  <2>3. ASSUME NEW x \in Vars
        PROVE  val[x] = {u \in (Start .. Limit - 1) \X DOMAIN Body : Body[u[2]] = x}
    <3>1. \A u \in val[x] : u \in (Start .. Limit - 1) \X DOMAIN Body /\ Body[u[2]] = x
      BY DEF Progress, ValInv, OwnUpdates
    <3>2. ASSUME NEW i \in Start .. Limit - 1, NEW k \in DOMAIN Body, Body[k] = x
          PROVE  <<i, k>> \in val[x]
      BY <2>1, <3>2, AllDone
    <3>3. ASSUME NEW u \in (Start .. Limit - 1) \X DOMAIN Body, Body[u[2]] = x
          PROVE  u \in val[x]
      <4>1. u = <<u[1], u[2]>> /\ u[1] \in Start .. Limit - 1 /\ u[2] \in DOMAIN Body
        BY <3>3
      <4> QED
        BY <3>2, <3>3, <4>1
    <3> QED
      BY <3>1, <3>3
  <2>4. ASSUME NEW m \in Mutexes PROVE owner[m] = Free
    <3>1. \A w \in Workers : ~Holds(w, m)
      BY <2>1 DEF Holds, HoldsCaptured, HoldsShared
    <3>2. owner[m] \in Workers \cup {Free}
      BY DEF TypeInv, TypeOK
    <3> QED
      BY <3>1, <3>2 DEF FreeInv
  <2> QED
    BY <2>1, <2>2, <2>3, <2>4 DEF AfterTheLoop
<1> QED
  BY <1>1, ProgressInvariant, FreeInvariant, PTL

-----------------------------------------------------------------------------
(* The workers implement the loop as written *)

LEMMA InitImplements == Init => Written!Init
<1> SUFFICES ASSUME Init PROVE Written!Init
  OBVIOUS
<1>1. Body \in Seq(Vars)
  BY LoopFields DEF Init
<1>2. val = [x \in Vars |-> {}] /\ (main = "after") = FALSE
  BY DEF Init
<1> QED
  BY <1>1, <1>2 DEF Written!Init

(* Store is the update, Joined is the end, and every other step stutters.  *)
LEMMA StepImplements ==
  TypeInv /\ RegInv /\ SliceInv /\ Progress /\ [Next]_vars
    => [Written!Next]_(Written!vars)
<1> SUFFICES ASSUME TypeInv, RegInv, SliceInv, Progress, [Next]_vars
             PROVE  Written!Next \/ UNCHANGED <<Body, val, main = "after">>
  BY DEF Written!vars
<1>1. ASSUME NEW w \in Workers, Store(w) PROVE Written!Next
  <2>1. /\ idx[w] \in Start .. Limit - 1 /\ step[w] \in DOMAIN Body
        /\ val' = [val EXCEPT ![Body[step[w]]] = @ \cup {<<idx[w], step[w]>>}]
        /\ <<idx[w], step[w]>> \notin val[Body[step[w]]]
        /\ \A j \in DOMAIN Body : j < step[w] => <<idx[w], j>> \in val[Body[j]]
    BY <1>1, StoreMakes DEF Progress
  <2>2. main' = main /\ loop' = loop
    BY <1>1 DEF Store
  <2>3. Body' = Body
    BY <2>2, SameLoop
  <2>4. main # "after"
    BY <1>1 DEF Store, Progress, MainInv
  <2>5. Written!Update(idx[w], step[w])
    BY <2>1, <2>2, <2>3, <2>4 DEF Written!Update, Written!Made
  <2> QED
    BY <2>1, <2>5 DEF Written!Next
<1>2. CASE Joined
  <2>1. main = "join" /\ main' = "after" /\ next = N /\ UNCHANGED <<loop, val>>
    BY <1>2 DEF Joined
  <2>2. Body' = Body
    BY <2>1, SameLoop
  <2>3. \A w \in Workers : pc[w] = "done"
    BY <2>1, LoopAssumption DEF Progress, MainInv
  <2>4. \A i \in Start .. Limit - 1 : \A k \in DOMAIN Body : <<i, k>> \in val[Body[k]]
    BY <2>3, AllDone
  <2>5. Written!End
    BY <2>1, <2>2, <2>4 DEF Written!End, Written!Made
  <2> QED
    BY <2>5 DEF Written!Next
<1>3. CASE Create \/ Created \/ Join \/ UNCHANGED vars
  <2>1. UNCHANGED <<loop, val>> /\ (main' = "after") = (main = "after")
    BY <1>3 DEF Create, Created, Join, vars
  <2>2. Body' = Body
    BY <2>1, SameLoop
  <2> QED
    BY <2>1, <2>2
<1>4. ASSUME NEW w \in Workers, Worker(w), ~Store(w)
      PROVE  UNCHANGED <<Body, val, main = "after">>
  <2>1. UNCHANGED <<loop, val, main>>
    BY <1>4 DEF Worker, Test, LockCaptured, EnterBody, LockShared, NoLock, Load,
         UnlockShared, LeaveBody, UnlockCaptured, Advance
  <2>2. Body' = Body
    BY <2>1, SameLoop
  <2> QED
    BY <2>1, <2>2
<1> QED
  BY <1>1, <1>2, <1>3, <1>4 DEF Next, Main

(* To the program around it the threaded loop is the loop as written, its  *)
(* updates taken whole and each made once (ImplementsLoop): threads,       *)
(* slices and locks are not visible in the variables.                      *)
THEOREM ImplementsLoopHolds == Spec => ImplementsLoop
<1>1. Init => Written!Init
  BY InitImplements
<1>2. TypeInv /\ RegInv /\ SliceInv /\ Progress /\ [Next]_vars
        => [Written!Next]_(Written!vars)
  BY StepImplements
<1> QED
  BY <1>1, <1>2, ProgressInvariant, PTL DEF Spec, ImplementsLoop, Written!Spec
=============================================================================

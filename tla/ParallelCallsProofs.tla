-------------------------- MODULE ParallelCallsProofs --------------------------
(***************************************************************************)
(* Proofs about ParallelCalls, for every program that the C compiler       *)
(* accepts, with any number of threads and child processes.                *)
(*                                                                         *)
(* Place says where a unit can be: inside an update only at an update of   *)
(* its body, started only by a statement that main has reached.  LockInv   *)
(* says who holds a mutex, in each address space; Exclusion follows from   *)
(* it for programs whose marks are complete, RegInv from Exclusion, and    *)
(* NoLostUpdate from RegInv.  DoneInv says where the result of a finished  *)
(* unit is, AwaitInv that main is past no unit that has not finished, and  *)
(* WrittenInv that what a unit did stays in the memory of its space.       *)
(***************************************************************************)
EXTENDS ParallelCalls, TLAPS

Busy(u) == pc[u] \in {"load", "store", "unlock"}

Place ==
  /\ code \in {Emitted(p) : p \in Programs}
  /\ pc[0] # "none"
  /\ Busy(0) => at \in DOMAIN code /\ code[at].op = "update"
  /\ \A u \in Units : Busy(u) => step[u] \in DOMAIN Body(u)
  /\ \A k \in DOMAIN code :
       /\ pc[k] # "none" => code[k].op \in {"thread", "process", "run"}
       /\ k > at \/ (k = at /\ code[k].op # "run") => pc[k] = "none"

TypeInv == TypeOK /\ Place

Labels == {"none", "body", "load", "store", "unlock", "done"}

(* What a program that compiles looks like. *)
LEMMA CodeFacts ==
  ASSUME Compiles(code)
  PROVE  /\ Len(code) \in Nat /\ DOMAIN code = 1 .. Len(code)
         /\ Units = 0 .. Len(code) /\ 0 \notin DOMAIN code
         /\ \A k \in DOMAIN code :
              /\ code[k] \in Statement
              /\ Len(code[k].body) \in Nat
              /\ DOMAIN code[k].body = 1 .. Len(code[k].body)
              /\ \A i \in DOMAIN code[k].body : code[k].body[i] \in Globals
              /\ Len(code[k].awaits) \in Nat
              /\ DOMAIN code[k].awaits = 1 .. Len(code[k].awaits)
              /\ \A i \in DOMAIN code[k].awaits : code[k].awaits[i] \in Results
              /\ code[k].op \in {"thread", "process", "run", "await", "update"}
              /\ code[k].op \in {"thread", "process"} => code[k].var \in Results
<1>1. code \in Seq(Statement)
  BY DEF Compiles
<1>2. \A k \in DOMAIN code : code[k] \in Statement
  BY <1>1
<1>3. \A k \in DOMAIN code : code[k].body \in Seq(Globals) /\ code[k].awaits \in Seq(Results)
                             /\ code[k].op \in {"thread", "process", "run", "await", "update"}
  BY <1>2 DEF Statement
<1>4. Len(code) \in Nat /\ DOMAIN code = 1 .. Len(code)
  BY <1>1
<1>5. Units = 0 .. Len(code) /\ 0 \notin DOMAIN code
  BY <1>4 DEF Units
<1> QED
  BY <1>2, <1>3, <1>4, <1>5 DEF Compiles

(* The program is fixed, and with it the bodies of the threads. *)
LEMMA SameCode ==
  ASSUME code' = code
  PROVE  /\ Units' = Units /\ Spaces' = Spaces
         /\ \A u : Space(u)' = Space(u)
         /\ at' = at => \A u : /\ Text(u)' = Text(u) /\ Body(u)' = Body(u)
                               /\ Marked(u)' = Marked(u)
         /\ \A u : u # 0 => /\ Text(u)' = Text(u) /\ Body(u)' = Body(u)
                            /\ Marked(u)' = Marked(u)
BY DEF Units, Spaces, Space, Text, Body, Marked

LEMMA InitType == Init => TypeInv
<1> SUFFICES ASSUME Init PROVE TypeInv
  OBVIOUS
<1>1. Compiles(code)
  BY ProgramsAssumption DEF Init
<1> USE <1>1, CodeFacts
<1>2. TypeOK
  BY DEF Init, TypeOK, Units, Spaces, Free, Garbage, Updates
<1>3. Place
  BY DEF Init, Place, Busy, Units
<1> QED
  BY <1>2, <1>3 DEF TypeInv

(* Starting the unit of the statement main is at. *)
LEMMA Started ==
  ASSUME TypeInv, at \in DOMAIN code, Goto(at, "body"), code' = code, step' = step
  PROVE  /\ pc' \in [Units -> Labels]
         /\ \A v \in Units : pc'[v] = IF v = at THEN "body" ELSE pc[v]
BY CodeFacts DEF TypeInv, TypeOK, Goto, Labels, Units

(* Main goes on to its next statement. *)
LEMMA GoesOn ==
  ASSUME TypeInv, code' = code, at \in DOMAIN code, at' = at + 1, pc[0] = "body",
         \A v \in Units : v # 0 => step'[v] = step[v],
         \A v \in Units : \/ pc'[v] = pc[v]
                          \/ v = at /\ pc'[v] = "body" /\ code[v].op \in {"thread", "process"}
  PROVE  Place'
<1>1. /\ Len(code) \in Nat /\ DOMAIN code = 1 .. Len(code)
      /\ Units = 0 .. Len(code) /\ Units' = Units
  BY CodeFacts, SameCode DEF TypeInv, TypeOK
<1>2. at # 0 /\ 0 \in Units /\ at \in Nat /\ DOMAIN code \subseteq Units
  BY <1>1
<1>3. code' \in {Emitted(p) : p \in Programs} /\ pc'[0] = "body"
  BY <1>1, <1>2 DEF TypeInv, Place
<1>4. ASSUME NEW u \in Units, Busy(u)' PROVE step'[u] \in DOMAIN Body(u)'
  <2>1. u # 0 /\ pc'[u] = pc[u]
    BY <1>3, <1>4 DEF Busy
  <2>2. step[u] \in DOMAIN Body(u)
    BY <1>4, <2>1 DEF TypeInv, Place, Busy
  <2> QED
    BY <2>1, <2>2, SameCode
<1>5. ASSUME NEW k \in DOMAIN code
      PROVE  /\ pc'[k] # "none" => code[k].op \in {"thread", "process", "run"}
             /\ k > at' \/ (k = at' /\ code[k].op # "run") => pc'[k] = "none"
  BY <1>1, <1>2 DEF TypeInv, Place
<1> QED
  BY <1>1, <1>3, <1>4, <1>5 DEF Place, Busy

LEMMA MainType == TypeInv /\ Main => TypeInv'
<1> SUFFICES ASSUME TypeInv, Main PROVE TypeInv'
  OBVIOUS
<1>1. code' = code
  BY DEF Main, CreateThread, Fork, Run, RunJoin, AwaitThread, AwaitProcess, EndAwait,
         EndUpdate, ReturnFromMain
<1>2. Compiles(code) /\ Compiles(code)'
  BY <1>1 DEF TypeInv, TypeOK, Compiles, Declares
<1>3. /\ Len(code) \in Nat /\ DOMAIN code = 1 .. Len(code)
      /\ Units = 0 .. Len(code) /\ Units' = Units /\ Spaces' = Spaces /\ Spaces = Units
  BY <1>1, <1>2, CodeFacts, SameCode DEF Spaces
<1> USE <1>1, <1>2, <1>3
<1>4. CASE CreateThread
  <2>1. at \in DOMAIN code /\ code[at].op = "thread" /\ code[at].var \in Results /\ item = 1
    BY <1>4, CodeFacts DEF CreateThread, MainAt, TypeInv, TypeOK
  <2>2. /\ pc' \in [Units -> Labels]
        /\ \A v \in Units : pc'[v] = IF v = at THEN "body" ELSE pc[v]
    BY <1>4, <2>1, Started DEF CreateThread
  <2>3. /\ result' \in [Results -> Units \cup {Garbage}] /\ at' = at + 1
        /\ UNCHANGED <<item, step, reg, mem, owner, cell>>
    BY <1>4, <2>1 DEF CreateThread, TypeInv, TypeOK
  <2>4. TypeOK'
    BY <2>1, <2>2, <2>3 DEF TypeInv, TypeOK, Labels
  <2>5. Place'
    BY <2>1, <2>2, <2>3, <1>4, GoesOn DEF CreateThread, MainAt
  <2> QED
    BY <2>4, <2>5 DEF TypeInv
<1>5. CASE Fork
  <2>1. at \in DOMAIN code /\ code[at].op = "process" /\ code[at].var \in Results /\ item = 1
    BY <1>5, CodeFacts DEF Fork, MainAt, TypeInv, TypeOK
  <2>2. /\ pc' \in [Units -> Labels]
        /\ \A v \in Units : pc'[v] = IF v = at THEN "body" ELSE pc[v]
    BY <1>5, <2>1, Started DEF Fork
  <2>3. /\ result' \in [Results -> Units \cup {Garbage}] /\ at' = at + 1
        /\ cell' \in [Results -> Units]
        /\ UNCHANGED <<item, step, reg>>
    BY <1>5, <2>1 DEF Fork, TypeInv, TypeOK
  <2>4. mem' \in [Units -> [Globals -> SUBSET Updates]]
    <3>1. mem' = [mem EXCEPT ![at] = mem[0]] /\ 0 \in Units
      BY <1>5 DEF Fork
    <3>2. mem \in [Units -> [Globals -> SUBSET Updates]]
      BY DEF TypeInv, TypeOK
    <3> QED
      BY <3>1, <3>2
  <2>5. owner' \in [Units -> [Globals -> Units \cup {Free}]]
    <3>1. owner' = [owner EXCEPT ![at] = owner[0]] /\ 0 \in Units
      BY <1>5 DEF Fork
    <3>2. owner \in [Units -> [Globals -> Units \cup {Free}]]
      BY DEF TypeInv, TypeOK
    <3> QED
      BY <3>1, <3>2
  <2>6. TypeOK'
    BY <2>1, <2>2, <2>3, <2>4, <2>5 DEF TypeInv, TypeOK, Labels
  <2>7. Place'
    BY <2>1, <2>2, <2>3, <1>5, GoesOn DEF Fork, MainAt
  <2> QED
    BY <2>6, <2>7 DEF TypeInv
<1>6. CASE Run
  <2>1. at \in DOMAIN code /\ code[at].op = "run" /\ item = 1
    BY <1>6 DEF Run, MainAt, TypeInv, TypeOK
  <2>2. /\ pc' \in [Units -> Labels]
        /\ \A v \in Units : pc'[v] = IF v = at THEN "body" ELSE pc[v]
    BY <1>6, <2>1, Started DEF Run
  <2>3. UNCHANGED <<at, item, step, reg, mem, owner, result, cell>>
    BY <1>6 DEF Run
  <2>4. TypeOK'
    BY <2>1, <2>2, <2>3 DEF TypeInv, TypeOK, Labels
  <2>5. Place'
    BY <2>1, <2>2, <2>3, <1>6, SameCode DEF TypeInv, TypeOK, Place, Busy, Run, MainAt
  <2> QED
    BY <2>4, <2>5 DEF TypeInv
<1>7. CASE RunJoin \/ EndAwait \/ EndUpdate
  <2>1. /\ at \in DOMAIN code /\ pc[0] = "body" /\ at' = at + 1
        /\ UNCHANGED <<pc, reg, mem, owner, result, cell>>
    BY <1>7 DEF RunJoin, EndAwait, EndUpdate, MainAt
  <2>2. item' = 1
    BY <1>7 DEF RunJoin, EndAwait, EndUpdate, MainAt, TypeInv, TypeOK
  <2>3. /\ step' \in [Units -> Nat \ {0}]
        /\ \A v \in Units : v # 0 => step'[v] = step[v]
    <3>1. step' = step \/ step' = [step EXCEPT ![0] = 1]
      BY <1>7 DEF RunJoin, EndAwait, EndUpdate
    <3>2. step \in [Units -> Nat \ {0}] /\ 1 \in Nat \ {0} /\ 0 \in Units
      BY DEF TypeInv, TypeOK
    <3> QED
      BY <3>1, <3>2
  <2>4. TypeOK'
    BY <2>1, <2>2, <2>3 DEF TypeInv, TypeOK
  <2>5. Place'
    BY <2>1, <2>3, GoesOn
  <2> QED
    BY <2>4, <2>5 DEF TypeInv
<1>8. CASE AwaitThread \/ AwaitProcess
  <2>1. /\ at \in DOMAIN code /\ code[at].op = "await" /\ item <= Len(code[at].awaits)
        /\ item' = item + 1 /\ UNCHANGED <<at, pc, step, reg, mem, owner, cell>>
    BY <1>8 DEF AwaitThread, AwaitProcess, MainAt
  <2>2. Awaited \in Results /\ item \in Nat \ {0}
    BY <2>1, CodeFacts DEF Awaited, TypeInv, TypeOK
  <2>3. result' \in [Results -> Units \cup {Garbage}]
    BY <1>8, <2>2 DEF AwaitThread, AwaitProcess, TypeInv, TypeOK
  <2>4. TypeOK'
    BY <2>1, <2>2, <2>3 DEF TypeInv, TypeOK
  <2>5. Place'
    BY <2>1, SameCode DEF TypeInv, TypeOK, Place, Busy
  <2> QED
    BY <2>4, <2>5 DEF TypeInv
<1>9. CASE ReturnFromMain
  <2>1. /\ pc' \in [Units -> Labels]
        /\ \A v \in Units : pc'[v] = IF v = 0 THEN "done" ELSE pc[v]
        /\ UNCHANGED <<at, item, step, reg, mem, owner, result, cell>>
    BY <1>9 DEF ReturnFromMain, Goto, TypeInv, TypeOK, Labels
  <2>2. TypeOK'
    BY <2>1 DEF TypeInv, TypeOK, Labels
  <2>3. Place'
    BY <2>1, SameCode DEF TypeInv, TypeOK, Place, Busy
  <2> QED
    BY <2>2, <2>3 DEF TypeInv
<1> QED
  BY <1>4, <1>5, <1>6, <1>7, <1>8, <1>9 DEF Main

(* Writing one place of a table of an address space. *)
LEMMA Put ==
  ASSUME NEW S, NEW G, NEW V, NEW f \in [S -> [G -> V]], NEW s \in S, NEW g \in G,
         NEW v \in V, NEW h, h = [f EXCEPT ![s][g] = v]
  PROVE  /\ h \in [S -> [G -> V]]
         /\ \A t \in S : \A x \in G : h[t][x] = IF t = s /\ x = g THEN v ELSE f[t][x]
OBVIOUS

(* What a step of a unit leaves alone. *)
LEMMA UnitFrame ==
  ASSUME TypeInv, NEW u \in Units, Unit(u)
  PROVE  /\ code' = code /\ at' = at /\ item' = item
         /\ pc' \in [Units -> Labels] /\ step' \in [Units -> Nat \ {0}]
         /\ \A v \in Units : v # u => pc'[v] = pc[v] /\ step'[v] = step[v]
         /\ pc[u] \in {"body", "load", "store", "unlock"} /\ pc'[u] # "none"
         /\ u = 0 => at \in DOMAIN code /\ code[at].op = "update"
         /\ Units' = Units /\ Spaces' = Spaces
         /\ \A v : /\ Space(v)' = Space(v) /\ Text(v)' = Text(v)
                   /\ Body(v)' = Body(v) /\ Marked(v)' = Marked(v)
<1>1. code' = code /\ at' = at /\ item' = item
  BY DEF Unit, LockShared, NoLock, Load, Store, UnlockShared, ThreadReturns,
         BlockReturns, ChildExits
<1>2. /\ pc[u] \in {"body", "load", "store", "unlock"} /\ Running(u)
      /\ \E label \in {"load", "store", "unlock", "body", "done"} : Goto(u, label)
  BY DEF Unit, LockShared, NoLock, Load, Store, UnlockShared, ThreadReturns,
         BlockReturns, ChildExits, EndOfBody, AtUpdate
<1>3. step' = step \/ step' = [step EXCEPT ![u] = @ + 1]
  BY DEF Unit, LockShared, NoLock, Load, Store, UnlockShared, ThreadReturns,
         BlockReturns, ChildExits
<1>4. /\ pc' \in [Units -> Labels] /\ pc'[u] # "none"
      /\ \A v \in Units : v # u => pc'[v] = pc[v]
  BY <1>2 DEF Goto, TypeInv, TypeOK, Labels
<1>5. /\ step' \in [Units -> Nat \ {0}]
      /\ \A v \in Units : v # u => step'[v] = step[v]
  BY <1>3 DEF TypeInv, TypeOK
<1> QED
  BY <1>1, <1>2, <1>4, <1>5, SameCode DEF Running

(* The variable a unit is about to update. *)
LEMMA UnitGlobal ==
  ASSUME TypeInv, NEW u \in Units, u = 0 => at \in DOMAIN code
  PROVE  /\ Space(u) \in Spaces /\ Text(u) \in DOMAIN code
         /\ Len(Body(u)) \in Nat /\ DOMAIN Body(u) = 1 .. Len(Body(u))
         /\ \A i \in DOMAIN Body(u) : Body(u)[i] \in Globals
<1>1. Text(u) \in DOMAIN code
  BY CodeFacts DEF TypeInv, TypeOK, Text
<1> QED
  BY <1>1, CodeFacts DEF TypeInv, TypeOK, Space, Spaces, Body, Units

LEMMA UnitType ==
  ASSUME TypeInv, NEW u \in Units, Unit(u)
  PROVE  TypeInv'
<1>1. /\ code' = code /\ at' = at /\ item' = item
      /\ pc' \in [Units -> Labels] /\ step' \in [Units -> Nat \ {0}]
      /\ \A v \in Units : v # u => pc'[v] = pc[v] /\ step'[v] = step[v]
      /\ pc[u] \in {"body", "load", "store", "unlock"} /\ pc'[u] # "none"
      /\ u = 0 => at \in DOMAIN code /\ code[at].op = "update"
      /\ Units' = Units /\ Spaces' = Spaces
      /\ \A v : Space(v)' = Space(v) /\ Text(v)' = Text(v) /\ Body(v)' = Body(v)
  BY UnitFrame
<1>2. /\ Space(u) \in Spaces /\ Text(u) \in DOMAIN code
      /\ Len(Body(u)) \in Nat /\ DOMAIN Body(u) = 1 .. Len(Body(u))
      /\ \A i \in DOMAIN Body(u) : Body(u)[i] \in Globals
  BY <1>1, UnitGlobal
<1>3. Compiles(code) /\ Compiles(code)'
  BY <1>1 DEF TypeInv, TypeOK, Compiles, Declares
<1>4. /\ Len(code) \in Nat /\ DOMAIN code = 1 .. Len(code) /\ Units = 0 .. Len(code)
  BY <1>3, CodeFacts
<1>5. pc[u] \in {"load", "store", "unlock"} => step[u] \in DOMAIN Body(u)
  BY DEF TypeInv, Place, Busy
<1>6. Busy(u)' => step'[u] \in DOMAIN Body(u)
  <2>1. CASE LockShared(u) \/ NoLock(u)
    <3>1. step' = step /\ step[u] <= Len(Body(u)) /\ step[u] \in Nat \ {0}
      BY <2>1 DEF LockShared, NoLock, AtUpdate, TypeInv, TypeOK
    <3> QED
      BY <3>1, <1>2
  <2>2. CASE Load(u) \/ Store(u)
    BY <2>2, <1>5 DEF Load, Store
  <2>3. CASE UnlockShared(u) \/ ThreadReturns(u) \/ BlockReturns(u) \/ ChildExits(u)
    BY <2>3 DEF UnlockShared, ThreadReturns, BlockReturns, ChildExits, Goto, Busy,
                TypeInv, TypeOK
  <2> QED
    BY <2>1, <2>2, <2>3 DEF Unit
<1>7. Place'
  <2>1. \A v \in Units : Busy(v)' => step'[v] \in DOMAIN Body(v)'
    BY <1>1, <1>6 DEF TypeInv, Place, Busy
  <2>2. Busy(0)' => at' \in DOMAIN code' /\ code'[at'].op = "update"
    BY <1>1, <1>4 DEF TypeInv, Place, Busy
  <2>3. pc'[0] # "none"
    BY <1>1, <1>4 DEF TypeInv, Place
  <2>4. ASSUME NEW k \in DOMAIN code
        PROVE  /\ pc'[k] # "none" => code[k].op \in {"thread", "process", "run"}
               /\ k > at \/ (k = at /\ code[k].op # "run") => pc'[k] = "none"
    BY <1>1, <1>4 DEF TypeInv, Place
  <2>5. code' \in {Emitted(p) : p \in Programs}
    BY <1>1 DEF TypeInv, Place
  <2> QED
    BY <1>1, <2>1, <2>2, <2>3, <2>4, <2>5 DEF Place
<1>8. reg' \in [Units -> SUBSET Updates]
  <2>1. CASE Load(u)
    <3>1. mem[Space(u)][Global(u)] \in SUBSET Updates
      BY <2>1, <1>2, <1>5 DEF Load, Global, TypeInv, TypeOK
    <3> QED
      BY <2>1, <3>1 DEF Load, TypeInv, TypeOK
  <2>2. CASE ~Load(u)
    BY <2>2 DEF Unit, LockShared, NoLock, Store, UnlockShared, ThreadReturns,
                BlockReturns, ChildExits, TypeInv, TypeOK
  <2> QED
    BY <2>1, <2>2
<1>9. mem' \in [Spaces -> [Globals -> SUBSET Updates]]
  <2>1. CASE Store(u)
    <3>1. reg[u] \cup {<<Text(u), step[u]>>} \in SUBSET Updates
      BY <1>2, <1>4 DEF TypeInv, TypeOK, Updates
    <3>2. Global(u) \in Globals
      BY <2>1, <1>2, <1>5 DEF Store, Global
    <3>3. mem \in [Spaces -> [Globals -> SUBSET Updates]]
      BY DEF TypeInv, TypeOK
    <3>4. mem' = [mem EXCEPT ![Space(u)][Global(u)] = reg[u] \cup {<<Text(u), step[u]>>}]
      BY <2>1 DEF Store
    <3> QED
      BY <1>2, <3>1, <3>2, <3>3, <3>4, Put
  <2>2. CASE ~Store(u)
    BY <2>2 DEF Unit, LockShared, NoLock, Load, UnlockShared, ThreadReturns,
                BlockReturns, ChildExits, TypeInv, TypeOK
  <2> QED
    BY <2>1, <2>2
<1>10. owner' \in [Spaces -> [Globals -> Units \cup {Free}]]
  <2>1. owner \in [Spaces -> [Globals -> Units \cup {Free}]]
    BY DEF TypeInv, TypeOK
  <2>2. CASE LockShared(u)
    <3>1. step[u] \in DOMAIN Body(u)
      BY <2>2, <1>2 DEF LockShared, AtUpdate, TypeInv, TypeOK
    <3>2. Global(u) \in Globals
      BY <3>1, <1>2 DEF Global
    <3>3. owner' = [owner EXCEPT ![Space(u)][Global(u)] = u]
      BY <2>2 DEF LockShared
    <3> QED
      BY <1>2, <2>1, <3>2, <3>3, Put
  <2>3. CASE UnlockShared(u)
    <3>1. Global(u) \in Globals
      BY <2>3, <1>2, <1>5 DEF UnlockShared, Global
    <3>2. owner' = owner \/ owner' = [owner EXCEPT ![Space(u)][Global(u)] = Free]
      BY <2>3 DEF UnlockShared
    <3> QED
      BY <1>2, <2>1, <3>1, <3>2, Put
  <2>4. CASE ~LockShared(u) /\ ~UnlockShared(u)
    BY <2>4, <2>1 DEF Unit, NoLock, Load, Store, ThreadReturns, BlockReturns, ChildExits
  <2> QED
    BY <2>2, <2>3, <2>4
<1>11. result' \in [Results -> Units \cup {Garbage}] /\ cell' \in [Results -> Units]
  <2>1. result \in [Results -> Units \cup {Garbage}] /\ cell \in [Results -> Units]
    BY DEF TypeInv, TypeOK
  <2>2. CASE ThreadReturns(u)
    BY <2>1, <2>2 DEF ThreadReturns
  <2>3. CASE ChildExits(u)
    BY <2>1, <2>3 DEF ChildExits
  <2>4. CASE ~ThreadReturns(u) /\ ~ChildExits(u)
    BY <2>1, <2>4 DEF Unit, LockShared, NoLock, Load, Store, UnlockShared, BlockReturns
  <2> QED
    BY <2>2, <2>3, <2>4
<1>12. TypeOK'
  BY <1>1, <1>3, <1>8, <1>9, <1>10, <1>11 DEF TypeInv, TypeOK, Labels
<1> QED
  BY <1>7, <1>12 DEF TypeInv

LEMMA TypeInvariant == Spec => []TypeInv
<1>1. TypeInv /\ [Next]_vars => TypeInv'
  <2> SUFFICES ASSUME TypeInv, [Next]_vars PROVE TypeInv'
    OBVIOUS
  <2>1. CASE Main
    BY <2>1, MainType
  <2>2. ASSUME NEW u \in Units, Unit(u) PROVE TypeInv'
    BY <2>2, UnitType
  <2>3. CASE UNCHANGED vars
    <3>1. code' = code /\ at' = at
      BY <2>3 DEF vars
    <3>2. /\ Units' = Units /\ Spaces' = Spaces
          /\ \A u : Body(u)' = Body(u)
      BY <3>1, SameCode
    <3>3. Compiles(code)'
      BY <3>1 DEF TypeInv, TypeOK, Compiles, Declares
    <3>4. TypeOK'
      BY <2>3, <3>2, <3>3 DEF vars, TypeInv, TypeOK
    <3>5. Place'
      BY <2>3, <3>2 DEF vars, TypeInv, Place, Busy
    <3> QED
      BY <3>4, <3>5 DEF TypeInv
  <2> QED
    BY <2>1, <2>2, <2>3 DEF Next
<1> QED
  BY <1>1, InitType, PTL DEF Spec

(* Every variable keeps its type, and main is inside a list of names only  *)
(* at an await (TypeOK), for every program that compiles.                  *)
THEOREM TypeCorrect == Spec => []TypeOK
<1>1. TypeInv => TypeOK
  BY DEF TypeInv
<1> QED
  BY <1>1, TypeInvariant, PTL

-----------------------------------------------------------------------------
(* Mutexes *)

LockInv ==
  \A u \in Units : Busy(u) /\ Global(u) \in Marked(u) => owner[Space(u)][Global(u)] = u

(* What a step of main leaves alone: it moves on only when it is in no     *)
(* update, and it starts only the unit of its own statement.               *)
LEMMA MainFrame ==
  ASSUME TypeInv, Main
  PROVE  /\ code' = code /\ Units' = Units /\ Spaces' = Spaces /\ reg' = reg
         /\ pc[0] = "body" /\ pc'[0] \in {"body", "done"} /\ at' \in {at, at + 1}
         /\ \A u \in Units : Space(u)' = Space(u)
         /\ \A u \in Units : u # 0 =>
              /\ Text(u)' = Text(u) /\ Body(u)' = Body(u) /\ Marked(u)' = Marked(u)
              /\ step'[u] = step[u]
              /\ \/ pc'[u] = pc[u]
                 \/ u = at /\ pc[u] = "none" /\ pc'[u] = "body"
<1>1. code' = code /\ reg' = reg /\ pc[0] = "body" /\ at' \in {at, at + 1}
  BY DEF Main, CreateThread, Fork, Run, RunJoin, AwaitThread, AwaitProcess, EndAwait,
         EndUpdate, ReturnFromMain, MainAt
<1>2. /\ Len(code) \in Nat /\ DOMAIN code = 1 .. Len(code) /\ Units = 0 .. Len(code)
  BY CodeFacts DEF TypeInv, TypeOK
<1>3. step' = step \/ step' = [step EXCEPT ![0] = 1]
  BY DEF Main, CreateThread, Fork, Run, RunJoin, AwaitThread, AwaitProcess, EndAwait,
         EndUpdate, ReturnFromMain
<1>4. \/ pc' = pc
      \/ Goto(0, "done")
      \/ Goto(at, "body") /\ at \in DOMAIN code /\ pc[at] = "none"
  <2>1. CASE CreateThread \/ Fork \/ Run
    BY <2>1 DEF CreateThread, Fork, Run, MainAt, TypeInv, Place
  <2>2. CASE RunJoin \/ AwaitThread \/ AwaitProcess \/ EndAwait \/ EndUpdate
    BY <2>2 DEF RunJoin, AwaitThread, AwaitProcess, EndAwait, EndUpdate
  <2>3. CASE ReturnFromMain
    BY <2>3 DEF ReturnFromMain
  <2> QED
    BY <2>1, <2>2, <2>3 DEF Main
<1>5. pc'[0] \in {"body", "done"}
  <2>1. 0 \in Units /\ pc \in [Units -> Labels]
    BY <1>2 DEF TypeInv, TypeOK, Labels
  <2>2. at \in DOMAIN code => at # 0
    BY <1>2
  <2> QED
    BY <1>1, <1>4, <2>1, <2>2 DEF Goto
<1>6. ASSUME NEW u \in Units, u # 0
      PROVE  /\ step'[u] = step[u]
             /\ pc'[u] = pc[u] \/ (u = at /\ pc[u] = "none" /\ pc'[u] = "body")
  BY <1>2, <1>3, <1>4, <1>6 DEF Goto, TypeInv, TypeOK
<1> QED
  BY <1>1, <1>5, <1>6, SameCode

(* Outside the address space of main there is one unit only. *)
LEMMA OwnSpace ==
  \A u \in Units : Space(u) = 0 \/ (Space(u) = u /\ u # 0)
BY DEF Space

LEMMA MainLock ==
  ASSUME TypeInv, LockInv, Main
  PROVE  LockInv'
<1>1. /\ Units' = Units /\ pc[0] = "body" /\ pc'[0] \in {"body", "done"}
      /\ \A u \in Units : Space(u)' = Space(u)
      /\ \A u \in Units : u # 0 =>
           /\ Body(u)' = Body(u) /\ Marked(u)' = Marked(u) /\ step'[u] = step[u]
           /\ pc'[u] = pc[u] \/ (u = at /\ pc[u] = "none" /\ pc'[u] = "body")
  BY MainFrame
<1>2. SUFFICES ASSUME NEW u \in Units, Busy(u)', Global(u)' \in Marked(u)'
               PROVE  owner'[Space(u)'][Global(u)'] = u
  BY <1>1 DEF LockInv
<1>3. u # 0 /\ pc'[u] = pc[u]
  BY <1>1, <1>2 DEF Busy
<1>4. Busy(u) /\ Global(u)' = Global(u) /\ Marked(u)' = Marked(u)
  BY <1>1, <1>2, <1>3 DEF Busy, Global
<1>5. owner[Space(u)][Global(u)] = u
  BY <1>2, <1>4 DEF LockInv
<1>6. owner'[Space(u)] = owner[Space(u)]
  <2>1. CASE Fork
    <3>1. at \in DOMAIN code /\ code[at].op = "process" /\ owner' = [owner EXCEPT ![at] = owner[0]]
      BY <2>1 DEF Fork, MainAt
    <3>2. pc[at] = "none"
      BY <3>1 DEF TypeInv, Place
    <3>3. u # at /\ at # 0
      BY <3>1, <3>2, <1>4, CodeFacts DEF Busy, TypeInv, TypeOK
    <3>4. Space(u) # at /\ Space(u) \in Spaces
      BY <3>3, OwnSpace DEF Spaces, Units
    <3> QED
      BY <3>1, <3>4 DEF TypeInv, TypeOK
  <2>2. CASE ~Fork
    BY <2>2 DEF Main, CreateThread, Run, RunJoin, AwaitThread, AwaitProcess, EndAwait,
                EndUpdate, ReturnFromMain
  <2> QED
    BY <2>1, <2>2
<1> QED
  BY <1>1, <1>4, <1>5, <1>6

(* Where a step of a unit is within its body. *)
LEMMA UnitPlace ==
  ASSUME TypeInv, NEW u \in Units, Unit(u)
  PROVE  /\ Space(u) \in Spaces /\ Body(u)' = Body(u)
         /\ \/ LockShared(u) \/ NoLock(u) \/ Busy(u)
            => step[u] \in DOMAIN Body(u) /\ Global(u) \in Globals
<1>1. u = 0 => at \in DOMAIN code
  BY UnitFrame
<1>2. /\ Space(u) \in Spaces /\ Len(Body(u)) \in Nat /\ DOMAIN Body(u) = 1 .. Len(Body(u))
      /\ \A i \in DOMAIN Body(u) : Body(u)[i] \in Globals
  BY <1>1, UnitGlobal
<1>3. LockShared(u) \/ NoLock(u) \/ Busy(u) => step[u] \in DOMAIN Body(u)
  BY <1>2 DEF LockShared, NoLock, AtUpdate, TypeInv, TypeOK, Place
<1> QED
  BY <1>2, <1>3, UnitFrame DEF Global

LEMMA UnitLock ==
  ASSUME TypeInv, LockInv, NEW u \in Units, Unit(u)
  PROVE  LockInv'
<1>1. /\ Units' = Units /\ \A v \in Units : v # u => pc'[v] = pc[v] /\ step'[v] = step[v]
      /\ pc' \in [Units -> Labels]
      /\ \A v : Space(v)' = Space(v) /\ Body(v)' = Body(v) /\ Marked(v)' = Marked(v)
  BY UnitFrame
<1>2. /\ Space(u) \in Spaces
      /\ LockShared(u) \/ NoLock(u) \/ Busy(u) => Global(u) \in Globals
  BY UnitPlace
<1>3. SUFFICES ASSUME NEW v \in Units, Busy(v)', Global(v)' \in Marked(v)'
               PROVE  owner'[Space(v)][Global(v)'] = v
  BY <1>1 DEF LockInv
<1>4. ASSUME v # u
      PROVE  /\ Global(v)' = Global(v) /\ Busy(v) /\ owner[Space(v)][Global(v)] = v
             /\ Space(v) \in Spaces /\ Global(v) \in Globals
  <2>1. Global(v)' = Global(v) /\ Busy(v) /\ Global(v) \in Marked(v)
    BY <1>1, <1>3, <1>4 DEF Global, Busy
  <2>2. v = 0 => at \in DOMAIN code
    BY <2>1 DEF TypeInv, Place
  <2>3. step[v] \in DOMAIN Body(v)
    BY <2>1 DEF TypeInv, Place
  <2> QED
    BY <2>1, <2>2, <2>3, UnitGlobal DEF LockInv, Global
<1>5. u # Free /\ v # Free
  BY CodeFacts DEF TypeInv, TypeOK, Free
<1>6. owner \in [Spaces -> [Globals -> Units \cup {Free}]]
  BY DEF TypeInv, TypeOK
<1>7. CASE LockShared(u)
  <2>1. /\ owner[Space(u)][Global(u)] = Free /\ step' = step
        /\ owner' = [owner EXCEPT ![Space(u)][Global(u)] = u]
    BY <1>7 DEF LockShared
  <2>2. u \in Units \cup {Free} /\ Global(u) \in Globals
    BY <1>2, <1>7
  <2>3. \A t \in Spaces : \A x \in Globals :
          owner'[t][x] = IF t = Space(u) /\ x = Global(u) THEN u ELSE owner[t][x]
    BY <2>1, <2>2, <1>2, <1>6, Put
  <2>4. CASE v = u
    <3>1. Global(u)' = Global(u)
      BY <1>1, <2>1 DEF Global
    <3> QED
      BY <2>2, <2>3, <2>4, <3>1, <1>2
  <2>5. CASE v # u
    BY <2>1, <2>3, <2>5, <1>4, <1>5
  <2> QED
    BY <2>4, <2>5
<1>8. CASE UnlockShared(u)
  <2>1. /\ pc[u] = "unlock" /\ pc' = [pc EXCEPT ![u] = "body"]
        /\ owner' = IF Global(u) \in Marked(u)
                    THEN [owner EXCEPT ![Space(u)][Global(u)] = Free] ELSE owner
    BY <1>8 DEF UnlockShared, Goto
  <2>2. v # u
    BY <2>1, <1>3 DEF Busy, TypeInv, TypeOK
  <2>3. CASE Global(u) \in Marked(u)
    <3>1. owner[Space(u)][Global(u)] = u
      BY <2>1, <2>3 DEF LockInv, Busy
    <3>2. Free \in Units \cup {Free} /\ Global(u) \in Globals
      BY <2>1, <1>2 DEF Busy
    <3>3. \A t \in Spaces : \A x \in Globals :
            owner'[t][x] = IF t = Space(u) /\ x = Global(u) THEN Free ELSE owner[t][x]
      BY <2>1, <2>3, <3>2, <1>2, <1>6, Put
    <3> QED
      BY <2>2, <3>1, <3>3, <1>4
  <2>4. CASE Global(u) \notin Marked(u)
    BY <2>1, <2>2, <2>4, <1>4
  <2> QED
    BY <2>3, <2>4
<1>9. CASE ~LockShared(u) /\ ~UnlockShared(u)
  <2>1. owner' = owner /\ step' = step
    BY <1>9 DEF Unit, NoLock, Load, Store, ThreadReturns, BlockReturns, ChildExits
  <2>2. Global(u)' = Global(u)
    BY <2>1, <1>1 DEF Global
  <2>3. ASSUME v = u PROVE owner[Space(v)][Global(v)] = v
    <3>1. ~NoLock(u) /\ Busy(u)
      <4>1. CASE Load(u) \/ Store(u)
        BY <4>1 DEF Load, Store, Busy, NoLock, AtUpdate
      <4>2. CASE NoLock(u)
        BY <4>2, <2>2, <2>3, <1>1, <1>3 DEF NoLock
      <4>3. CASE ThreadReturns(u) \/ BlockReturns(u) \/ ChildExits(u)
        <5>1. pc'[u] = "done"
          BY <4>3 DEF ThreadReturns, BlockReturns, ChildExits, Goto, TypeInv, TypeOK
        <5> QED
          BY <5>1, <2>3, <1>3 DEF Busy
      <4> QED
        BY <4>1, <4>2, <4>3, <1>9 DEF Unit
    <3> QED
      BY <3>1, <2>2, <2>3, <1>1, <1>3 DEF LockInv
  <2> QED
    BY <2>1, <2>2, <2>3, <1>4
<1> QED
  BY <1>7, <1>8, <1>9

(* A stuttering step changes nothing that an invariant reads. *)
LEMMA SameState ==
  ASSUME UNCHANGED vars
  PROVE  /\ Units' = Units /\ Spaces' = Spaces /\ code' = code /\ at' = at /\ item' = item
         /\ pc' = pc /\ step' = step /\ reg' = reg /\ mem' = mem /\ owner' = owner
         /\ result' = result /\ cell' = cell
         /\ \A u : /\ Space(u)' = Space(u) /\ Text(u)' = Text(u) /\ Body(u)' = Body(u)
                   /\ Marked(u)' = Marked(u) /\ Global(u)' = Global(u)
BY SameCode DEF vars, Global

LEMMA LockInvariant == Spec => []LockInv
<1>1. Init => LockInv
  BY DEF Init, LockInv, Busy
<1>2. TypeInv /\ LockInv /\ [Next]_vars => LockInv'
  <2> SUFFICES ASSUME TypeInv, LockInv, [Next]_vars PROVE LockInv'
    OBVIOUS
  <2>1. CASE Main
    BY <2>1, MainLock
  <2>2. ASSUME NEW u \in Units, Unit(u) PROVE LockInv'
    BY <2>2, UnitLock
  <2>3. CASE UNCHANGED vars
    BY <2>3, SameState DEF LockInv, Busy
  <2> QED
    BY <2>1, <2>2, <2>3 DEF Next
<1> QED
  BY <1>1, <1>2, TypeInvariant, PTL DEF Spec

(* Two units of one address space that have begun an update of the same    *)
(* global run two statements of main's address space.                      *)
LEMMA Exclusive ==
  ASSUME MarksComplete(Programs), TypeInv, LockInv, NEW u \in Units, NEW v \in Units,
         Busy(u), Busy(v), Space(u) = Space(v), Global(u) = Global(v)
  PROVE  u = v
<1> SUFFICES ASSUME u # v PROVE FALSE
  OBVIOUS
<1>1. Space(u) = 0 /\ Space(v) = 0
  BY OwnSpace
<1>2. ASSUME NEW w \in Units, Busy(w), Space(w) = 0
      PROVE  /\ Text(w) \in DOMAIN code /\ Global(w) \in Globals
             /\ w = 0 => code[Text(w)].op = "update"
             /\ w # 0 => Text(w) = w /\ code[Text(w)].op \in {"thread", "run"}
             /\ Touches(code[Text(w)], Global(w))
  <2>1. w = 0 => at \in DOMAIN code /\ code[at].op = "update"
    BY <1>2 DEF TypeInv, Place
  <2>2. Text(w) \in DOMAIN code /\ step[w] \in DOMAIN Body(w) /\ Global(w) \in Globals
    BY <1>2, <2>1, UnitGlobal DEF TypeInv, Place, Global
  <2>3. w # 0 => Text(w) = w /\ code[Text(w)].op \in {"thread", "run"}
    <3>1. w # 0 => w \in DOMAIN code /\ pc[w] # "none"
      BY <1>2 DEF Units, Busy
    <3> QED
      BY <3>1, <1>2 DEF TypeInv, Place, Text, Space
  <2>4. w = 0 => Text(w) = at
    BY DEF Text
  <2>5. code[Text(w)].op # "process"
    BY <2>1, <2>3, <2>4
  <2> QED
    BY <2>1, <2>2, <2>3, <2>4, <2>5 DEF Touches, Body, Global
<1>3. /\ Text(u) \in DOMAIN code /\ Text(v) \in DOMAIN code /\ Global(u) \in Globals
      /\ Touches(code[Text(u)], Global(u)) /\ Touches(code[Text(v)], Global(u))
  BY <1>1, <1>2
<1>4. Text(u) # Text(v)
  BY <1>1, <1>2
<1>5. PICK p \in Programs : code = Emitted(p)
  BY DEF TypeInv, Place
<1>6. Global(u) \in code[Text(u)].marked /\ Global(u) \in code[Text(v)].marked
  BY <1>3, <1>4, <1>5 DEF MarksComplete
<1>7. owner[0][Global(u)] = u /\ owner[0][Global(u)] = v
  BY <1>1, <1>6 DEF LockInv, Marked
<1> QED
  BY <1>7

(* While one thread is between the load and the store of an update, no     *)
(* other flow of control of its address space updates the variable, for    *)
(* every program whose marks are complete (Exclusion).                     *)
THEOREM ExclusionHolds ==
  ASSUME MarksComplete(Programs)
  PROVE  Spec => []Exclusion
<1>1. TypeInv /\ LockInv => Exclusion
  <2> SUFFICES ASSUME TypeInv, LockInv, NEW u \in Units, NEW v \in Units, NEW g \in Globals,
                      Updating(u, g), Updating(v, g), Space(u) = Space(v)
               PROVE  u = v
    BY DEF Exclusion
  <2> QED
    BY Exclusive DEF Updating, Busy
<1> QED
  BY <1>1, TypeInvariant, LockInvariant, PTL

-----------------------------------------------------------------------------
(* Memory *)

(* What a unit has loaded is still there when it stores, and the memory of *)
(* a child holds nothing before the fork.                                  *)
RegInv ==
  /\ \A u \in Units : pc[u] = "store" => reg[u] = mem[Space(u)][Global(u)]
  /\ \A k \in DOMAIN code : pc[k] = "none" => mem[k] = [g \in Globals |-> {}]

MemInv == TypeInv /\ LockInv /\ RegInv

Grows == \A s \in Spaces : \A g \in Globals : mem[s][g] \subseteq mem'[s][g]

(* Only a fork and a store write to memory. *)
LEMMA MainMemory ==
  ASSUME MemInv, Main
  PROVE  /\ Grows
         /\ \A s \in Spaces : \/ mem'[s] = mem[s]
                             \/ /\ s \in DOMAIN code /\ s = at /\ code[s].op = "process"
                                /\ pc[s] = "none" /\ pc'[s] = "body" /\ mem'[s] = mem[0]
<1>1. CASE Fork
  <2>1. /\ at \in DOMAIN code /\ code[at].op = "process" /\ Goto(at, "body")
        /\ mem' = [mem EXCEPT ![at] = mem[0]]
    BY <1>1 DEF Fork, MainAt
  <2>2. pc[at] = "none" /\ mem[at] = [g \in Globals |-> {}]
    BY <2>1 DEF MemInv, RegInv, TypeInv, Place
  <2>3. at \in Spaces /\ 0 \in Spaces /\ mem \in [Spaces -> [Globals -> SUBSET Updates]]
        /\ pc \in [Units -> Labels]
    BY <2>1 DEF MemInv, TypeInv, TypeOK, Spaces, Units, Labels
  <2>4. \A s \in Spaces : mem'[s] = IF s = at THEN mem[0] ELSE mem[s]
    BY <2>1, <2>3
  <2>5. pc'[at] = "body"
    BY <2>1, <2>3 DEF Goto, Spaces
  <2> QED
    BY <2>1, <2>2, <2>4, <2>5 DEF Grows
<1>2. CASE ~Fork
  <2>1. mem' = mem
    BY <1>2 DEF Main, CreateThread, Run, RunJoin, AwaitThread, AwaitProcess, EndAwait,
                EndUpdate, ReturnFromMain
  <2> QED
    BY <2>1 DEF Grows
<1> QED
  BY <1>1, <1>2

LEMMA UnitMemory ==
  ASSUME MemInv, NEW u \in Units, Unit(u)
  PROVE  /\ Grows
         /\ \A s \in Spaces : \A g \in Globals :
              mem'[s][g] = IF Store(u) /\ s = Space(u) /\ g = Global(u)
                           THEN mem[s][g] \cup {<<Text(u), step[u]>>} ELSE mem[s][g]
<1>1. CASE Store(u)
  <2>1. /\ pc[u] = "store" /\ Busy(u)
        /\ mem' = [mem EXCEPT ![Space(u)][Global(u)] = reg[u] \cup {<<Text(u), step[u]>>}]
    BY <1>1 DEF Store, Busy
  <2>2. reg[u] = mem[Space(u)][Global(u)]
    BY <2>1 DEF MemInv, RegInv
  <2>3. Space(u) \in Spaces /\ Global(u) \in Globals
    BY <2>1, UnitPlace DEF MemInv
  <2>4. mem \in [Spaces -> [Globals -> SUBSET Updates]] /\ mem' \in [Spaces -> [Globals -> SUBSET Updates]]
    BY UnitType, UnitFrame DEF MemInv, TypeInv, TypeOK
  <2>5. \A s \in Spaces : \A g \in Globals :
          mem'[s][g] = IF s = Space(u) /\ g = Global(u)
                       THEN mem[s][g] \cup {<<Text(u), step[u]>>} ELSE mem[s][g]
    BY <2>1, <2>2, <2>3, <2>4
  <2> QED
    BY <2>5, <1>1 DEF Grows
<1>2. CASE ~Store(u)
  <2>1. mem' = mem
    BY <1>2 DEF Unit, LockShared, NoLock, Load, UnlockShared, ThreadReturns, BlockReturns,
                ChildExits
  <2> QED
    BY <2>1, <1>2 DEF Grows
<1> QED
  BY <1>1, <1>2

LEMMA MainReg == ASSUME MemInv, Main PROVE RegInv'
<1>1. /\ code' = code /\ Units' = Units /\ reg' = reg /\ pc'[0] \in {"body", "done"}
      /\ \A u \in Units : Space(u)' = Space(u)
      /\ \A u \in Units : u # 0 =>
           /\ Body(u)' = Body(u) /\ step'[u] = step[u]
           /\ pc'[u] = pc[u] \/ (u = at /\ pc[u] = "none" /\ pc'[u] = "body")
  BY MainFrame DEF MemInv
<1>2. DOMAIN code \subseteq Units /\ 0 \notin DOMAIN code /\ Spaces = Units
  BY CodeFacts DEF MemInv, TypeInv, TypeOK, Units, Spaces
<1>3. ASSUME NEW u \in Units, pc'[u] = "store"
      PROVE  reg'[u] = mem'[Space(u)'][Global(u)']
  <2>1. u # 0 /\ pc[u] = "store" /\ Global(u)' = Global(u)
    BY <1>1, <1>3 DEF Global
  <2>2. reg[u] = mem[Space(u)][Global(u)]
    BY <2>1 DEF MemInv, RegInv
  <2>3. Space(u) \in Spaces /\ pc[Space(u)] # "none"
    <3>1. pc[0] # "none" /\ 0 \in Units
      BY DEF MemInv, TypeInv, Place, Units
    <3> QED
      BY <2>1, <3>1, <1>2, OwnSpace
  <2>4. mem'[Space(u)] = mem[Space(u)]
    BY <2>3, MainMemory
  <2> QED
    BY <1>1, <2>1, <2>2, <2>4
<1>4. ASSUME NEW k \in DOMAIN code, pc'[k] = "none"
      PROVE  mem'[k] = [g \in Globals |-> {}]
  <2>1. pc[k] = "none"
    BY <1>1, <1>2, <1>4
  <2> QED
    BY <2>1, <1>2, <1>4, MainMemory DEF MemInv, RegInv
<1> QED
  BY <1>1, <1>3, <1>4 DEF RegInv

LEMMA UnitReg ==
  ASSUME MarksComplete(Programs), MemInv, NEW u \in Units, Unit(u)
  PROVE  RegInv'
<1>1. /\ code' = code /\ Units' = Units /\ pc' \in [Units -> Labels]
      /\ \A v \in Units : v # u => pc'[v] = pc[v] /\ step'[v] = step[v]
      /\ pc[u] \in {"body", "load", "store", "unlock"} /\ pc'[u] # "none"
      /\ \A v : Space(v)' = Space(v) /\ Body(v)' = Body(v)
  BY UnitFrame DEF MemInv
<1>2. DOMAIN code \subseteq Units /\ 0 \notin DOMAIN code /\ Spaces = Units
  BY CodeFacts DEF MemInv, TypeInv, TypeOK, Units, Spaces
<1>3. /\ mem \in [Spaces -> [Globals -> SUBSET Updates]]
      /\ mem' \in [Spaces -> [Globals -> SUBSET Updates]]
  BY UnitType, UnitFrame DEF MemInv, TypeInv, TypeOK
<1>4. ASSUME NEW v \in Units, pc'[v] = "store"
      PROVE  reg'[v] = mem'[Space(v)][Global(v)']
  <2>1. CASE v = u
    <3>1. Load(u)
      <4>1. CASE LockShared(u) \/ NoLock(u) \/ Store(u) \/ UnlockShared(u)
                 \/ ThreadReturns(u) \/ BlockReturns(u) \/ ChildExits(u)
        <5>1. \E label \in {"load", "unlock", "body", "done"} : Goto(u, label)
          BY <4>1 DEF LockShared, NoLock, Store, UnlockShared, ThreadReturns, BlockReturns,
                      ChildExits
        <5> QED
          BY <5>1, <2>1, <1>4 DEF Goto, MemInv, TypeInv, TypeOK
      <4> QED
        BY <4>1 DEF Unit
    <3>2. reg' = [reg EXCEPT ![u] = mem[Space(u)][Global(u)]] /\ mem' = mem /\ step' = step
      BY <3>1 DEF Load
    <3>3. Global(u)' = Global(u)
      BY <3>2, <1>1 DEF Global
    <3> QED
      BY <2>1, <3>2, <3>3 DEF MemInv, TypeInv, TypeOK
  <2>2. CASE v # u
    <3>1. pc[v] = "store" /\ Global(v)' = Global(v)
      BY <2>2, <1>1, <1>4 DEF Global
    <3>2. reg[v] = mem[Space(v)][Global(v)] /\ reg'[v] = reg[v]
      <4>1. reg' = reg \/ reg' = [reg EXCEPT ![u] = mem[Space(u)][Global(u)]]
        BY DEF Unit, LockShared, NoLock, Load, Store, UnlockShared, ThreadReturns,
               BlockReturns, ChildExits
      <4> QED
        BY <4>1, <2>2, <3>1 DEF MemInv, RegInv, TypeInv, TypeOK
    <3>3. ~(Store(u) /\ Space(v) = Space(u) /\ Global(v) = Global(u))
      BY <2>2, <3>1, Exclusive DEF Store, Busy, MemInv
    <3>4. Space(v) \in Spaces /\ Global(v) \in Globals
      <4>1. (v = 0 => at \in DOMAIN code) /\ step[v] \in DOMAIN Body(v)
        BY <3>1 DEF MemInv, TypeInv, Place, Busy
      <4> QED
        BY <4>1, UnitGlobal DEF MemInv, Global
    <3> QED
      BY <3>1, <3>2, <3>3, <3>4, UnitMemory
  <2> QED
    BY <2>1, <2>2
<1>5. ASSUME NEW k \in DOMAIN code, pc'[k] = "none"
      PROVE  mem'[k] = [g \in Globals |-> {}]
  <2>1. k # u /\ pc[k] = "none"
    BY <1>1, <1>2, <1>5
  <2>2. mem[k] = [g \in Globals |-> {}] /\ k \in Spaces /\ k # Space(u)
    BY <2>1, <1>2, OwnSpace DEF MemInv, RegInv
  <2>3. \A g \in Globals : mem'[k][g] = mem[k][g]
    BY <2>2, UnitMemory
  <2> QED
    BY <2>2, <2>3, <1>3
<1> QED
  BY <1>1, <1>4, <1>5 DEF RegInv

LEMMA MemInvariant ==
  ASSUME MarksComplete(Programs)
  PROVE  Spec => []MemInv
<1>1. Init => RegInv
  <2> SUFFICES ASSUME Init PROVE RegInv
    OBVIOUS
  <2>1. pc[0] = "body" /\ 0 \in Units /\ \A u \in Units : pc[u] # "store"
    BY DEF Init, Units
  <2>2. \A s \in Spaces : mem[s] = [g \in Globals |-> {}]
    BY DEF Init
  <2> QED
    BY <2>1, <2>2 DEF RegInv, Spaces, Units
<1>2. TypeInv /\ LockInv /\ RegInv /\ [Next]_vars => RegInv'
  <2> SUFFICES ASSUME MemInv, [Next]_vars PROVE RegInv'
    BY DEF MemInv
  <2>1. CASE Main
    BY <2>1, MainReg
  <2>2. ASSUME NEW u \in Units, Unit(u) PROVE RegInv'
    BY <2>2, UnitReg
  <2>3. CASE UNCHANGED vars
    BY <2>3, SameState DEF MemInv, RegInv
  <2> QED
    BY <2>1, <2>2, <2>3 DEF Next
<1>3. TypeInv /\ LockInv /\ RegInv => MemInv
  BY DEF MemInv
<1> QED
  BY <1>1, <1>2, <1>3, TypeInvariant, LockInvariant, PTL DEF Spec

(* No update made in an address space is undone by another one, for every  *)
(* program whose marks are complete (NoLostUpdate).                        *)
THEOREM NoLostUpdateHolds ==
  ASSUME MarksComplete(Programs)
  PROVE  Spec => NoLostUpdate
<1>1. MemInv /\ [Next]_vars => [Grows]_vars
  <2> SUFFICES ASSUME MemInv, Next PROVE Grows
    OBVIOUS
  <2> QED
    BY MainMemory, UnitMemory DEF Next
<1>2. [Grows]_vars => [\A s \in Spaces : \A g \in Globals : mem[s][g] \subseteq mem'[s][g]]_vars
  BY DEF Grows
<1> QED
  BY <1>1, <1>2, MemInvariant, PTL DEF Spec, NoLostUpdate

-----------------------------------------------------------------------------
(* Results *)

(* Where the result of a finished unit is. *)
DoneInv ==
  \A k \in DOMAIN code : pc[k] = "done" =>
    /\ code[k].op = "thread" => result[code[k].var] = k
    /\ code[k].op = "process" => cell[code[k].var] = k

AwaitInv ==
  \A k \in DOMAIN code : WaitedFor(k) =>
    pc[k] = "done" /\ (code[k].op # "run" => result[code[k].var] = k)

ResultInv == TypeInv /\ DoneInv /\ AwaitInv

(* Each variable is declared by one statement. *)
LEMMA OneDeclaration ==
  ASSUME Compiles(code), NEW j \in DOMAIN code, NEW k \in DOMAIN code,
         code[j].op \in {"thread", "process"}, code[k].op \in {"thread", "process"},
         code[j].var = code[k].var
  PROVE  j = k
BY CodeFacts DEF Compiles, Declares

(* Who main has waited for does not change while it stays where it is. *)
LEMMA SameWait ==
  ASSUME code' = code, at' = at, item' = item
  PROVE  \A k : WaitedFor(k)' = WaitedFor(k)
BY DEF WaitedFor, Declares

(* Main waits for no one else by going on to its next statement, from an   *)
(* await at the end of its list, from a thread call or block when joined.  *)
LEMMA WaitGoesOn ==
  ASSUME TypeInv, code' = code, at \in DOMAIN code, at' = at + 1, item' = 1,
         code[at].op = "await" => item > Len(code[at].awaits),
         NEW k \in DOMAIN code, WaitedFor(k)'
  PROVE  WaitedFor(k) \/ (code[k].op = "run" /\ k = at)
<1>1. Len(code) \in Nat /\ DOMAIN code = 1 .. Len(code) /\ at \in 1 .. Len(code) + 1
  BY CodeFacts DEF TypeInv, TypeOK
<1>2. CASE code[k].op = "run" /\ at' > k
  BY <1>1, <1>2 DEF WaitedFor
<1>3. ASSUME NEW j \in DOMAIN code, NEW i \in DOMAIN code[j].awaits, code[j].op = "await",
             Declares(code, k, code[j].awaits[i]), at' > j \/ (at' = j /\ item' > i)
      PROVE  WaitedFor(k)
  <2>1. Len(code[j].awaits) \in Nat /\ DOMAIN code[j].awaits = 1 .. Len(code[j].awaits)
    BY CodeFacts DEF TypeInv, TypeOK
  <2>2. at > j \/ at = j
    BY <1>1, <1>3, <2>1
  <2>3. at = j => item > i
    BY <1>3, <2>1 DEF TypeInv, TypeOK
  <2> QED
    BY <1>3, <2>2, <2>3 DEF WaitedFor
<1> QED
  BY <1>2, <1>3 DEF WaitedFor, Declares

(* Main waits for one more at an await. *)
LEMMA WaitAwaits ==
  ASSUME TypeInv, code' = code, at' = at, item' = item + 1, at \in DOMAIN code,
         code[at].op = "await", item <= Len(code[at].awaits),
         NEW k \in DOMAIN code, WaitedFor(k)'
  PROVE  WaitedFor(k) \/ Declares(code, k, Awaited)
<1>1. CASE code[k].op = "run" /\ at' > k
  BY <1>1 DEF WaitedFor
<1>2. ASSUME NEW j \in DOMAIN code, NEW i \in DOMAIN code[j].awaits, code[j].op = "await",
             Declares(code, k, code[j].awaits[i]), at' > j \/ (at' = j /\ item' > i)
      PROVE  WaitedFor(k) \/ Declares(code, k, Awaited)
  <2>1. DOMAIN code[j].awaits = 1 .. Len(code[j].awaits) /\ Len(code[j].awaits) \in Nat
    BY CodeFacts DEF TypeInv, TypeOK
  <2>2. item \in Nat
    BY DEF TypeInv, TypeOK
  <2>3. at > j \/ (at = j /\ item > i) \/ (at = j /\ item = i)
    BY <1>2, <2>1, <2>2
  <2> QED
    BY <1>2, <2>3 DEF WaitedFor, Awaited
<1> QED
  BY <1>1, <1>2 DEF WaitedFor, Declares

LEMMA MainResult == ASSUME ResultInv, Main PROVE DoneInv' /\ AwaitInv'
<1>1. /\ code' = code /\ Compiles(code) /\ 0 \notin DOMAIN code /\ DOMAIN code \subseteq Units
      /\ \A k \in DOMAIN code : pc'[k] = pc[k] \/ (k = at /\ pc[k] = "none" /\ pc'[k] = "body")
  BY MainFrame, CodeFacts DEF ResultInv, TypeInv, TypeOK, Units
<1>2. /\ result \in [Results -> Units \cup {Garbage}] /\ cell \in [Results -> Units]
      /\ \A k \in DOMAIN code : code[k].op \in {"thread", "process"} => code[k].var \in Results
  BY <1>1, CodeFacts DEF ResultInv, TypeInv, TypeOK
<1>3. \A k \in DOMAIN code : WaitedFor(k) => code[k].op \in {"run", "thread", "process"}
  BY DEF WaitedFor, Declares
<1>4. CASE CreateThread \/ Fork
  <2>1. /\ at \in DOMAIN code /\ code[at].op \in {"thread", "process"} /\ at' = at + 1
        /\ item' = item
        /\ \E v : result' = [result EXCEPT ![code[at].var] = v]
        /\ cell' = cell \/ cell' = [cell EXCEPT ![code[at].var] = 0]
    BY <1>4 DEF CreateThread, Fork, MainAt
  <2>2. pc[at] = "none" /\ item' = 1
    BY <2>1 DEF ResultInv, TypeInv, TypeOK, Place
  <2>3. ASSUME NEW k \in DOMAIN code, k # at, code[k].op \in {"thread", "process"}
        PROVE  result'[code[k].var] = result[code[k].var] /\ cell'[code[k].var] = cell[code[k].var]
    BY <1>1, <1>2, <2>1, <2>3, OneDeclaration
  <2>4. DoneInv'
    <3> SUFFICES ASSUME NEW k \in DOMAIN code, pc'[k] = "done"
                 PROVE  /\ code[k].op = "thread" => result'[code[k].var] = k
                        /\ code[k].op = "process" => cell'[code[k].var] = k
      BY <1>1 DEF DoneInv
    <3>1. pc[k] = "done" /\ k # at
      BY <1>1, <2>2
    <3> QED
      BY <2>3, <3>1 DEF ResultInv, DoneInv
  <2>5. AwaitInv'
    <3> SUFFICES ASSUME NEW k \in DOMAIN code, WaitedFor(k)'
                 PROVE  pc'[k] = "done" /\ (code[k].op # "run" => result'[code[k].var] = k)
      BY <1>1 DEF AwaitInv
    <3>1. WaitedFor(k)
      BY <1>1, <2>1, <2>2, WaitGoesOn DEF ResultInv
    <3>2. pc[k] = "done" /\ (code[k].op # "run" => result[code[k].var] = k)
      BY <3>1 DEF ResultInv, AwaitInv
    <3> QED
      BY <1>1, <1>3, <2>2, <2>3, <3>1, <3>2
  <2> QED
    BY <2>4, <2>5
<1>5. CASE Run \/ ReturnFromMain
  <2>1. UNCHANGED <<at, item, result, cell>> /\ (Run => at \in DOMAIN code /\ code[at].op = "run")
    BY <1>5 DEF Run, ReturnFromMain, MainAt
  <2>2. \A k : WaitedFor(k)' = WaitedFor(k)
    BY <1>1, <2>1, SameWait
  <2> QED
    BY <1>1, <2>1, <2>2 DEF ResultInv, DoneInv, AwaitInv
<1>6. CASE RunJoin \/ EndAwait \/ EndUpdate
  <2>1. /\ at \in DOMAIN code /\ at' = at + 1 /\ UNCHANGED <<pc, result, cell>>
        /\ code[at].op = "run" => pc[at] = "done"
        /\ code[at].op = "await" => item > Len(code[at].awaits)
    BY <1>6 DEF RunJoin, EndAwait, EndUpdate, MainAt
  <2>2. item' = 1
    BY <1>6 DEF RunJoin, EndAwait, EndUpdate, MainAt, ResultInv, TypeInv, TypeOK
  <2>3. \A k \in DOMAIN code : WaitedFor(k)' => WaitedFor(k) \/ (code[k].op = "run" /\ k = at)
    BY <1>1, <2>1, <2>2, WaitGoesOn DEF ResultInv
  <2> QED
    BY <1>1, <2>1, <2>3 DEF ResultInv, DoneInv, AwaitInv
<1>7. CASE AwaitThread \/ AwaitProcess
  <2>1. /\ at \in DOMAIN code /\ code[at].op = "await" /\ item <= Len(code[at].awaits)
        /\ at' = at /\ item' = item + 1 /\ pc' = pc /\ cell' = cell
    BY <1>7 DEF AwaitThread, AwaitProcess, MainAt
  <2>2. PICK j \in DOMAIN code : Declares(code, j, Awaited) /\ pc[j] = "done"
    BY <1>7 DEF AwaitThread, AwaitProcess
  <2>3. Awaited \in Results /\ code[j].var = Awaited /\ code[j].op \in {"thread", "process"}
    BY <1>2, <2>2 DEF Declares
  <2>4. \A k \in DOMAIN code : k # j /\ code[k].op \in {"thread", "process"} =>
          result'[code[k].var] = result[code[k].var]
    <3>1. result' = result \/ result' = [result EXCEPT ![Awaited] = cell[Awaited]]
      BY <1>7 DEF AwaitThread, AwaitProcess
    <3> QED
      BY <1>1, <1>2, <2>3, <3>1, OneDeclaration
  <2>5. result'[code[j].var] = j
    <3>1. CASE AwaitThread
      <4>1. code[j].op = "thread" /\ result' = result
        BY <3>1, <2>3 DEF AwaitThread, ProcessVariable
      <4> QED
        BY <4>1, <2>2 DEF ResultInv, DoneInv
    <3>2. CASE AwaitProcess
      <4>1. PICK i \in DOMAIN code : code[i].op = "process" /\ code[i].var = Awaited
        BY <3>2 DEF AwaitProcess, ProcessVariable
      <4>2. code[j].op = "process"
        BY <1>1, <2>3, <4>1, OneDeclaration
      <4>3. cell[Awaited] = j
        BY <2>2, <2>3, <4>2 DEF ResultInv, DoneInv
      <4> QED
        BY <3>2, <1>2, <2>3, <4>3 DEF AwaitProcess
    <3> QED
      BY <1>7, <3>1, <3>2
  <2>6. DoneInv'
    BY <1>1, <2>1, <2>4, <2>5 DEF ResultInv, DoneInv
  <2>7. AwaitInv'
    <3> SUFFICES ASSUME NEW k \in DOMAIN code, WaitedFor(k)'
                 PROVE  pc'[k] = "done" /\ (code[k].op # "run" => result'[code[k].var] = k)
      BY <1>1 DEF AwaitInv
    <3>1. WaitedFor(k) \/ Declares(code, k, Awaited)
      BY <1>1, <2>1, WaitAwaits DEF ResultInv
    <3>2. CASE k = j
      BY <3>2, <2>1, <2>2, <2>5
    <3>3. CASE k # j
      <4>1. WaitedFor(k)
        BY <3>1, <3>3, <2>3, <1>1, OneDeclaration DEF Declares
      <4> QED
        BY <4>1, <3>3, <1>3, <2>1, <2>4 DEF ResultInv, AwaitInv
    <3> QED
      BY <3>2, <3>3
  <2> QED
    BY <2>6, <2>7
<1> QED
  BY <1>4, <1>5, <1>6, <1>7 DEF Main

LEMMA UnitResult ==
  ASSUME ResultInv, NEW u \in Units, Unit(u)
  PROVE  DoneInv' /\ AwaitInv'
<1>1. /\ code' = code /\ at' = at /\ item' = item /\ pc[u] # "done" /\ pc[u] # "none"
      /\ \A v \in Units : v # u => pc'[v] = pc[v]
  BY UnitFrame DEF ResultInv
<1>2. /\ Compiles(code) /\ DOMAIN code \subseteq Units
      /\ result \in [Results -> Units \cup {Garbage}] /\ cell \in [Results -> Units]
      /\ u \in DOMAIN code \/ u = 0
      /\ \A k \in DOMAIN code : code[k].op \in {"thread", "process"} => code[k].var \in Results
  BY CodeFacts DEF ResultInv, TypeInv, TypeOK, Units
<1>3. \A k : WaitedFor(k)' = WaitedFor(k)
  BY <1>1, SameWait
<1>4. \A k \in DOMAIN code : WaitedFor(k) => code[k].op \in {"run", "thread", "process"}
  BY DEF WaitedFor, Declares
<1>5. ASSUME NEW k \in DOMAIN code, k # u, code[k].op \in {"thread", "process"}
      PROVE  result'[code[k].var] = result[code[k].var] /\ cell'[code[k].var] = cell[code[k].var]
  <2>1. CASE ThreadReturns(u) \/ ChildExits(u)
    <3>1. /\ u \in DOMAIN code /\ code[u].op \in {"thread", "process"}
          /\ result' = result \/ result' = [result EXCEPT ![code[u].var] = u]
          /\ cell' = cell \/ cell' = [cell EXCEPT ![code[u].var] = u]
      BY <2>1, <1>2 DEF ThreadReturns, ChildExits, EndOfBody
    <3> QED
      BY <1>2, <1>5, <3>1, OneDeclaration
  <2>2. CASE ~(ThreadReturns(u) \/ ChildExits(u))
    BY <2>2 DEF Unit, LockShared, NoLock, Load, Store, UnlockShared, BlockReturns
  <2> QED
    BY <2>1, <2>2
<1>6. ASSUME u \in DOMAIN code, pc'[u] = "done"
      PROVE  /\ code[u].op = "thread" => result'[code[u].var] = u
             /\ code[u].op = "process" => cell'[code[u].var] = u
  <2>1. ThreadReturns(u) \/ BlockReturns(u) \/ ChildExits(u)
    <3>1. CASE LockShared(u) \/ NoLock(u) \/ Load(u) \/ Store(u) \/ UnlockShared(u)
      <4>1. \E label \in {"load", "store", "unlock", "body"} : Goto(u, label)
        BY <3>1 DEF LockShared, NoLock, Load, Store, UnlockShared
      <4> QED
        BY <4>1, <1>6 DEF Goto, ResultInv, TypeInv, TypeOK
    <3> QED
      BY <3>1 DEF Unit
  <2>2. CASE ThreadReturns(u)
    BY <2>2, <1>2, <1>6 DEF ThreadReturns
  <2>3. CASE ChildExits(u)
    BY <2>3, <1>2, <1>6 DEF ChildExits
  <2>4. CASE BlockReturns(u)
    BY <2>4 DEF BlockReturns
  <2> QED
    BY <2>1, <2>2, <2>3, <2>4
<1>7. DoneInv'
  BY <1>1, <1>2, <1>5, <1>6 DEF ResultInv, DoneInv
<1>8. AwaitInv'
  <2> SUFFICES ASSUME NEW k \in DOMAIN code, WaitedFor(k)
               PROVE  pc'[k] = "done" /\ (code[k].op # "run" => result'[code[k].var] = k)
    BY <1>1, <1>3 DEF AwaitInv
  <2>1. pc[k] = "done" /\ (code[k].op # "run" => result[code[k].var] = k) /\ k # u
    BY <1>1 DEF ResultInv, AwaitInv
  <2> QED
    BY <2>1, <1>1, <1>2, <1>4, <1>5
<1> QED
  BY <1>7, <1>8

LEMMA ResultInvariant == Spec => []ResultInv
<1>1. Init => DoneInv /\ AwaitInv
  <2> SUFFICES ASSUME Init PROVE DoneInv /\ AwaitInv
    OBVIOUS
  <2>1. TypeInv
    BY InitType
  <2>2. DOMAIN code = 1 .. Len(code) /\ Len(code) \in Nat
    BY <2>1, CodeFacts DEF TypeInv, TypeOK
  <2>3. DoneInv
    BY <2>2 DEF Init, DoneInv, Units
  <2>4. \A j \in DOMAIN code : \A i \in DOMAIN code[j].awaits : ~(1 > i)
    BY <2>1, CodeFacts DEF TypeInv, TypeOK
  <2>5. ASSUME NEW k \in DOMAIN code PROVE ~WaitedFor(k)
    <3>1. at = 1 /\ item = 1
      BY DEF Init
    <3>2. ~(at > k) /\ \A j \in DOMAIN code : ~(at > j)
      BY <2>2, <3>1
    <3> QED
      BY <2>4, <3>1, <3>2 DEF WaitedFor
  <2> QED
    BY <2>3, <2>5 DEF AwaitInv
<1>2. TypeInv /\ DoneInv /\ AwaitInv /\ [Next]_vars => DoneInv' /\ AwaitInv'
  <2> SUFFICES ASSUME ResultInv, [Next]_vars PROVE DoneInv' /\ AwaitInv'
    BY DEF ResultInv
  <2>1. CASE Main
    BY <2>1, MainResult
  <2>2. ASSUME NEW u \in Units, Unit(u) PROVE DoneInv' /\ AwaitInv'
    BY <2>2, UnitResult
  <2>3. CASE UNCHANGED vars
    BY <2>3, SameState, SameWait DEF ResultInv, DoneInv, AwaitInv
  <2> QED
    BY <2>1, <2>2, <2>3 DEF Next
<1>3. TypeInv /\ DoneInv /\ AwaitInv => ResultInv
  BY DEF ResultInv
<1> QED
  BY <1>1, <1>2, <1>3, TypeInvariant, PTL DEF Spec

(* Once main has waited for a thread or a child process, the variable      *)
(* holds the result of that very call (AwaitDelivers), in every program    *)
(* that compiles, whatever its marks.                                      *)
THEOREM AwaitDeliversHolds == Spec => []AwaitDelivers
<1>1. ResultInv => AwaitDelivers
  BY DEF ResultInv, AwaitInv, AwaitDelivers
<1> QED
  BY <1>1, ResultInvariant, PTL

-----------------------------------------------------------------------------
(* Effects *)

(* What a unit has done is in its memory, and it ends when all is done. *)
WrittenInv ==
  \A u \in DOMAIN code :
    /\ \A i \in DOMAIN code[u].body :
         i < step[u] \/ (i = step[u] /\ pc[u] = "unlock")
           => <<u, i>> \in mem[Space(u)][code[u].body[i]]
    /\ pc[u] = "done" => step[u] > Len(code[u].body)

EffectInv == MemInv /\ WrittenInv

(* What was written stays written. *)
LEMMA StaysWritten ==
  ASSUME MemInv, Grows, code' = code, NEW u \in DOMAIN code, NEW i \in DOMAIN code[u].body,
         <<u, i>> \in mem[Space(u)][code[u].body[i]]
  PROVE  <<u, i>> \in mem'[Space(u)'][code[u].body[i]]
<1>1. Space(u) \in Spaces /\ code[u].body[i] \in Globals /\ Space(u)' = Space(u)
  BY CodeFacts, SameCode DEF MemInv, TypeInv, TypeOK, Space, Spaces, Units
<1> QED
  BY <1>1 DEF Grows

LEMMA MainEffect == ASSUME EffectInv, Main PROVE WrittenInv'
<1>1. /\ code' = code /\ 0 \notin DOMAIN code /\ DOMAIN code \subseteq Units
      /\ \A u \in DOMAIN code :
           /\ step'[u] = step[u]
           /\ pc'[u] = pc[u] \/ (pc[u] = "none" /\ pc'[u] = "body")
  BY MainFrame, CodeFacts DEF EffectInv, MemInv, TypeInv, TypeOK, Units
<1>2. /\ Grows
      /\ \A s \in Spaces : mem'[s] = mem[s] \/ (s \in DOMAIN code /\ mem'[s] = mem[0])
  BY MainMemory DEF EffectInv
<1>3. WrittenInv'
  <2> SUFFICES ASSUME NEW u \in DOMAIN code
               PROVE  /\ \A i \in DOMAIN code[u].body :
                           i < step[u] \/ (i = step[u] /\ pc'[u] = "unlock")
                             => <<u, i>> \in mem'[Space(u)'][code[u].body[i]]
                      /\ pc'[u] = "done" => step[u] > Len(code[u].body)
    BY <1>1 DEF WrittenInv
  <2>1. pc'[u] \in {"unlock", "done"} => pc[u] = pc'[u]
    BY <1>1
  <2> QED
    BY <2>1, <1>1, <1>2, StaysWritten DEF EffectInv, WrittenInv
<1> QED
  BY <1>3

LEMMA UnitEffect ==
  ASSUME EffectInv, NEW u \in Units, Unit(u)
  PROVE  WrittenInv'
<1>1. /\ code' = code /\ at' = at /\ pc \in [Units -> Labels] /\ step \in [Units -> Nat \ {0}]
      /\ \A v \in Units : v # u => pc'[v] = pc[v] /\ step'[v] = step[v]
      /\ u = 0 => at \in DOMAIN code /\ code[at].op = "update"
  BY UnitFrame DEF EffectInv, MemInv, TypeInv, TypeOK, Labels
<1>2. /\ Grows
      /\ \A s \in Spaces : \A g \in Globals :
           mem'[s][g] = IF Store(u) /\ s = Space(u) /\ g = Global(u)
                        THEN mem[s][g] \cup {<<Text(u), step[u]>>} ELSE mem[s][g]
  BY UnitMemory DEF EffectInv
<1>3. DOMAIN code \subseteq Units /\ 0 \notin DOMAIN code /\ Spaces = Units
  BY CodeFacts DEF EffectInv, MemInv, TypeInv, TypeOK, Units, Spaces
<1>4. Busy(u) => Space(u) \in Spaces /\ step[u] \in DOMAIN Body(u) /\ Global(u) \in Globals
  BY UnitPlace DEF EffectInv, MemInv
<1>5. ASSUME u \in DOMAIN code, NEW i \in DOMAIN code[u].body,
             i < step'[u] \/ (i = step'[u] /\ pc'[u] = "unlock")
      PROVE  <<u, i>> \in mem'[Space(u)'][code[u].body[i]]
  <2>1. Text(u) = u /\ Body(u) = code[u].body /\ Space(u)' = Space(u) /\ u # 0
    BY <1>1, <1>3, <1>5, SameCode DEF Text, Body
  <2>2. i \in Nat
    BY CodeFacts, <1>5 DEF EffectInv, MemInv, TypeInv, TypeOK
  <2>3. CASE Store(u)
    <3>1. pc[u] = "store" /\ step' = step /\ Busy(u)
      BY <2>3 DEF Store, Busy
    <3>2. CASE i = step[u]
      BY <3>1, <3>2, <2>1, <2>3, <1>2, <1>4 DEF Global
    <3>3. CASE i < step[u]
      BY <3>3, <1>1, <1>2, <1>5, StaysWritten DEF EffectInv, WrittenInv
    <3> QED
      BY <3>1, <3>2, <3>3, <1>5
  <2>4. CASE UnlockShared(u)
    <3>1. pc[u] = "unlock" /\ step'[u] = step[u] + 1 /\ pc'[u] = "body"
      BY <2>4, <1>1 DEF UnlockShared, Goto
    <3>2. i < step[u] \/ i = step[u]
      BY <3>1, <2>2, <1>1, <1>5
    <3> QED
      BY <3>1, <3>2, <1>1, <1>2, <1>5, StaysWritten DEF EffectInv, WrittenInv
  <2>5. CASE ~Store(u) /\ ~UnlockShared(u)
    <3>1. step' = step /\ \E label \in {"load", "store", "done"} : Goto(u, label)
      BY <2>5 DEF Unit, LockShared, NoLock, Load, ThreadReturns, BlockReturns, ChildExits
    <3>2. pc'[u] # "unlock"
      BY <3>1, <1>1 DEF Goto
    <3> QED
      BY <3>1, <3>2, <1>1, <1>2, <1>5, StaysWritten DEF EffectInv, WrittenInv
  <2> QED
    BY <2>3, <2>4, <2>5
<1>6. ASSUME u \in DOMAIN code, pc'[u] = "done"
      PROVE  step'[u] > Len(code[u].body)
  <2>1. CASE LockShared(u) \/ NoLock(u) \/ Load(u) \/ Store(u) \/ UnlockShared(u)
    <3>1. \E label \in {"load", "store", "unlock", "body"} : Goto(u, label)
      BY <2>1 DEF LockShared, NoLock, Load, Store, UnlockShared
    <3> QED
      BY <3>1, <1>1, <1>6 DEF Goto
  <2>2. CASE ThreadReturns(u) \/ BlockReturns(u) \/ ChildExits(u)
    BY <2>2, <1>3, <1>6 DEF ThreadReturns, BlockReturns, ChildExits, EndOfBody, Body, Text
  <2> QED
    BY <2>1, <2>2 DEF Unit
<1>7. WrittenInv'
  <2> SUFFICES ASSUME NEW v \in DOMAIN code
               PROVE  /\ \A i \in DOMAIN code[v].body :
                           i < step'[v] \/ (i = step'[v] /\ pc'[v] = "unlock")
                             => <<v, i>> \in mem'[Space(v)'][code[v].body[i]]
                      /\ pc'[v] = "done" => step'[v] > Len(code[v].body)
    BY <1>1 DEF WrittenInv
  <2>1. CASE v = u
    BY <2>1, <1>5, <1>6
  <2>2. CASE v # u
    <3>1. pc'[v] = pc[v] /\ step'[v] = step[v]
      BY <2>2, <1>1, <1>3
    <3> QED
      BY <3>1, <1>1, <1>2, StaysWritten DEF EffectInv, WrittenInv
  <2> QED
    BY <2>1, <2>2
<1> QED
  BY <1>7

LEMMA EffectInvariant ==
  ASSUME MarksComplete(Programs)
  PROVE  Spec => []EffectInv
<1>1. Init => WrittenInv
  <2> SUFFICES ASSUME Init PROVE WrittenInv
    OBVIOUS
  <2>1. /\ DOMAIN code = 1 .. Len(code) /\ Len(code) \in Nat
        /\ \A k \in DOMAIN code : \A i \in DOMAIN code[k].body : ~(i < 1)
    BY InitType, CodeFacts DEF TypeInv, TypeOK
  <2>2. /\ 0 \in Spaces /\ DOMAIN code \subseteq Spaces
        /\ \A k \in DOMAIN code : step[k] = 1 /\ pc[k] = "none"
    BY <2>1 DEF Init, Units, Spaces
  <2>3. \A s \in Spaces : \A g \in Globals : mem[s][g] = {}
    BY DEF Init
  <2> QED
    BY <2>1, <2>2, <2>3 DEF WrittenInv
<1>2. MemInv /\ WrittenInv /\ [Next]_vars => WrittenInv'
  <2> SUFFICES ASSUME EffectInv, [Next]_vars PROVE WrittenInv'
    BY DEF EffectInv
  <2>1. CASE Main
    BY <2>1, MainEffect
  <2>2. ASSUME NEW u \in Units, Unit(u) PROVE WrittenInv'
    BY <2>2, UnitEffect
  <2>3. CASE UNCHANGED vars
    BY <2>3, SameState DEF EffectInv, WrittenInv
  <2> QED
    BY <2>1, <2>2, <2>3 DEF Next
<1>3. MemInv /\ WrittenInv => EffectInv
  BY DEF EffectInv
<1> QED
  BY <1>1, <1>2, <1>3, MemInvariant, PTL DEF Spec

(* Once main has waited for a thread or a child process, everything it     *)
(* did is in its memory, for every program whose marks are complete        *)
(* (EffectsVisible).                                                       *)
THEOREM EffectsVisibleHolds ==
  ASSUME MarksComplete(Programs)
  PROVE  Spec => []EffectsVisible
<1>1. ResultInv /\ EffectInv => EffectsVisible
  <2> SUFFICES ASSUME ResultInv, EffectInv, NEW k \in DOMAIN code, WaitedFor(k),
                      NEW i \in DOMAIN code[k].body
               PROVE  <<k, i>> \in mem[Space(k)][code[k].body[i]]
    BY DEF EffectsVisible
  <2>1. pc[k] = "done"
    BY DEF ResultInv, AwaitInv
  <2>2. step[k] > Len(code[k].body)
    BY <2>1 DEF EffectInv, WrittenInv
  <2>3. step[k] \in Nat /\ Len(code[k].body) \in Nat /\ i \in 1 .. Len(code[k].body)
    BY CodeFacts DEF ResultInv, TypeInv, TypeOK, Units
  <2>4. i < step[k]
    BY <2>2, <2>3
  <2> QED
    BY <2>4 DEF EffectInv, WrittenInv
<1> QED
  BY <1>1, ResultInvariant, EffectInvariant, PTL

(* A child process changes no variable of its parent, and nobody else      *)
(* changes one of the child's after the fork, for every program whose      *)
(* marks are complete (Isolation).                                         *)
THEOREM IsolationHolds ==
  ASSUME MarksComplete(Programs)
  PROVE  Spec => Isolation
<1>1. MemInv /\ [Next]_vars => [Isolated]_vars
  <2> SUFFICES ASSUME MemInv, Next,
                      NEW k \in DOMAIN code, code[k].op = "process", NEW g \in Globals
               PROVE  /\ \A w \in mem'[0][g] \ mem[0][g] : w[1] # k
                      /\ pc[k] = "none" => mem'[k][g] \in {mem[k][g], mem[0][g]}
                      /\ pc[k] # "none" => \A w \in mem'[k][g] \ mem[k][g] : w[1] = k
    BY DEF Isolated
  <2>1. /\ DOMAIN code \subseteq Units /\ 0 \notin DOMAIN code /\ Spaces = Units
        /\ 0 \in Spaces /\ k \in Spaces /\ k # 0
    BY CodeFacts DEF MemInv, TypeInv, TypeOK, Units, Spaces
  <2>2. CASE Main
    BY <2>1, <2>2, MainMemory
  <2>3. ASSUME NEW u \in Units, Unit(u)
        PROVE  /\ \A w \in mem'[0][g] \ mem[0][g] : w[1] # k
               /\ pc[k] = "none" => mem'[k][g] \in {mem[k][g], mem[0][g]}
               /\ pc[k] # "none" => \A w \in mem'[k][g] \ mem[k][g] : w[1] = k
    <3>1. Space(u) = 0 => Text(u) # k
      <4>1. u = 0 => at \in DOMAIN code /\ code[at].op = "update"
        BY <2>3, UnitFrame DEF MemInv
      <4> QED
        BY <4>1, <2>1 DEF Space, Text
    <3>2. Space(u) = k => Text(u) = k /\ u = k
      BY <2>1, OwnSpace DEF Text
    <3>3. /\ \A w \in mem'[0][g] : w \in mem[0][g] \/ (Space(u) = 0 /\ w = <<Text(u), step[u]>>)
          /\ \A w \in mem'[k][g] : w \in mem[k][g] \/ (Space(u) = k /\ w = <<Text(u), step[u]>>)
          /\ Space(u) # k => mem'[k][g] = mem[k][g]
      <4>1. \A s \in Spaces : \A h \in Globals :
              \/ mem'[s][h] = mem[s][h]
              \/ s = Space(u) /\ mem'[s][h] = mem[s][h] \cup {<<Text(u), step[u]>>}
        <5>1. \A s \in Spaces : \A h \in Globals :
                mem'[s][h] = IF Store(u) /\ s = Space(u) /\ h = Global(u)
                             THEN mem[s][h] \cup {<<Text(u), step[u]>>} ELSE mem[s][h]
          BY <2>3, UnitMemory
        <5> QED
          BY <5>1
      <4>2. \A s \in Spaces :
              /\ \A w \in mem'[s][g] : w \in mem[s][g] \/ (Space(u) = s /\ w = <<Text(u), step[u]>>)
              /\ Space(u) # s => mem'[s][g] = mem[s][g]
        BY <4>1
      <4> QED
        BY <4>2, <2>1
    <3>4. pc[u] # "none"
      BY <2>3, UnitFrame DEF MemInv
    <3>5. \A w \in mem'[0][g] \ mem[0][g] : w[1] # k
      BY <3>1, <3>3
    <3>6. Space(u) = k => pc[k] # "none"
      BY <3>2, <3>4
    <3>7. \A w \in mem'[k][g] \ mem[k][g] : w[1] = k
      BY <3>2, <3>3
    <3>8. pc[k] = "none" => mem'[k][g] = mem[k][g]
      BY <3>3, <3>6
    <3> QED
      BY <3>5, <3>7, <3>8
  <2> QED
    BY <2>2, <2>3 DEF Next
<1> QED
  BY <1>1, MemInvariant, PTL DEF Spec, Isolation
===============================================================================

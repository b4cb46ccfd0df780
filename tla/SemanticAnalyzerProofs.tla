------------------------ MODULE SemanticAnalyzerProofs ------------------------
(***************************************************************************)
(* Proofs about SemanticAnalyzer, for every set of well-formed trees and   *)
(* every value of the limits.                                              *)
(*                                                                         *)
(* IInv is inductive: the parts of TypeOK under names of their own, the    *)
(* tree being one of Programs, and EntryInv, which relates the bounded     *)
(* list of thread ids of a variable to its is_shared and to the contexts   *)
(* that have really touched it.                                            *)
(***************************************************************************)
EXTENDS SemanticAnalyzer, SequenceTheorems, FiniteSetTheorems, TLAPS

WorkOK      == work \in Seq(Item)
TypeStackOK == types \in Seq(Types)
ContextOK   == curThread \in Nat /\ nextThread \in Nat /\ curLoop \in {0} \cup DOMAIN ast
FunctionsOK == functions \in Seq(DOMAIN ast) /\ Len(functions) <= MaxFunctions

TreeOK ==
  /\ isShared \in [DOMAIN ast -> {"unset", "private", "shared"}]
  /\ identType \in [DOMAIN ast -> {"unset"} \cup Types]
  /\ captured \in [DOMAIN ast -> Seq(Params)]
  /\ bound \in [DOMAIN ast -> Nat \cup {-1}]

(* The list holds distinct contexts that touched the variable, all of them *)
(* while it has room, and the variable is shared once it holds two.        *)
EntryInv(e) ==
  /\ \A i \in DOMAIN e.threads : e.threads[i] \in e.users
  /\ \A i, j \in DOMAIN e.threads : e.threads[i] = e.threads[j] => i = j
  /\ Len(e.threads) < MaxThreadIds =>
       \A u \in e.users : \E i \in DOMAIN e.threads : e.threads[i] = u
  /\ e.shared <=> Len(e.threads) >= 2

ScopeInv(s) == \A x \in Names : EntryInv(s[x])

ScopesOK ==
  /\ scopes \in Seq(Scope) /\ Len(scopes) <= MaxScope
  /\ \A l \in DOMAIN scopes : ScopeInv(scopes[l])

IInv ==
  /\ ast \in Programs
  /\ status \in {"running", "ok", "error", "overflow"}
  /\ WorkOK /\ TypeStackOK /\ ScopesOK /\ ContextOK /\ FunctionsOK /\ TreeOK

-----------------------------------------------------------------------------
(* The tree *)

LEMMA NodeFacts ==
  ASSUME ast \in Programs, NEW n \in DOMAIN ast
  PROVE  /\ ast[n].kids \in Seq(DOMAIN ast)
         /\ ast[n].params \in Seq(Params)
         /\ ast[n].kind \in {"decl", "update", "ident"} => ast[n].name \in Names
         /\ ast[n].kind = "decl" => ast[n].type \in Types /\ Len(ast[n].kids) = 1
         /\ ast[n].kind = "update" /\ ast[n].kids # <<>> => Len(ast[n].kids) = 1
         /\ ast[n].kind = "for" => Len(ast[n].kids) = 4
         /\ ast[n].kind = "if" => Len(ast[n].kids) >= 2
<1>1. WellFormed(ast)
  BY ProgramsAssumption
<1>2. ast \in Seq(Node) /\ ast[n] \in Node /\ Shape(ast, n)
  BY <1>1 DEF WellFormed
<1>3. /\ ast[n].kids \in Seq(Nat) /\ ast[n].params \in Seq(Params)
      /\ \A i \in DOMAIN ast[n].kids : ast[n].kids[i] \in DOMAIN ast
  BY <1>1, <1>2 DEF WellFormed, Node
<1>4. ast[n].kids \in Seq(DOMAIN ast)
  BY <1>3, SeqDef
<1>5. ast[n].kind \in {"decl", "update", "ident"} => ast[n].name \in Names
  BY <1>2 DEF Shape
<1>6. ast[n].kind = "decl" => ast[n].type \in Types /\ Len(ast[n].kids) = 1
  BY <1>2 DEF Shape
<1>7. ast[n].kind = "update" /\ ast[n].kids # <<>> => Len(ast[n].kids) = 1
  <2>1. ast[n].kind = "update" => Len(ast[n].kids) \in {0, 1}
    BY <1>2 DEF Shape
  <2> QED
    BY <2>1, <1>3
<1>8. ast[n].kind = "for" => Len(ast[n].kids) = 4
  BY <1>2 DEF Shape
<1>9. ast[n].kind = "if" => Len(ast[n].kids) >= 2
  BY <1>2 DEF Shape
<1> QED
  BY <1>3, <1>4, <1>5, <1>6, <1>7, <1>8, <1>9

LEMMA DoType ==
  ASSUME NEW op \in Ops, NEW n \in DOMAIN ast
  PROVE  Do(op, n) \in Item /\ <<Do(op, n)>> \in Seq(Item)
BY DEF Do, Item

LEMMA EachType ==
  ASSUME NEW op \in Ops, NEW kids \in Seq(DOMAIN ast)
  PROVE  Each(op, kids) \in Seq(Item)
<1>1. Len(kids) \in Nat /\ DOMAIN kids = 1 .. Len(kids)
  OBVIOUS
<1>2. \A i \in DOMAIN kids : Do(op, kids[i]) \in Item
  BY DoType
<1>3. Each(op, kids) \in [1 .. Len(kids) -> Item]
  BY <1>1, <1>2 DEF Each
<1> QED
  BY <1>1, <1>3, SeqDef

LEMMA RestoreType ==
  ASSUME ContextOK, NEW op \in Ops, NEW n \in DOMAIN ast
  PROVE  <<Restore(op, n)>> \in Seq(Item)
BY DEF ContextOK, Restore, Item

(* Whatever the items that replace the head, the stack stays one of items. *)
LEMMA ContinueType ==
  ASSUME WorkOK, work # <<>>, ast' = ast, NEW items \in Seq(Item), Continue(items)
  PROVE  WorkOK'
<1>1. Tail(work) \in Seq(Item)
  BY DEF WorkOK
<1>2. items \o Tail(work) \in Seq(Item)
  BY <1>1, ConcatProperties
<1>3. Item' = Item
  BY DEF Item
<1> QED
  BY <1>2, <1>3 DEF WorkOK, Continue

-----------------------------------------------------------------------------
(* Variables *)

LEMMA NewEntryInv ==
  ASSUME NEW type \in Types, NEW decl \in Nat
  PROVE  /\ NewEntry(type, decl) \in Entry
         /\ EntryInv(NewEntry(type, decl)) /\ EntryInv(NoEntry)
<1> DEFINE e == NewEntry(type, decl)
           AnyEntry == [type : Types \cup {"-"}, threads : Seq(Nat), shared : BOOLEAN,
                        decl : Nat, users : SUBSET Nat]
<1>1. Len(<<>>) = 0 /\ DOMAIN <<>> = {} /\ <<>> \in Seq(Nat)
  OBVIOUS
<1>2. NoEntry.threads = <<>> /\ NoEntry.users = {} /\ NoEntry.shared = FALSE
  BY DEF NoEntry
<1>3. e.threads = <<>> /\ e.users = {} /\ e.shared = FALSE
  BY DEF NewEntry, NoEntry
<1>4. ASSUME NEW f, f.threads = <<>>, f.users = {}, f.shared = FALSE
      PROVE  EntryInv(f)
  BY <1>1, <1>4 DEF EntryInv
<1>5. e \in Entry
  <2>1. NoEntry \in AnyEntry
    BY <1>1 DEF NoEntry
  <2>2. e \in AnyEntry /\ e.type = type
    BY <2>1 DEF NewEntry, NoEntry
  <2> QED
    BY <2>2 DEF Entry
<1> HIDE DEF e
<1> QED
  BY <1>2, <1>3, <1>4, <1>5 DEF e

(* The fields of an entry after register_variable_usage. *)
LEMMA TouchFields ==
  ASSUME NEW e \in Entry, ContextOK
  PROVE  /\ Touch(e) \in Entry
         /\ Touch(e).type = e.type /\ Touch(e).decl = e.decl
         /\ Touch(e).users = e.users \cup {curThread}
         /\ Touch(e).threads = IF ~Recorded(e) /\ Len(e.threads) < MaxThreadIds
                               THEN Append(e.threads, curThread) ELSE e.threads
         /\ Touch(e).shared <=>
              (e.shared \/ (~Recorded(e) /\ Len(Touch(e).threads) >= 2))
<1> DEFINE t == IF ~Recorded(e) /\ Len(e.threads) < MaxThreadIds
                THEN Append(e.threads, curThread) ELSE e.threads
<1>1. /\ e.threads \in Seq(Nat) /\ e.shared \in BOOLEAN /\ e.users \in SUBSET Nat
      /\ e.type \in Types /\ e.decl \in Nat
  BY DEF Entry
<1>2. curThread \in Nat
  BY DEF ContextOK
<1>3. t \in Seq(Nat)
  BY <1>1, <1>2
<1>4. Touch(e) = [e EXCEPT !.threads = t,
                          !.shared = @ \/ (~Recorded(e) /\ Len(t) >= 2),
                          !.users = @ \cup {curThread}]
  BY DEF Touch
<1> HIDE DEF t
<1>5. /\ Touch(e).type = e.type /\ Touch(e).decl = e.decl
      /\ Touch(e).users = e.users \cup {curThread}
      /\ Touch(e).threads = t
      /\ Touch(e).shared <=> (e.shared \/ (~Recorded(e) /\ Len(t) >= 2))
  BY <1>4 DEF Entry
<1>6. Touch(e) \in Entry
  <2>1. Touch(e) = [type |-> e.type, threads |-> t,
                    shared |-> e.shared \/ (~Recorded(e) /\ Len(t) >= 2),
                    decl |-> e.decl, users |-> e.users \cup {curThread}]
    BY <1>1, <1>4 DEF Entry
  <2>2. e.users \cup {curThread} \in SUBSET Nat
    BY <1>1, <1>2
  <2>3. (e.shared \/ (~Recorded(e) /\ Len(t) >= 2)) \in BOOLEAN
    OBVIOUS
  <2> QED
    BY <1>1, <1>3, <2>1, <2>2, <2>3 DEF Entry
<1> QED
  BY <1>5, <1>6 DEF t

LEMMA TouchInv ==
  ASSUME NEW e \in Entry, ContextOK, EntryInv(e)
  PROVE  EntryInv(Touch(e))
<1> DEFINE n == Touch(e)
<1>1. /\ n.users = e.users \cup {curThread}
      /\ n.threads = IF ~Recorded(e) /\ Len(e.threads) < MaxThreadIds
                     THEN Append(e.threads, curThread) ELSE e.threads
      /\ n.shared <=> (e.shared \/ (~Recorded(e) /\ Len(n.threads) >= 2))
  BY TouchFields
<1>2. e.threads \in Seq(Nat) /\ e.shared \in BOOLEAN /\ curThread \in Nat
  BY DEF Entry, ContextOK
<1>3. MaxThreadIds \in Nat \ {0, 1}
  BY LimitsAssumption
<1> HIDE DEF n
<1>4. CASE Recorded(e)
  <2>1. n.threads = e.threads /\ (n.shared <=> e.shared)
    BY <1>1, <1>2, <1>4
  <2> QED
    BY <1>1, <1>4, <2>1 DEF EntryInv, Recorded, n
<1>5. CASE ~Recorded(e) /\ Len(e.threads) < MaxThreadIds
  <2>1. n.threads = Append(e.threads, curThread)
    BY <1>1, <1>5
  <2>2. /\ Len(n.threads) = Len(e.threads) + 1
        /\ DOMAIN n.threads = 1 .. Len(e.threads) + 1
        /\ n.threads[Len(e.threads) + 1] = curThread
        /\ \A i \in DOMAIN e.threads : i \in DOMAIN n.threads /\ n.threads[i] = e.threads[i]
        /\ \A i \in DOMAIN n.threads : i \in DOMAIN e.threads \/ i = Len(e.threads) + 1
    BY <1>2, <2>1
  <2>3. \A i \in DOMAIN n.threads : n.threads[i] \in n.users
    BY <1>1, <2>2 DEF EntryInv
  <2>4. \A i, j \in DOMAIN n.threads : n.threads[i] = n.threads[j] => i = j
    BY <1>5, <2>2 DEF EntryInv, Recorded
  <2>5. \A u \in n.users : \E i \in DOMAIN n.threads : n.threads[i] = u
    <3>1. Len(e.threads) + 1 \in DOMAIN n.threads
      BY <1>2, <2>2
    <3>2. \A u \in e.users : \E i \in DOMAIN e.threads : e.threads[i] = u
      BY <1>5 DEF EntryInv
    <3> QED
      BY <1>1, <2>2, <3>1, <3>2
  <2>6. n.shared <=> Len(n.threads) >= 2
    <3>1. e.shared => Len(n.threads) >= 2
      BY <1>2, <2>2 DEF EntryInv
    <3> QED
      BY <1>1, <1>5, <3>1
  <2> QED
    BY <2>3, <2>4, <2>5, <2>6 DEF EntryInv, n
<1>6. CASE ~Recorded(e) /\ ~(Len(e.threads) < MaxThreadIds)
  <2>1. n.threads = e.threads
    BY <1>1, <1>6
  <2>2. Len(e.threads) >= 2 /\ n.shared
    <3>1. Len(e.threads) \in Nat /\ Len(e.threads) >= 2
      BY <1>2, <1>3, <1>6
    <3>2. Len(n.threads) >= 2
      BY <2>1, <3>1
    <3> QED
      BY <1>1, <1>6, <3>1, <3>2
  <2> QED
    BY <1>1, <1>6, <2>1, <2>2 DEF EntryInv, n
<1> QED
  BY <1>4, <1>5, <1>6

(* What the list says of the contexts that touched the variable. *)
LEMMA EntryShared ==
  ASSUME NEW e \in Entry \cup {NoEntry}, EntryInv(e)
  PROVE  e.shared <=> \E a, b \in e.users : a # b
<1>1. e.threads \in Seq(Nat)
  <2>1. <<>> \in Seq(Nat)
    OBVIOUS
  <2>2. NoEntry.threads = <<>>
    BY DEF NoEntry
  <2>3. \A x \in Entry : x.threads \in Seq(Nat)
    BY DEF Entry
  <2> QED
    BY <2>1, <2>2, <2>3
<1>2. MaxThreadIds \in Nat /\ MaxThreadIds >= 2
  BY LimitsAssumption
<1>3. ASSUME e.shared PROVE \E a, b \in e.users : a # b
  <2>1. 1 \in DOMAIN e.threads /\ 2 \in DOMAIN e.threads
    BY <1>1, <1>3 DEF EntryInv
  <2>2. e.threads[1] # e.threads[2]
    BY <2>1 DEF EntryInv
  <2> QED
    BY <2>1, <2>2 DEF EntryInv
<1>4. ASSUME NEW a \in e.users, NEW b \in e.users, a # b PROVE e.shared
  <2>1. CASE Len(e.threads) < MaxThreadIds
    <3>1. PICK i \in DOMAIN e.threads, j \in DOMAIN e.threads :
            e.threads[i] = a /\ e.threads[j] = b
      BY <2>1 DEF EntryInv
    <3>2. i # j /\ i \in 1 .. Len(e.threads) /\ j \in 1 .. Len(e.threads)
      BY <1>1, <1>4, <3>1
    <3>3. Len(e.threads) >= 2
      BY <1>1, <3>2
    <3> QED
      BY <3>3 DEF EntryInv
  <2>2. CASE ~(Len(e.threads) < MaxThreadIds)
    BY <1>1, <1>2, <2>2 DEF EntryInv
  <2> QED
    BY <2>1, <2>2
<1> QED
  BY <1>3, <1>4

-----------------------------------------------------------------------------
(* Scopes *)

(* A scope is pushed. *)
LEMMA PushScope ==
  ASSUME ScopesOK, Len(scopes) < MaxScope, NEW s \in Scope, ScopeInv(s),
         scopes' = Append(scopes, s)
  PROVE  ScopesOK'
<1>1. /\ scopes \in Seq(Scope) /\ Len(scopes) \in Nat
      /\ \A l \in DOMAIN scopes : ScopeInv(scopes[l])
  BY DEF ScopesOK
<1>2. /\ scopes' \in Seq(Scope) /\ Len(scopes') = Len(scopes) + 1
      /\ \A l \in DOMAIN scopes' : scopes'[l] = s \/ (l \in DOMAIN scopes /\ scopes'[l] = scopes[l])
  BY <1>1
<1>3. Len(scopes') <= MaxScope
  BY <1>1, <1>2, LimitsAssumption
<1>4. \A l \in DOMAIN scopes' : ScopeInv(scopes'[l])
  BY <1>1, <1>2
<1> QED
  BY <1>2, <1>3, <1>4 DEF ScopesOK, ScopeInv, EntryInv, Scope

(* The innermost scope is popped. *)
LEMMA PopScope ==
  ASSUME ScopesOK, scopes' = SubSeq(scopes, 1, Len(scopes) - 1)
  PROVE  ScopesOK'
<1>1. /\ scopes \in Seq(Scope) /\ Len(scopes) \in Nat /\ Len(scopes) <= MaxScope
      /\ DOMAIN scopes = 1 .. Len(scopes)
      /\ \A l \in DOMAIN scopes : ScopeInv(scopes[l])
  BY DEF ScopesOK
<1>2. \A i \in 1 .. Len(scopes) - 1 : scopes[i] \in Scope
  BY <1>1
<1>3. /\ scopes' \in Seq(Scope)
      /\ Len(scopes') = IF 1 <= Len(scopes) - 1 THEN Len(scopes) - 1 ELSE 0
      /\ \A l \in 1 .. Len(scopes) - 1 : scopes'[l] = scopes[l]
  BY <1>1, <1>2, SubSeqProperties
<1>4. Len(scopes') <= MaxScope
  BY <1>1, <1>3, LimitsAssumption
<1>5. DOMAIN scopes' = 1 .. Len(scopes')
  BY <1>3
<1>6. \A l \in DOMAIN scopes' : l \in DOMAIN scopes /\ scopes'[l] = scopes[l]
  BY <1>1, <1>3, <1>5
<1>7. \A l \in DOMAIN scopes' : ScopeInv(scopes'[l])
  BY <1>1, <1>6
<1> QED
  BY <1>3, <1>4, <1>7 DEF ScopesOK, ScopeInv, EntryInv, Scope

(* One entry is replaced. *)
LEMMA BindScope ==
  ASSUME ScopesOK, NEW l \in DOMAIN scopes, NEW x \in Names,
         NEW e \in Entry, EntryInv(e),
         scopes' = [scopes EXCEPT ![l][x] = e]
  PROVE  ScopesOK'
<1>1. /\ scopes \in Seq(Scope) /\ Len(scopes) \in Nat /\ Len(scopes) <= MaxScope
      /\ DOMAIN scopes = 1 .. Len(scopes)
      /\ \A m \in DOMAIN scopes : ScopeInv(scopes[m]) /\ scopes[m] \in Scope
  BY DEF ScopesOK
<1> DEFINE s == [scopes[l] EXCEPT ![x] = e]
<1>2. s \in Scope
  BY <1>1 DEF Scope
<1>3. ScopeInv(s)
  BY <1>1 DEF Scope, ScopeInv
<1>4. scopes' = [scopes EXCEPT ![l] = s]
  OBVIOUS
<1> HIDE DEF s
<1>5. /\ scopes' \in Seq(Scope) /\ Len(scopes') = Len(scopes)
      /\ DOMAIN scopes' = DOMAIN scopes
      /\ \A m \in DOMAIN scopes : scopes'[m] = IF m = l THEN s ELSE scopes[m]
  <2>1. scopes \in [1 .. Len(scopes) -> Scope]
    BY <1>1
  <2>2. /\ scopes' \in [1 .. Len(scopes) -> Scope]
        /\ \A m \in DOMAIN scopes : scopes'[m] = IF m = l THEN s ELSE scopes[m]
    BY <1>2, <1>4, <2>1
  <2>3. scopes' \in Seq(Scope) /\ DOMAIN scopes' = 1 .. Len(scopes)
    BY <1>1, <2>2, SeqDef
  <2>4. Len(scopes') = Len(scopes)
    BY <1>1, <2>3, LenProperties
  <2> QED
    BY <1>1, <2>2, <2>3, <2>4
<1>6. \A m \in DOMAIN scopes' : ScopeInv(scopes'[m])
  BY <1>1, <1>3, <1>5
<1> QED
  BY <1>1, <1>5, <1>6 DEF ScopesOK, ScopeInv, EntryInv, Scope

LEMMA EmptyScopeOK == EmptyScope \in Scope /\ ScopeInv(EmptyScope)
<1>1. EntryInv(NoEntry)
  BY NewEntryInv DEF Types
<1> QED
  BY <1>1 DEF EmptyScope, Scope, ScopeInv

LEMMA ParamScopeOK ==
  ASSUME ast \in Programs, NEW f \in DOMAIN ast
  PROVE  ParamScope(f) \in Scope /\ ScopeInv(ParamScope(f))
<1> DEFINE ps       == ast[f].params
           Named(x) == {i \in DOMAIN ps : ps[i].name = x}
           param(x) == ps[CHOOSE i \in Named(x) : TRUE]
<1>1. ps \in Seq(Params)
  BY NodeFacts
<1>2. \A i \in DOMAIN ps : ps[i] \in Params
  BY <1>1
<1> HIDE DEF ps
<1>3. \A x \in Names : Named(x) # {} => param(x).type \in Types
  <2> SUFFICES ASSUME NEW x \in Names, Named(x) # {} PROVE param(x).type \in Types
    OBVIOUS
  <2>1. (CHOOSE i \in Named(x) : TRUE) \in Named(x)
    OBVIOUS
  <2>2. param(x) \in Params
    BY <1>2, <2>1
  <2> QED
    BY <2>2 DEF Params
<1>4. ParamScope(f) = [x \in Names |-> IF Named(x) = {} THEN NoEntry
                                     ELSE NewEntry(param(x).type, 0)]
  BY DEF ParamScope, ps
<1> HIDE DEF Named, param
<1>5. EntryInv(NoEntry)
  BY NewEntryInv DEF Types
<1>6. \A x \in Names : Named(x) # {} =>
        /\ NewEntry(param(x).type, 0) \in Entry
        /\ EntryInv(NewEntry(param(x).type, 0))
  BY <1>3, NewEntryInv
<1>7. ParamScope(f) \in Scope
  BY <1>4, <1>6 DEF Scope
<1>8. \A x \in Names :
        ParamScope(f)[x] = IF Named(x) = {} THEN NoEntry ELSE NewEntry(param(x).type, 0)
  BY <1>4
<1> QED
  BY <1>5, <1>6, <1>7, <1>8 DEF ScopeInv

-----------------------------------------------------------------------------
(* Steps *)

LEMMA AtHead ==
  ASSUME IInv, NEW op, NEW kinds, At(op, kinds)
  PROVE  /\ status = "running" /\ work # <<>>
         /\ work[1].node \in DOMAIN ast /\ nd.kind \in kinds
         /\ work[1].thread \in Nat /\ work[1].loop \in {0} \cup DOMAIN ast
<1>1. work \in Seq(Item) /\ work # <<>>
  BY DEF IInv, WorkOK, At
<1>2. work[1] \in Item
  BY <1>1
<1> QED
  BY <1>1, <1>2 DEF At, Item

(* What a step leaves alone keeps its part of the invariant. *)
LEMMA Kept ==
  ASSUME IInv, ast' = ast
  PROVE  /\ types' = types => TypeStackOK'
         /\ scopes' = scopes => ScopesOK'
         /\ context' = context => ContextOK'
         /\ functions' = functions => FunctionsOK'
         /\ tree' = tree => TreeOK'
         /\ work' = work => WorkOK'
<1>1. types' = types => TypeStackOK'
  BY DEF IInv, TypeStackOK
<1>2. scopes' = scopes => ScopesOK'
  BY DEF IInv, ScopesOK, ScopeInv, EntryInv
<1>3. context' = context => ContextOK'
  BY DEF IInv, ContextOK, context
<1>4. functions' = functions => FunctionsOK'
  BY DEF IInv, FunctionsOK
<1>5. tree' = tree => TreeOK'
  BY DEF IInv, TreeOK, tree
<1>6. work' = work => WorkOK'
  <2>1. Item' = Item
    BY DEF Item
  <2> QED
    BY <2>1 DEF IInv, WorkOK
<1> QED
  BY <1>1, <1>2, <1>3, <1>4, <1>5, <1>6

(* A step that replaces the head of work and touches only the types. *)
LEMMA WalkStep ==
  ASSUME IInv, work # <<>>, NEW items \in Seq(Item), Continue(items), TypeStackOK',
         UNCHANGED <<ast, status, scopes, context, functions, tree>>
  PROVE  IInv'
<1>1. WorkOK'
  BY ContinueType DEF IInv
<1>2. ScopesOK' /\ ContextOK' /\ FunctionsOK' /\ TreeOK'
  BY Kept
<1> QED
  BY <1>1, <1>2 DEF IInv

LEMMA PopType ==
  ASSUME TypeStackOK, NEW k \in Nat, Pop(k)
  PROVE  TypeStackOK'
<1>1. types \in Seq(Types) /\ Len(types) \in Nat
  BY DEF TypeStackOK
<1>2. \A i \in k + 1 .. Len(types) : types[i] \in Types
  BY <1>1
<1>3. SubSeq(types, k + 1, Len(types)) \in Seq(Types)
  BY <1>1, <1>2, SubSeqProperties
<1> QED
  BY <1>3 DEF TypeStackOK, Pop

LEMMA PushType ==
  ASSUME TypeStackOK, NEW type \in Types, Push(type)
  PROVE  TypeStackOK'
<1>1. <<type>> \in Seq(Types) /\ types \in Seq(Types)
  BY DEF TypeStackOK
<1>2. <<type>> \o types \in Seq(Types)
  BY <1>1, ConcatProperties
<1> QED
  BY <1>2 DEF TypeStackOK, Push

LEMMA NoItems == <<>> \in Seq(Item)
OBVIOUS

(* The items pushed for a node of the tree. *)
LEMMA KidItems ==
  ASSUME ast \in Programs, NEW n \in DOMAIN ast, NEW op \in Ops
  PROVE  /\ Each(op, ast[n].kids) \in Seq(Item)
         /\ \A i \in DOMAIN ast[n].kids : Do(op, ast[n].kids[i]) \in Item
<1>1. ast[n].kids \in Seq(DOMAIN ast)
  BY NodeFacts
<1>2. \A i \in DOMAIN ast[n].kids : ast[n].kids[i] \in DOMAIN ast
  BY <1>1
<1> QED
  BY <1>1, <1>2, EachType, DoType

LEMMA CallItemsType ==
  ASSUME ast \in Programs, NEW n \in DOMAIN ast
  PROVE  CallItems(n) \in Seq(Item)
<1> DEFINE last == IF ast[n].par = "regular" THEN <<>> ELSE <<Do("launch", n)>>
<1>1. Each("expr", ast[n].kids) \in Seq(Item)
  BY KidItems DEF Ops
<1>2. <<Do("discard", n)>> \in Seq(Item) /\ <<Do("launch", n)>> \in Seq(Item)
  BY DoType DEF Ops
<1>3. last \in Seq(Item)
  BY <1>2, NoItems
<1> HIDE DEF last
<1>4. Each("expr", ast[n].kids) \o <<Do("discard", n)>> \in Seq(Item)
  BY <1>1, <1>2, ConcatProperties
<1>5. (Each("expr", ast[n].kids) \o <<Do("discard", n)>>) \o last \in Seq(Item)
  BY <1>3, <1>4, ConcatProperties
<1> QED
  BY <1>5 DEF CallItems, last

(* exit(1), the end of the walk, and the overflow of scopes[]. *)
LEMMA StatusStep ==
  ASSUME IInv, status' \in {"ok", "error", "overflow"},
         UNCHANGED <<ast, walk, scopes, context, functions, tree>>
  PROVE  IInv'
<1>1. /\ WorkOK' /\ TypeStackOK' /\ ScopesOK' /\ ContextOK'
      /\ FunctionsOK' /\ TreeOK'
  BY Kept DEF walk
<1> QED
  BY <1>1 DEF IInv

-----------------------------------------------------------------------------
(* The actions, in groups *)

(* Statements and expressions that only schedule their parts. *)
LEMMA Schedules ==
  ASSUME IInv,
         \/ DeclarationValue \/ IfStatement \/ ForLoop \/ Operands
         \/ Operator \/ CallValue \/ LaunchUnknown
  PROVE  IInv'
<1> DEFINE n == work[1].node
<1>1. ast \in Programs /\ TypeStackOK
  BY DEF IInv
<1>2. CASE DeclarationValue
  <2>1. work # <<>> /\ n \in DOMAIN ast /\ ast[n].kind = "decl"
    BY <1>2, AtHead DEF DeclarationValue, nd
  <2>2. 1 \in DOMAIN ast[n].kids
    BY <1>1, <2>1, NodeFacts
  <2>3. Do("expr", ast[n].kids[1]) \in Item /\ Do("declare", n) \in Item
    BY <1>1, <2>1, <2>2, KidItems, DoType DEF Ops
  <2>4. Evaluate(n) \o <<Do("declare", n)>> \in Seq(Item)
    BY <2>3 DEF Evaluate
  <2>5. TypeStackOK'
    BY <1>2, Kept DEF DeclarationValue
  <2> QED
    BY <1>2, <2>1, <2>4, <2>5, WalkStep DEF DeclarationValue
<1>3. CASE IfStatement
  <2>1. work # <<>> /\ n \in DOMAIN ast /\ ast[n].kind = "if"
    BY <1>3, AtHead DEF IfStatement, nd
  <2>2. ast[n].kids \in Seq(DOMAIN ast) /\ 1 \in DOMAIN ast[n].kids
    BY <1>1, <2>1, NodeFacts
  <2>3. Tail(ast[n].kids) \in Seq(DOMAIN ast)
    <3>1. ast[n].kids # <<>>
      BY <2>2
    <3> QED
      BY <2>2, <3>1, HeadTailProperties
  <2>4. Do("expr", ast[n].kids[1]) \in Item /\ Do("test", n) \in Item
    BY <1>1, <2>1, <2>2, KidItems, DoType DEF Ops
  <2>5. Evaluate(n) \o <<Do("test", n)>> \in Seq(Item)
    BY <2>4 DEF Evaluate
  <2>6. Each("stmt", Tail(ast[n].kids)) \in Seq(Item)
    BY <2>3, EachType DEF Ops
  <2>7. Evaluate(n) \o <<Do("test", n)>> \o Each("stmt", Tail(ast[n].kids)) \in Seq(Item)
    BY <2>5, <2>6, ConcatProperties
  <2>8. TypeStackOK'
    BY <1>3, Kept DEF IfStatement
  <2> QED
    BY <1>3, <2>1, <2>7, <2>8, WalkStep DEF IfStatement, nd
<1>4. CASE ForLoop
  <2>1. work # <<>> /\ n \in DOMAIN ast /\ ast[n].kind = "for"
    <3>1. At("stmt", {"for"})
      BY <1>4 DEF ForLoop
    <3> QED
      BY <3>1, AtHead DEF nd
  <2>2. \A i \in 1 .. 4 : i \in DOMAIN ast[n].kids
    BY <1>1, <2>1, NodeFacts
  <2>3. \A i \in 1 .. 4 : Do("stmt", ast[n].kids[i]) \in Item /\ Do("expr", ast[n].kids[i]) \in Item
    BY <1>1, <2>1, <2>2, KidItems DEF Ops
  <2>4. Do("test", n) \in Item /\ Do("loop", n) \in Item
    BY <2>1, DoType DEF Ops
  <2> DEFINE last == IF ast[n].par = "thread" THEN Do("loop", n) ELSE Do("stmt", ast[n].kids[4])
  <2>5. last \in Item
    BY <2>3, <2>4
  <2> HIDE DEF last
  <2>6. <<Do("stmt", ast[n].kids[1]), Do("expr", ast[n].kids[2]), Do("test", n),
          Do("stmt", ast[n].kids[3]), last>> \in Seq(Item)
    BY <2>3, <2>4, <2>5
  <2>7. TypeStackOK'
    BY <1>4, Kept DEF ForLoop
  <2> QED
    BY <1>4, <2>1, <2>6, <2>7, WalkStep DEF ForLoop, nd, last
<1>5. CASE Operands
  <2>1. work # <<>> /\ n \in DOMAIN ast
    BY <1>5, AtHead DEF Operands
  <2>2. CallItems(n) \in Seq(Item)
    BY <1>1, <2>1, CallItemsType
  <2>3. TypeStackOK'
    BY <1>5, Kept DEF Operands
  <2> QED
    BY <1>5, <2>1, <2>2, <2>3, WalkStep DEF Operands
<1>6. CASE Operator
  <2>1. work # <<>> /\ n \in DOMAIN ast
    BY <1>6, AtHead DEF Operator
  <2> DEFINE op == IF nd.kind = "binop" THEN "operate" ELSE "negate"
  <2>2. op \in Ops
    BY DEF Ops
  <2> HIDE DEF op
  <2>3. Each("expr", ast[n].kids) \in Seq(Item) /\ <<Do(op, n)>> \in Seq(Item)
    BY <1>1, <2>1, <2>2, KidItems, DoType DEF Ops
  <2>4. Each("expr", ast[n].kids) \o <<Do(op, n)>> \in Seq(Item)
    BY <2>3, ConcatProperties
  <2>5. TypeStackOK'
    BY <1>6, Kept DEF Operator
  <2> QED
    BY <1>6, <2>1, <2>4, <2>5, WalkStep DEF Operator, nd, op
<1>7. CASE CallValue
  <2>1. work # <<>> /\ n \in DOMAIN ast
    BY <1>7, AtHead DEF CallValue
  <2>2. CallItems(n) \in Seq(Item) /\ <<Do("yield", n)>> \in Seq(Item)
    BY <1>1, <2>1, CallItemsType, DoType DEF Ops
  <2>3. CallItems(n) \o <<Do("yield", n)>> \in Seq(Item)
    BY <2>2, ConcatProperties
  <2>4. TypeStackOK'
    BY <1>7, Kept DEF CallValue
  <2> QED
    BY <1>7, <2>1, <2>3, <2>4, WalkStep DEF CallValue
<1>8. CASE LaunchUnknown
  <2>1. work # <<>> /\ TypeStackOK'
    BY <1>8, AtHead, Kept DEF LaunchUnknown
  <2> QED
    BY <1>8, <2>1, NoItems, WalkStep DEF LaunchUnknown
<1> QED
  BY <1>2, <1>3, <1>4, <1>5, <1>6, <1>7, <1>8

(* Steps that produce and consume types. *)
LEMMA Computes ==
  ASSUME IInv,
         \/ Store \/ Test \/ Discard \/ Literal \/ Operate \/ Negate \/ Yield
  PROVE  IInv'
<1>1. ast \in Programs /\ TypeStackOK
  BY DEF IInv
<1>2. CASE Store
  <2>1. work # <<>> /\ TypeStackOK'
    BY <1>1, <1>2, AtHead, PopType DEF Store
  <2> QED
    BY <1>2, <2>1, NoItems, WalkStep DEF Store
<1>3. CASE Test
  <2>1. work # <<>> /\ TypeStackOK'
    BY <1>1, <1>3, AtHead, PopType DEF Test
  <2> QED
    BY <1>3, <2>1, NoItems, WalkStep DEF Test
<1>4. CASE Discard
  <2>1. work # <<>> /\ work[1].node \in DOMAIN ast
    BY <1>4, AtHead DEF Discard
  <2>2. Len(nd.kids) \in Nat
    BY <1>1, <2>1, NodeFacts DEF nd
  <2>3. TypeStackOK'
    BY <1>1, <1>4, <2>2, PopType DEF Discard
  <2> QED
    BY <1>4, <2>1, <2>3, NoItems, WalkStep DEF Discard
<1>5. CASE Literal
  <2>1. work # <<>> /\ nd.kind \in Types
    BY <1>5, AtHead DEF Literal, Types
  <2>2. TypeStackOK'
    BY <1>1, <1>5, <2>1, PushType DEF Literal
  <2> QED
    BY <1>5, <2>1, <2>2, NoItems, WalkStep DEF Literal
<1>6. CASE Operate
  <2>1. work # <<>>
    BY <1>6, AtHead DEF Operate
  <2>2. types \in Seq(Types) /\ Len(types) \in Nat
    BY <1>1 DEF TypeStackOK
  <2>3. \A i \in 3 .. Len(types) : types[i] \in Types
    BY <2>2
  <2>4. SubSeq(types, 3, Len(types)) \in Seq(Types)
    BY <2>2, <2>3, SubSeqProperties
  <2>5. <<"int">> \in Seq(Types)
    BY DEF Types
  <2>6. <<"int">> \o SubSeq(types, 3, Len(types)) \in Seq(Types)
    BY <2>4, <2>5, ConcatProperties
  <2>7. TypeStackOK'
    BY <1>6, <2>6 DEF Operate, TypeStackOK
  <2> QED
    BY <1>6, <2>1, <2>7, NoItems, WalkStep DEF Operate
<1>7. CASE Negate
  <2>1. work # <<>> /\ TypeStackOK'
    BY <1>7, AtHead, Kept DEF Negate
  <2> QED
    BY <1>7, <2>1, NoItems, WalkStep DEF Negate
<1>8. CASE Yield
  <2>1. work # <<>> /\ TypeStackOK'
    BY <1>1, <1>8, AtHead, PushType DEF Yield, Types
  <2> QED
    BY <1>8, <2>1, NoItems, WalkStep DEF Yield
<1> QED
  BY <1>2, <1>3, <1>4, <1>5, <1>6, <1>7, <1>8

(* Refusals and ends. *)
LEMMA Stops ==
  ASSUME IInv,
         \/ FunctionFails \/ DeclareFails \/ UpdateFails \/ StoreFails \/ TestFails
         \/ IdentifierFails \/ OperateFails \/ NegateFails
         \/ ScopeOverflow \/ Finish
  PROVE  IInv'
<1>1. /\ status' \in {"ok", "error", "overflow"}
      /\ UNCHANGED <<ast, walk, scopes, context, functions, tree>>
  BY DEF FunctionFails, DeclareFails, UpdateFails, StoreFails, TestFails,
         IdentifierFails, OperateFails, NegateFails, ScopeOverflow, Finish, Fail
<1> QED
  BY <1>1, StatusStep

(* Changes of context: what is resumed later is saved in the item. *)
LEMMA Switches ==
  ASSUME IInv, ThreadedBody \/ EndLoop \/ ThreadBlock \/ EndContext
  PROVE  IInv'
<1> DEFINE n == work[1].node
<1>1. /\ ast \in Programs /\ WorkOK /\ ContextOK
      /\ curThread \in Nat /\ nextThread \in Nat /\ curLoop \in {0} \cup DOMAIN ast
      /\ status \in {"running", "ok", "error", "overflow"}
  BY DEF IInv, ContextOK
<1>2. SUFFICES ASSUME ast' = ast /\ status' = status /\ types' = types /\ scopes' = scopes
                      /\ functions' = functions /\ tree' = tree
               PROVE  WorkOK' /\ ContextOK'
  <2>1. /\ ast' = ast /\ status' = status /\ types' = types /\ scopes' = scopes
        /\ functions' = functions /\ tree' = tree
    BY DEF ThreadedBody, EndLoop, ThreadBlock, EndContext
  <2>2. TypeStackOK' /\ ScopesOK' /\ FunctionsOK' /\ TreeOK'
    BY <2>1, Kept
  <2>3. WorkOK' /\ ContextOK'
    BY <1>2, <2>1
  <2> QED
    BY <1>1, <2>1, <2>2, <2>3 DEF IInv
<1>3. CASE ThreadedBody
  <2>1. work # <<>> /\ n \in DOMAIN ast /\ ast[n].kind = "for"
    BY <1>3, AtHead DEF ThreadedBody, nd
  <2>2. 4 \in DOMAIN ast[n].kids
    BY <1>1, <2>1, NodeFacts
  <2>3. Do("stmt", ast[n].kids[4]) \in Item
    BY <1>1, <2>1, <2>2, KidItems DEF Ops
  <2>4. Restore("endLoop", n) \in Item
    BY <1>1, <2>1 DEF Restore, Item, Ops
  <2>5. <<Do("stmt", ast[n].kids[4]), Restore("endLoop", n)>> \in Seq(Item)
    BY <2>3, <2>4
  <2>6. WorkOK'
    BY <1>1, <1>2, <1>3, <2>1, <2>5, ContinueType DEF ThreadedBody, nd
  <2>7. curThread' \in Nat /\ nextThread' \in Nat /\ curLoop' \in {0} \cup DOMAIN ast'
    BY <1>1, <1>2, <1>3, <2>1 DEF ThreadedBody, NewContext
  <2> QED
    BY <2>6, <2>7 DEF ContextOK
<1>4. CASE EndLoop
  <2>1. /\ work # <<>> /\ work[1].thread \in Nat
        /\ work[1].loop \in {0} \cup DOMAIN ast
    BY <1>4, AtHead DEF EndLoop
  <2>2. WorkOK'
    BY <1>1, <1>2, <1>4, <2>1, NoItems, ContinueType DEF EndLoop
  <2>3. curThread' \in Nat /\ nextThread' \in Nat /\ curLoop' \in {0} \cup DOMAIN ast'
    BY <1>1, <1>2, <1>4, <2>1 DEF EndLoop
  <2> QED
    BY <2>2, <2>3 DEF ContextOK
<1>5. CASE ThreadBlock
  <2>1. work # <<>> /\ n \in DOMAIN ast
    BY <1>5, AtHead DEF ThreadBlock
  <2>2. Each("stmt", ast[n].kids) \in Seq(Item) /\ <<Restore("endContext", n)>> \in Seq(Item)
    BY <1>1, <2>1, KidItems, RestoreType DEF Ops
  <2>3. Each("stmt", ast[n].kids) \o <<Restore("endContext", n)>> \in Seq(Item)
    BY <2>2, ConcatProperties
  <2>4. WorkOK'
    BY <1>1, <1>2, <1>5, <2>1, <2>3, ContinueType DEF ThreadBlock, nd
  <2>5. curThread' \in Nat /\ nextThread' \in Nat /\ curLoop' \in {0} \cup DOMAIN ast'
    BY <1>1, <1>2, <1>5 DEF ThreadBlock, NewContext
  <2> QED
    BY <2>4, <2>5 DEF ContextOK
<1>6. CASE EndContext
  <2>1. work # <<>> /\ work[1].thread \in Nat
    BY <1>6, AtHead DEF EndContext
  <2>2. WorkOK'
    BY <1>1, <1>2, <1>6, <2>1, NoItems, ContinueType DEF EndContext
  <2>3. curThread' \in Nat /\ nextThread' \in Nat /\ curLoop' \in {0} \cup DOMAIN ast'
    BY <1>1, <1>2, <1>6, <2>1 DEF EndContext
  <2> QED
    BY <2>2, <2>3 DEF ContextOK
<1> QED
  BY <1>3, <1>4, <1>5, <1>6

(* The items of a list of statements and what closes their scope. *)
LEMMA BodyItems ==
  ASSUME ast \in Programs, NEW n \in DOMAIN ast
  PROVE  Each("stmt", ast[n].kids) \o <<Do("leave", n)>> \in Seq(Item)
<1>1. Each("stmt", ast[n].kids) \in Seq(Item) /\ <<Do("leave", n)>> \in Seq(Item)
  BY KidItems, DoType DEF Ops
<1> QED
  BY <1>1, ConcatProperties

LEMMA AddFunction ==
  ASSUME FunctionsOK, ast' = ast, NEW n \in DOMAIN ast,
         functions' = IF Len(functions) < MaxFunctions
                      THEN Append(functions, n) ELSE functions
  PROVE  FunctionsOK'
<1>1. functions \in Seq(DOMAIN ast) /\ Len(functions) \in Nat /\ Len(functions) <= MaxFunctions
  BY DEF FunctionsOK
<1>2. CASE Len(functions) < MaxFunctions
  <2>1. functions' \in Seq(DOMAIN ast) /\ Len(functions') = Len(functions) + 1
    BY <1>1, <1>2
  <2>2. Len(functions') <= MaxFunctions
    BY <1>1, <1>2, <2>1, LimitsAssumption
  <2> QED
    BY <2>1, <2>2 DEF FunctionsOK
<1>3. CASE ~(Len(functions) < MaxFunctions)
  BY <1>1, <1>3 DEF FunctionsOK
<1> QED
  BY <1>2, <1>3

(* Entering and leaving scopes. *)
LEMMA Scoping ==
  ASSUME IInv, Program \/ Block \/ Function \/ Leave \/ Launch
  PROVE  IInv'
<1> DEFINE n == work[1].node
<1>1. /\ ast \in Programs /\ WorkOK /\ ContextOK /\ ScopesOK /\ FunctionsOK
      /\ status \in {"running", "ok", "error", "overflow"}
  BY DEF IInv
<1>2. ast' = ast /\ status' = status /\ types' = types /\ tree' = tree
  BY DEF Program, Block, Function, Leave, Launch
<1>3. TypeStackOK' /\ TreeOK'
  BY <1>2, Kept
<1>4. SUFFICES WorkOK' /\ ScopesOK' /\ ContextOK' /\ FunctionsOK'
  BY <1>1, <1>2, <1>3 DEF IInv
<1>5. CASE Program
  <2>1. work # <<>> /\ n \in DOMAIN ast
    BY <1>5, AtHead DEF Program
  <2>2. WorkOK'
    BY <1>1, <1>2, <1>5, <2>1, BodyItems, ContinueType DEF Program, nd
  <2>3. ScopesOK'
    BY <1>1, <1>5, EmptyScopeOK, PushScope DEF Program
  <2>4. ContextOK'
    BY <1>1, <1>2, <1>5 DEF Program, ContextOK
  <2>5. FunctionsOK'
    BY <1>2, <1>5, Kept DEF Program
  <2> QED
    BY <2>2, <2>3, <2>4, <2>5
<1>6. CASE Block
  <2>1. work # <<>> /\ n \in DOMAIN ast
    BY <1>6, AtHead DEF Block
  <2>2. WorkOK'
    BY <1>1, <1>2, <1>6, <2>1, BodyItems, ContinueType DEF Block, nd
  <2>3. ScopesOK'
    BY <1>1, <1>6, EmptyScopeOK, PushScope DEF Block
  <2>4. ContextOK' /\ FunctionsOK'
    BY <1>2, <1>6, Kept DEF Block
  <2> QED
    BY <2>2, <2>3, <2>4
<1>7. CASE Function
  <2>1. work # <<>> /\ n \in DOMAIN ast
    BY <1>7, AtHead DEF Function
  <2>2. WorkOK'
    BY <1>1, <1>2, <1>7, <2>1, BodyItems, ContinueType DEF Function, nd
  <2>3. ScopesOK'
    BY <1>1, <1>7, <2>1, ParamScopeOK, PushScope DEF Function
  <2>4. ContextOK'
    BY <1>2, <1>7, Kept DEF Function
  <2>5. FunctionsOK'
    BY <1>1, <1>2, <1>7, <2>1, AddFunction DEF Function
  <2> QED
    BY <2>2, <2>3, <2>4, <2>5
<1>8. CASE Leave
  <2>1. work # <<>>
    BY <1>8, AtHead DEF Leave
  <2>2. WorkOK'
    BY <1>1, <1>2, <1>8, <2>1, NoItems, ContinueType DEF Leave
  <2>3. ScopesOK'
    BY <1>1, <1>8, PopScope DEF Leave
  <2>4. ContextOK' /\ FunctionsOK'
    BY <1>2, <1>8, Kept DEF Leave
  <2> QED
    BY <2>2, <2>3, <2>4
<1>9. CASE Launch
  <2>1. work # <<>> /\ n \in DOMAIN ast
    BY <1>9, AtHead DEF Launch
  <2>2. PICK f \in DOMAIN ast :
          /\ scopes' = Append(scopes, ParamScope(f))
          /\ Continue(Each("stmt", ast[f].kids)
                        \o <<Do("leave", f), Restore("endContext", n)>>)
    BY <1>9 DEF Launch
  <2>3. Each("stmt", ast[f].kids) \in Seq(Item)
    BY <1>1, <2>2, KidItems DEF Ops
  <2>4. Do("leave", f) \in Item /\ Restore("endContext", n) \in Item
    BY <1>1, <2>1, DoType DEF Restore, Item, Ops, ContextOK
  <2>5. <<Do("leave", f), Restore("endContext", n)>> \in Seq(Item)
    BY <2>4
  <2>6. Each("stmt", ast[f].kids) \o <<Do("leave", f), Restore("endContext", n)>> \in Seq(Item)
    BY <2>3, <2>5, ConcatProperties
  <2>7. WorkOK'
    BY <1>1, <1>2, <2>1, <2>2, <2>6, ContinueType
  <2>8. ScopesOK'
    BY <1>1, <1>9, <2>2, ParamScopeOK, PushScope DEF Launch
  <2>9. ContextOK'
    BY <1>1, <1>2, <1>9 DEF Launch, NewContext, ContextOK
  <2>10. FunctionsOK'
    BY <1>2, <1>9, Kept DEF Launch
  <2> QED
    BY <2>7, <2>8, <2>9, <2>10
<1> QED
  BY <1>5, <1>6, <1>7, <1>8, <1>9

(* The entry that lookup_variable finds. *)
LEMMA BoundEntry ==
  ASSUME ScopesOK, ContextOK, NEW l \in DOMAIN scopes, NEW x \in Names, Binds(l, x)
  PROVE  /\ scopes[l][x] \in Entry /\ Touch(scopes[l][x]) \in Entry
         /\ EntryInv(Touch(scopes[l][x]))
<1>1. scopes[l] \in Scope /\ ScopeInv(scopes[l]) /\ scopes[l][x] # NoEntry
  BY DEF ScopesOK, Binds
<1>2. scopes[l][x] \in Entry /\ EntryInv(scopes[l][x])
  BY <1>1 DEF Scope, ScopeInv
<1> QED
  BY <1>2, TouchFields, TouchInv

LEMMA DeclareStep ==
  ASSUME IInv, Declare
  PROVE  IInv'
<1> DEFINE n == work[1].node
           e == Touch(NewEntry(nd.type, n))
<1>1. /\ ast \in Programs /\ WorkOK /\ TypeStackOK /\ ContextOK /\ ScopesOK /\ TreeOK
      /\ status \in {"running", "ok", "error", "overflow"}
  BY DEF IInv
<1>2. /\ work # <<>> /\ n \in DOMAIN ast /\ ast[n].kind = "decl"
  BY AtHead DEF Declare, nd
<1>3. nd.name \in Names /\ nd.type \in Types
  BY <1>1, <1>2, NodeFacts DEF nd
<1>4. n \in Nat
  <2>1. ast \in Seq(Node)
    BY <1>1, ProgramsAssumption DEF WellFormed
  <2> QED
    BY <1>2, <2>1
<1>5. e \in Entry /\ EntryInv(e)
  BY <1>1, <1>3, <1>4, NewEntryInv, TouchFields, TouchInv
<1>6. /\ scopes' = [scopes EXCEPT ![Len(scopes)][nd.name] = e]
      /\ isShared' = [isShared EXCEPT ![n] = Mark(e)]
      /\ Pop(1) /\ Continue(<<>>)
      /\ UNCHANGED <<ast, status, context, functions, identType, captured, bound>>
  BY DEF Declare
<1> HIDE DEF e, n
<1>7. WorkOK'
  BY <1>1, <1>2, <1>6, NoItems, ContinueType
<1>8. TypeStackOK'
  BY <1>1, <1>6, PopType
<1>9. ScopesOK'
  <2>1. CASE Len(scopes) \in DOMAIN scopes
    BY <1>1, <1>3, <1>5, <1>6, <2>1, BindScope
  <2>2. CASE Len(scopes) \notin DOMAIN scopes
    <3>1. scopes' = scopes
      BY <1>1, <1>6, <2>2 DEF ScopesOK
    <3> QED
      BY <1>6, <3>1, Kept
  <2> QED
    BY <2>1, <2>2
<1>10. TreeOK'
  <2>1. Mark(e) \in {"unset", "private", "shared"}
    BY DEF Mark
  <2>2. isShared' \in [DOMAIN ast -> {"unset", "private", "shared"}]
    BY <1>1, <1>6, <2>1 DEF TreeOK
  <2> QED
    BY <1>1, <1>6, <2>2 DEF TreeOK
<1>11. ContextOK' /\ FunctionsOK'
  BY <1>6, Kept
<1> QED
  BY <1>1, <1>6, <1>7, <1>8, <1>9, <1>10, <1>11 DEF IInv

LEMMA UpdateStep ==
  ASSUME IInv, Update
  PROVE  IInv'
<1> DEFINE n     == work[1].node
           e(l)  == Touch(scopes[l][nd.name])
           items == IF nd.kids = <<>> THEN <<>> ELSE Evaluate(n) \o <<Do("store", n)>>
<1>1. /\ ast \in Programs /\ WorkOK /\ TypeStackOK /\ ContextOK /\ ScopesOK /\ TreeOK
      /\ status \in {"running", "ok", "error", "overflow"}
  BY DEF IInv
<1>2. work # <<>> /\ n \in DOMAIN ast /\ ast[n].kind = "update"
  <2>1. At("stmt", {"update"})
    BY DEF Update
  <2> QED
    BY <2>1, AtHead DEF nd
<1>3. nd.name \in Names
  BY <1>1, <1>2, NodeFacts DEF nd
<1>4. items \in Seq(Item)
  <2>1. CASE nd.kids = <<>>
    BY <2>1, NoItems
  <2>2. CASE nd.kids # <<>>
    <3>1. 1 \in DOMAIN ast[n].kids
      BY <1>1, <1>2, <2>2, NodeFacts DEF nd
    <3>2. Do("expr", ast[n].kids[1]) \in Item /\ Do("store", n) \in Item
      BY <1>1, <1>2, <3>1, KidItems, DoType DEF Ops
    <3>3. Evaluate(n) \o <<Do("store", n)>> \in Seq(Item)
      BY <3>2 DEF Evaluate
    <3> QED
      BY <2>2, <3>3
  <2> QED
    BY <2>1, <2>2
<1>5. PICK l \in DOMAIN scopes :
        /\ Binds(l, nd.name)
        /\ scopes' = [scopes EXCEPT ![l][nd.name] = e(l)]
        /\ isShared' = [m \in DOMAIN isShared |->
                          IF m \in {n, e(l).decl} THEN Mark(e(l)) ELSE isShared[m]]
        /\ bound' = [bound EXCEPT ![n] = e(l).decl]
  BY DEF Update
<1>6. /\ Continue(items)
      /\ UNCHANGED <<ast, status, types, context, functions, identType, captured>>
  BY DEF Update
<1>7. e(l) \in Entry /\ EntryInv(e(l))
  BY <1>1, <1>3, <1>5, BoundEntry
<1>8. e(l).decl \in Nat
  BY <1>7 DEF Entry
<1> HIDE DEF e, n, items
<1>9. WorkOK'
  BY <1>1, <1>2, <1>4, <1>6, ContinueType
<1>10. ScopesOK'
  BY <1>1, <1>3, <1>5, <1>7, BindScope
<1>11. TreeOK'
  <2>1. Mark(e(l)) \in {"unset", "private", "shared"}
    BY DEF Mark
  <2>2. isShared \in [DOMAIN ast -> {"unset", "private", "shared"}]
    BY <1>1 DEF TreeOK
  <2>3. isShared' \in [DOMAIN ast -> {"unset", "private", "shared"}]
    BY <1>5, <2>1, <2>2
  <2>4. bound' \in [DOMAIN ast -> Nat \cup {-1}]
    BY <1>1, <1>5, <1>8 DEF TreeOK
  <2> QED
    BY <1>1, <1>6, <2>3, <2>4 DEF TreeOK
<1>12. TypeStackOK' /\ ContextOK' /\ FunctionsOK'
  BY <1>6, Kept
<1> QED
  BY <1>1, <1>6, <1>9, <1>10, <1>11, <1>12 DEF IInv

LEMMA IdentifierStep ==
  ASSUME IInv, Identifier
  PROVE  IInv'
<1> DEFINE n    == work[1].node
           e(l) == scopes[l][nd.name]
           c(l) == [name |-> nd.name, type |-> e(l).type]
<1>1. /\ ast \in Programs /\ WorkOK /\ TypeStackOK /\ ContextOK /\ ScopesOK /\ TreeOK
      /\ status \in {"running", "ok", "error", "overflow"}
  BY DEF IInv
<1>2. work # <<>> /\ n \in DOMAIN ast /\ ast[n].kind = "ident"
  <2>1. At("expr", {"ident"})
    BY DEF Identifier
  <2> QED
    BY <2>1, AtHead DEF nd
<1>3. nd.name \in Names
  BY <1>1, <1>2, NodeFacts DEF nd
<1>4. PICK l \in DOMAIN scopes :
        /\ Binds(l, nd.name)
        /\ scopes' = [scopes EXCEPT ![l][nd.name] = Touch(e(l))]
        /\ identType' = [identType EXCEPT ![n] = e(l).type]
        /\ bound' = [bound EXCEPT ![n] = e(l).decl]
        /\ captured' = IF Captures(l, nd.name)
                       THEN [captured EXCEPT ![curLoop] = Append(@, c(l))]
                       ELSE captured
        /\ Push(e(l).type)
  BY DEF Identifier
<1>5. Continue(<<>>) /\ UNCHANGED <<ast, status, context, functions, isShared>>
  BY DEF Identifier
<1>6. e(l) \in Entry /\ Touch(e(l)) \in Entry /\ EntryInv(Touch(e(l)))
  BY <1>1, <1>3, <1>4, BoundEntry
<1>7. e(l).type \in Types /\ e(l).decl \in Nat
  BY <1>6 DEF Entry
<1>8. c(l) \in Params
  BY <1>3, <1>7 DEF Params
<1> HIDE DEF e, n, c
<1>9. WorkOK'
  BY <1>1, <1>2, <1>5, NoItems, ContinueType
<1>10. TypeStackOK'
  BY <1>1, <1>4, <1>7, PushType
<1>11. ScopesOK'
  BY <1>1, <1>3, <1>4, <1>6, BindScope
<1>12. TreeOK'
  <2>1. /\ identType \in [DOMAIN ast -> {"unset"} \cup Types]
        /\ captured \in [DOMAIN ast -> Seq(Params)]
        /\ bound \in [DOMAIN ast -> Nat \cup {-1}]
    BY <1>1 DEF TreeOK
  <2>2. captured' \in [DOMAIN ast -> Seq(Params)]
    <3>1. CASE Captures(l, nd.name)
      <4>1. curLoop \in DOMAIN ast
        BY <1>1, <3>1 DEF Captures, ContextOK
      <4>2. Append(captured[curLoop], c(l)) \in Seq(Params)
        BY <1>8, <2>1, <4>1
      <4>3. captured' = [captured EXCEPT ![curLoop] = Append(captured[curLoop], c(l))]
        BY <1>4, <3>1
      <4> QED
        BY <2>1, <4>1, <4>2, <4>3
    <3>2. CASE ~Captures(l, nd.name)
      BY <1>4, <2>1, <3>2
    <3> QED
      BY <3>1, <3>2
  <2>3. identType' \in [DOMAIN ast -> {"unset"} \cup Types]
    BY <1>4, <1>7, <2>1
  <2>4. bound' \in [DOMAIN ast -> Nat \cup {-1}]
    BY <1>4, <1>7, <2>1
  <2> QED
    BY <1>1, <1>5, <2>2, <2>3, <2>4 DEF TreeOK
<1>13. ContextOK' /\ FunctionsOK'
  BY <1>5, Kept
<1> QED
  BY <1>1, <1>5, <1>9, <1>10, <1>11, <1>12, <1>13 DEF IInv

-----------------------------------------------------------------------------
(* The invariant, and what follows from it *)

LEMMA InitInvariant == Init => IInv
<1> SUFFICES ASSUME Init PROVE IInv
  OBVIOUS
<1>1. ast \in Programs /\ WellFormed(ast)
  BY ProgramsAssumption DEF Init
<1>2. ast \in Seq(Node) /\ 1 \in DOMAIN ast
  BY <1>1 DEF WellFormed
<1>3. WorkOK
  BY <1>2, DoType DEF Init, WorkOK, Ops
<1>4. TypeStackOK /\ ContextOK
  BY DEF Init, TypeStackOK, ContextOK
<1>5. ScopesOK
  <2>1. scopes = <<>> /\ Len(<<>>) = 0 /\ DOMAIN <<>> = {} /\ <<>> \in Seq(Scope)
    BY DEF Init
  <2> QED
    BY <2>1, LimitsAssumption DEF ScopesOK
<1>6. FunctionsOK
  <2>1. functions = <<>> /\ Len(<<>>) = 0 /\ <<>> \in Seq(DOMAIN ast)
    BY DEF Init
  <2> QED
    BY <2>1, LimitsAssumption DEF FunctionsOK
<1>7. TreeOK
  BY DEF Init, TreeOK
<1> QED
  BY <1>1, <1>3, <1>4, <1>5, <1>6, <1>7 DEF IInv, Init

LEMMA NextInvariant == IInv /\ [Next]_vars => IInv'
<1> SUFFICES ASSUME IInv, [Next]_vars PROVE IInv'
  OBVIOUS
<1>1. CASE AnalyzeNode
  BY <1>1, Schedules, Computes, Stops, Switches, Scoping, DeclareStep, UpdateStep
     DEF AnalyzeNode
<1>2. CASE AnalyzeExpression
  BY <1>2, Schedules, Computes, Stops, IdentifierStep DEF AnalyzeExpression
<1>3. CASE Finish
  BY <1>3, Stops
<1>4. CASE UNCHANGED vars
  <2>1. /\ ast' = ast /\ status' = status /\ work' = work /\ types' = types
        /\ scopes' = scopes /\ context' = context /\ functions' = functions
        /\ tree' = tree
    BY <1>4 DEF vars, walk
  <2>2. WorkOK' /\ TypeStackOK' /\ ScopesOK' /\ ContextOK' /\ FunctionsOK' /\ TreeOK'
    BY <2>1, Kept
  <2> QED
    BY <2>1, <2>2 DEF IInv
<1> QED
  BY <1>1, <1>2, <1>3, <1>4 DEF Next

LEMMA TypesHold == IInv => TypeOK
BY DEF IInv, TypeOK, WorkOK, TypeStackOK, ScopesOK, ContextOK, FunctionsOK, TreeOK

(* Every variable has its type throughout the walk; in particular neither  *)
(* function_nodes[] nor scopes[] is ever longer than its C array.          *)
THEOREM TypeCorrect == Spec => []TypeOK
  BY TypesHold, InitInvariant, NextInvariant, PTL DEF Spec

LEMMA SharingExact == IInv => SharedExactly
<1> SUFFICES ASSUME IInv, NEW l \in DOMAIN scopes, NEW x \in Names
             PROVE  scopes[l][x].shared <=> \E a, b \in scopes[l][x].users : a # b
  BY DEF SharedExactly
<1>1. scopes[l] \in Scope /\ ScopeInv(scopes[l])
  BY DEF IInv, ScopesOK
<1>2. scopes[l][x] \in Entry \cup {NoEntry} /\ EntryInv(scopes[l][x])
  BY <1>1 DEF Scope, ScopeInv
<1> QED
  BY <1>2, EntryShared

(* Whatever the program and the limits, is_shared of every variable in     *)
(* scope is exactly whether two different contexts have touched it.        *)
THEOREM SharedExactlyHolds == Spec => []SharedExactly
  BY SharingExact, InitInvariant, NextInvariant, PTL DEF Spec

(* Only an identifier adds to captured_names, and only to the list of the  *)
(* current loop, after the search of it.                                   *)
LEMMA CaptureStep ==
  ASSUME IInv, CapturedOnce, [Next]_vars
  PROVE  CapturedOnce'
<1>1. CASE UNCHANGED <<ast, captured>>
  BY <1>1 DEF CapturedOnce, ThreadedLoops, LoopVar
<1>2. CASE Identifier
  <2> DEFINE x    == nd.name
             c(l) == [name |-> x, type |-> scopes[l][x].type]
  <2>1. PICK l \in DOMAIN scopes :
          captured' = IF Captures(l, x)
                      THEN [captured EXCEPT ![curLoop] = Append(@, c(l))]
                      ELSE captured
    BY <1>2 DEF Identifier
  <2>2. ast' = ast
    BY <1>2 DEF Identifier
  <2>3. CASE ~Captures(l, x)
    BY <1>1, <2>1, <2>2, <2>3
  <2>4. CASE Captures(l, x)
    <3>1. /\ curLoop \in DOMAIN ast /\ x # LoopVar(curLoop)
          /\ \A i \in DOMAIN captured[curLoop] : captured[curLoop][i].name # x
          /\ captured \in [DOMAIN ast -> Seq(Params)]
      BY <2>4 DEF Captures, IInv, ContextOK, TreeOK
    <3>2. \A f \in DOMAIN ast :
            captured'[f] = IF f = curLoop THEN Append(captured[f], c(l)) ELSE captured[f]
      BY <2>1, <2>4, <3>1
    <3>3. c(l).name = x
      OBVIOUS
    <3> HIDE DEF c, x
    <3>4. ThreadedLoops' = ThreadedLoops /\ \A f : LoopVar(f)' = LoopVar(f)
      BY <2>2 DEF ThreadedLoops, LoopVar
    <3>5. SUFFICES ASSUME NEW f \in ThreadedLoops, NEW i \in DOMAIN captured'[f]
                   PROVE  /\ captured'[f][i].name # LoopVar(f)
                          /\ \A j \in DOMAIN captured'[f] :
                               captured'[f][i].name = captured'[f][j].name => i = j
      BY <3>4 DEF CapturedOnce
    <3>6. /\ f \in DOMAIN ast
          /\ \A k \in DOMAIN captured[f] :
               /\ captured[f][k].name # LoopVar(f)
               /\ \A j \in DOMAIN captured[f] :
                    captured[f][k].name = captured[f][j].name => k = j
      BY DEF ThreadedLoops, CapturedOnce
    <3>7. CASE f # curLoop
      BY <3>2, <3>6, <3>7
    <3>8. CASE f = curLoop
      <4>1. captured[f] \in Seq(Params) /\ captured'[f] = Append(captured[f], c(l))
        BY <3>1, <3>2, <3>6, <3>8
      <4>2. \A k \in DOMAIN captured'[f] :
              \/ k \in DOMAIN captured[f] /\ captured'[f][k] = captured[f][k]
              \/ k = Len(captured[f]) + 1 /\ captured'[f][k] = c(l)
        BY <4>1
      <4> QED
        BY <3>1, <3>3, <3>6, <3>8, <4>2
    <3> QED
      BY <3>7, <3>8
  <2> QED
    BY <2>3, <2>4
<1> QED
  <2>1. CASE AnalyzeNode
    BY <1>1, <2>1 DEF AnalyzeNode, Program, Block, Function, FunctionFails, Leave,
       DeclarationValue, Declare, DeclareFails, Update, UpdateFails, Store, StoreFails,
       IfStatement, ForLoop, Test, TestFails, ThreadedBody, EndLoop, ThreadBlock,
       EndContext, Operands, Discard, Launch, LaunchUnknown, ScopeOverflow, Fail, tree
  <2>2. CASE AnalyzeExpression
    BY <1>1, <1>2, <2>2 DEF AnalyzeExpression, Literal, IdentifierFails, Operator,
       Operate, OperateFails, Negate, NegateFails, CallValue, Yield, Fail, tree
  <2>3. CASE Finish \/ UNCHANGED vars
    BY <1>1, <2>3 DEF Finish, vars, tree
  <2> QED
    BY <2>1, <2>2, <2>3 DEF Next

(* No variable is packed twice in the argument array of the workers, and   *)
(* the loop variable never is, whatever the nesting of the loops and the   *)
(* order of the reads.                                                     *)
THEOREM CapturedOnceHolds == Spec => []CapturedOnce
<1>1. Init => CapturedOnce
  BY DEF Init, CapturedOnce, ThreadedLoops
<1>2. IInv /\ CapturedOnce /\ [Next]_vars => CapturedOnce'
  BY CaptureStep
<1> QED
  BY <1>1, <1>2, InitInvariant, NextInvariant, PTL DEF Spec

-----------------------------------------------------------------------------
(***************************************************************************)
(* The walk: what its call stack holds, that the contexts of the calls in  *)
(* progress nest, and that every call gives back what it took.             *)
(*                                                                         *)
(* Each action replaces the head of `work' by the items of the calls that  *)
(* it makes.  ContinueAt says where they and the rest of the stack end up, *)
(* and Plain what the items of a step have in common when it neither opens *)
(* nor closes a scope or a context; most actions are such steps.           *)
(***************************************************************************)

(* Replacing the head of the stack *)

LEMMA ContinueAt ==
  ASSUME work \in Seq(Item), work # <<>>, NEW items \in Seq(Item), Continue(items)
  PROVE  /\ work' \in Seq(Item)
         /\ Len(work') = Len(items) + Len(work) - 1
         /\ \A i \in DOMAIN items : i \in DOMAIN work' /\ work'[i] = items[i]
         /\ \A i \in DOMAIN work : i # 1 =>
              /\ i + Len(items) - 1 \in DOMAIN work'
              /\ work'[i + Len(items) - 1] = work[i]
         /\ \A j \in DOMAIN work' :
              \/ j \in DOMAIN items
              \/ \E i \in DOMAIN work : i # 1 /\ j = i + Len(items) - 1
<1>1. /\ Tail(work) \in Seq(Item) /\ Len(Tail(work)) = Len(work) - 1
      /\ \A i \in 1 .. Len(Tail(work)) : Tail(work)[i] = work[i + 1]
  BY HeadTailProperties
<1>2. /\ work' \in Seq(Item) /\ Len(work') = Len(items) + Len(Tail(work))
      /\ \A i \in 1 .. Len(items) + Len(Tail(work)) :
           work'[i] = IF i <= Len(items) THEN items[i] ELSE Tail(work)[i - Len(items)]
  BY <1>1, ConcatProperties DEF Continue
<1>3. Len(items) \in Nat /\ Len(work) \in Nat \ {0}
  OBVIOUS
<1>4. \A i \in DOMAIN items : i \in DOMAIN work' /\ work'[i] = items[i]
  BY <1>1, <1>2, <1>3, SMTT(20)
<1>5. ASSUME NEW i \in DOMAIN work, i # 1
      PROVE  /\ i + Len(items) - 1 \in DOMAIN work'
             /\ work'[i + Len(items) - 1] = work[i]
  <2>1. i \in 2 .. Len(work) /\ i - 1 \in 1 .. Len(Tail(work))
    BY <1>1, <1>3, <1>5
  <2>2. i + Len(items) - 1 \in 1 .. Len(items) + Len(Tail(work))
    BY <1>1, <1>3, <2>1
  <2>3. work'[i + Len(items) - 1] = Tail(work)[i - 1]
    <3>1. /\ ~(i + Len(items) - 1 <= Len(items))
          /\ (i + Len(items) - 1) - Len(items) = i - 1
      BY <1>3, <2>1
    <3> QED
      BY <1>2, <2>2, <3>1
  <2> QED
    BY <1>1, <1>2, <2>1, <2>2, <2>3, SMTT(20)
<1>6. ASSUME NEW j \in DOMAIN work', j \notin DOMAIN items
      PROVE  \E i \in DOMAIN work : i # 1 /\ j = i + Len(items) - 1
  <2>1. j \in Len(items) + 1 .. Len(items) + Len(work) - 1
    BY <1>1, <1>2, <1>3, <1>6
  <2>2. j - Len(items) + 1 \in DOMAIN work /\ j - Len(items) + 1 # 1
    BY <1>3, <2>1
  <2> QED
    BY <1>3, <2>1, <2>2
<1> QED
  BY <1>1, <1>2, <1>3, <1>4, <1>5, <1>6

(* The items of a list of nodes, followed by others. *)
LEMMA ListItems ==
  ASSUME NEW op \in Ops, NEW kids \in Seq(DOMAIN ast), NEW rest \in Seq(Item)
  PROVE  LET items == Each(op, kids) \o rest
         IN  /\ items \in Seq(Item) /\ Len(items) = Len(kids) + Len(rest)
             /\ \A i \in DOMAIN kids : i \in DOMAIN items /\ items[i] = Do(op, kids[i])
             /\ \A i \in DOMAIN rest : /\ i + Len(kids) \in DOMAIN items
                                       /\ items[i + Len(kids)] = rest[i]
             /\ \A j \in DOMAIN items :
                  j \in DOMAIN kids \/ \E i \in DOMAIN rest : j = i + Len(kids)
<1> DEFINE items == Each(op, kids) \o rest
<1>1. Each(op, kids) \in Seq(Item)
  BY EachType
<1>2. Len(Each(op, kids)) = Len(kids) /\ \A i \in DOMAIN kids : Each(op, kids)[i] = Do(op, kids[i])
  <2>1. DOMAIN Each(op, kids) = 1 .. Len(kids)
    BY DEF Each
  <2>2. Len(Each(op, kids)) = Len(kids)
    BY <1>1, <2>1
  <2> QED
    BY <2>2 DEF Each
<1>3. /\ items \in Seq(Item) /\ Len(items) = Len(kids) + Len(rest)
      /\ \A i \in 1 .. Len(kids) + Len(rest) :
           items[i] = IF i <= Len(kids) THEN Each(op, kids)[i] ELSE rest[i - Len(kids)]
  <2> DEFINE first == Each(op, kids)
  <2>1. first \in Seq(Item) /\ Len(first) = Len(kids)
    BY <1>1, <1>2
  <2> HIDE DEF first
  <2>2. /\ first \o rest \in Seq(Item) /\ Len(first \o rest) = Len(kids) + Len(rest)
        /\ \A i \in 1 .. Len(kids) + Len(rest) :
             (first \o rest)[i] = IF i <= Len(kids) THEN first[i] ELSE rest[i - Len(kids)]
    <3>1. /\ first \o rest \in Seq(Item) /\ Len(first \o rest) = Len(first) + Len(rest)
          /\ \A i \in 1 .. Len(first) + Len(rest) :
               (first \o rest)[i] = IF i <= Len(first) THEN first[i] ELSE rest[i - Len(first)]
      BY <2>1, ConcatProperties, Zenon
    <3> QED
      BY <2>1, <3>1, Zenon
  <2> QED
    BY <2>2 DEF first
<1>4. Len(kids) \in Nat /\ Len(rest) \in Nat
  OBVIOUS
<1>5. DOMAIN items = 1 .. Len(kids) + Len(rest)
  BY <1>3
<1> HIDE DEF items
<1>6. \A i \in DOMAIN kids : i \in DOMAIN items /\ items[i] = Do(op, kids[i])
  BY <1>2, <1>3, <1>4, <1>5
<1>7. ASSUME NEW i \in DOMAIN rest
      PROVE  i + Len(kids) \in DOMAIN items /\ items[i + Len(kids)] = rest[i]
  <2>1. i \in 1 .. Len(rest) /\ ~(i + Len(kids) <= Len(kids)) /\ i + Len(kids) - Len(kids) = i
    BY <1>4
  <2>2. i + Len(kids) \in 1 .. Len(kids) + Len(rest)
    BY <1>4, <2>1
  <2> QED
    BY <1>3, <1>5, <2>1, <2>2
<1>8. ASSUME NEW j \in DOMAIN items, j \notin DOMAIN kids
      PROVE  \E i \in DOMAIN rest : j = i + Len(kids)
  <2>1. j \in Len(kids) + 1 .. Len(kids) + Len(rest)
    BY <1>4, <1>5, <1>8
  <2>2. j - Len(kids) \in DOMAIN rest /\ j = (j - Len(kids)) + Len(kids)
    BY <1>4, <2>1
  <2> QED
    BY <2>2
<1> QED
  BY <1>3, <1>6, <1>7, <1>8 DEF items

-----------------------------------------------------------------------------
(* What each item stands at *)

(* The kinds of node at which the call of each item is made. *)
Place(op) ==
  CASE op = "stmt"       -> StmtKinds \cup {"block"}
    [] op = "expr"       -> ExprKinds
    [] op = "discard"    -> {"print", "return", "await", "call"}
    [] op = "declare"    -> {"decl"}
    [] op = "store"      -> {"update"}
    [] op = "test"       -> {"if", "for"}
    [] op = "loop"       -> {"for"}
    [] op = "operate"    -> {"binop"}
    [] op = "negate"     -> {"unary"}
    [] op = "launch"     -> {"call"}
    [] op = "yield"      -> {"call"}
    [] op = "leave"      -> Kinds
    [] op = "endContext" -> {"thread", "call"}
    [] op = "endLoop"    -> {"for"}

Fits(w) ==
  /\ ast[w.node].kind \in Place(w.op)
  /\ w.op \in {"loop", "endLoop"} => ast[w.node].par = "thread"

(* The program is analyzed once, before anything else. *)
First ==
  /\ work = <<Do("stmt", 1)>> /\ types = <<>> /\ scopes = <<>>
  /\ curThread = 0 /\ curLoop = 0

ShapeOK == First \/ \A i \in DOMAIN work : Fits(work[i])

(* The items of a step that neither opens nor closes a scope or a context: *)
(* they stand at the node of the step or at kids of it, the body of a      *)
(* threaded loop excepted.                                                 *)
PlainOps == Ops \ {"leave", "endContext", "endLoop"}

IsKid(k, n) == \E j \in DOMAIN ast[n].kids : k = ast[n].kids[j]

PlainItem(w, n) ==
  /\ w \in Item /\ w.op \in PlainOps /\ Fits(w)
  /\ \/ w.node = n
     \/ IsKid(w.node, n) /\ ~(n \in ThreadedLoops /\ w.node = ast[n].kids[4])

Plain(items, n) ==
  items \in Seq(Item) /\ \A i \in DOMAIN items : PlainItem(items[i], n)

LEMMA KidKinds ==
  ASSUME ast \in Programs, NEW n \in DOMAIN ast
  PROVE  LET kind    == ast[n].kind
             Kid(i)  == ast[ast[n].kids[i]].kind
         IN  /\ kind \in {"program", "block", "thread", "func"} =>
                  \A i \in DOMAIN ast[n].kids : Kid(i) \in StmtKinds
             /\ kind = "decl" => Kid(1) \in ExprKinds
             /\ kind = "update" => \A i \in DOMAIN ast[n].kids : Kid(i) \in ExprKinds
             /\ kind = "if" => /\ Kid(1) \in ExprKinds
                              /\ \A i \in DOMAIN ast[n].kids : i >= 2 => Kid(i) \in {"block", "if"}
             /\ kind = "for" => /\ Kid(1) = "decl" /\ Kid(2) \in ExprKinds
                               /\ Kid(3) = "update" /\ Kid(4) = "block"
             /\ kind \in {"print", "return", "await", "call", "binop", "unary"} =>
                  \A i \in DOMAIN ast[n].kids : Kid(i) \in ExprKinds
             /\ kind \in {"int", "string", "ident"} => ast[n].kids = <<>>
             /\ kind = "binop" => Len(ast[n].kids) = 2
             /\ kind = "unary" => Len(ast[n].kids) = 1
             /\ kind = "if" => Len(ast[n].kids) \in {2, 3}
             /\ kind \in Kinds
<1>1. WellFormed(ast) /\ Shape(ast, n) /\ ast[n] \in Node /\ ast[n].kind \in Kinds
  <2>1. WellFormed(ast)
    BY ProgramsAssumption
  <2>2. Shape(ast, n) /\ ast[n] \in Node
    BY <2>1 DEF WellFormed
  <2>3. ast[n].kind \in Kinds
    BY <2>2 DEF Node
  <2> QED
    BY <2>1, <2>2, <2>3
<1>2. ast[n].kids \in Seq(DOMAIN ast)
  BY NodeFacts
<1>3. \A i \in DOMAIN ast[n].kids : i >= 1
  BY <1>2
<1>4. ast[n].kind \in {"program", "block", "thread", "func"} =>
        \A i \in DOMAIN ast[n].kids : ast[ast[n].kids[i]].kind \in StmtKinds
  BY <1>1, <1>3 DEF Shape, KidsOfKind
<1>5. /\ ast[n].kind = "decl" => ast[ast[n].kids[1]].kind \in ExprKinds
      /\ ast[n].kind = "update" =>
           \A i \in DOMAIN ast[n].kids : ast[ast[n].kids[i]].kind \in ExprKinds
  BY <1>1, <1>3 DEF Shape, KidsOfKind
<1>6. ast[n].kind = "if" =>
        /\ Len(ast[n].kids) \in {2, 3}
        /\ ast[ast[n].kids[1]].kind \in ExprKinds
        /\ \A i \in DOMAIN ast[n].kids : i >= 2 => ast[ast[n].kids[i]].kind \in {"block", "if"}
  <2> SUFFICES ASSUME ast[n].kind = "if" PROVE <1>6!2
    OBVIOUS
  <2>1. /\ Len(ast[n].kids) \in {2, 3} /\ ast[ast[n].kids[1]].kind \in ExprKinds
        /\ ast[ast[n].kids[2]].kind = "block"
        /\ \A i \in DOMAIN ast[n].kids : i >= 3 => ast[ast[n].kids[i]].kind \in {"block", "if"}
    BY <1>1 DEF Shape, KidsOfKind
  <2>2. \A i \in DOMAIN ast[n].kids : i >= 2 => i = 2 \/ i >= 3
    BY <1>2
  <2> QED
    BY <2>1, <2>2
<1>7. ast[n].kind = "for" =>
        /\ ast[ast[n].kids[1]].kind = "decl" /\ ast[ast[n].kids[2]].kind \in ExprKinds
        /\ ast[ast[n].kids[3]].kind = "update" /\ ast[ast[n].kids[4]].kind = "block"
  BY <1>1 DEF Shape
<1>8. ast[n].kind \in {"print", "return", "unary"} =>
        Len(ast[n].kids) = 1 /\ ast[ast[n].kids[1]].kind \in ExprKinds
  BY <1>1 DEF Shape
<1>9. ast[n].kind \in {"await", "call", "binop"} =>
        \A i \in DOMAIN ast[n].kids : ast[ast[n].kids[i]].kind \in ExprKinds
  BY <1>1, <1>3 DEF Shape, KidsOfKind, ExprKinds
<1>10. ast[n].kind = "binop" => Len(ast[n].kids) = 2
  BY <1>1 DEF Shape
<1>11. ast[n].kind \in {"int", "string", "ident"} => ast[n].kids = <<>>
  BY <1>1 DEF Shape
<1>12. ast[n].kind \in {"print", "return", "unary"} =>
         \A i \in DOMAIN ast[n].kids : ast[ast[n].kids[i]].kind \in ExprKinds
  BY <1>2, <1>8
<1> QED
  BY <1>1, <1>4, <1>5, <1>6, <1>7, <1>8, <1>9, <1>10, <1>11, <1>12

LEMMA DoFields ==
  ASSUME NEW op, NEW n
  PROVE  /\ Do(op, n).op = op /\ Do(op, n).node = n
         /\ Do(op, n).thread = 0 /\ Do(op, n).loop = 0
BY DEF Do

(* Past the first step, every item stands where its call is made. *)
LEMMA PastFirst ==
  ASSUME IInv, ShapeOK, work # <<>>,
         ~(work[1].op = "stmt" /\ ast[work[1].node].kind = "program")
  PROVE  ~First /\ \A i \in DOMAIN work : Fits(work[i])
<1>1. ast[1].kind = "program"
  BY ProgramsAssumption DEF IInv, WellFormed
<1>2. ASSUME First PROVE FALSE
  <2>1. work[1] = Do("stmt", 1)
    BY <1>2 DEF First
  <2> QED
    BY <1>1, <2>1, DoFields
<1> QED
  BY <1>2 DEF ShapeOK

(* The program at the head: nothing has been done yet. *)
LEMMA AtFirst ==
  ASSUME IInv, ShapeOK, At("stmt", {"program"})
  PROVE  First /\ work[1].node = 1 /\ Len(work) = 1
<1>1. work # <<>> /\ work[1].op = "stmt" /\ nd.kind = "program"
  BY DEF At
<1>2. 1 \in DOMAIN work
  BY <1>1 DEF IInv, WorkOK
<1>3. ~Fits(work[1])
  <2>1. Place("stmt") = StmtKinds \cup {"block"}
    BY DEF Place
  <2> QED
    BY <1>1, <2>1 DEF Fits, nd, StmtKinds
<1>4. First
  BY <1>2, <1>3 DEF ShapeOK
<1> QED
  BY <1>4, DoFields DEF First

LEMMA PlainOne ==
  ASSUME NEW n \in DOMAIN ast, NEW op \in PlainOps, ast[n].kind \in Place(op),
         op = "loop" => ast[n].par = "thread"
  PROVE  Plain(<<Do(op, n)>>, n)
<1>1. op \in Ops /\ op \in PlainOps /\ op \notin {"endLoop"}
  BY DEF PlainOps
<1>2. Do(op, n) \in Item /\ Fits(Do(op, n))
  BY <1>1, DoType, DoFields DEF Fits
<1>3. PlainItem(Do(op, n), n)
  BY <1>1, <1>2, DoFields DEF PlainItem
<1> QED
  BY <1>2, <1>3 DEF Plain

LEMMA PlainFive ==
  ASSUME NEW n, NEW a, NEW b, NEW c, NEW d, NEW e, PlainItem(a, n), PlainItem(b, n),
         PlainItem(c, n), PlainItem(d, n), PlainItem(e, n)
  PROVE  Plain(<<a, b, c, d, e>>, n)
<1>1. a \in Item /\ b \in Item /\ c \in Item /\ d \in Item /\ e \in Item
  BY DEF PlainItem
<1>2. <<a, b, c, d, e>> \in Seq(Item)
  BY <1>1
<1>3. DOMAIN <<a, b, c, d, e>> = {1, 2, 3, 4, 5}
  OBVIOUS
<1>4. \A i \in {1, 2, 3, 4, 5} : PlainItem(<<a, b, c, d, e>>[i], n)
  OBVIOUS
<1> QED
  BY <1>2, <1>3, <1>4 DEF Plain

LEMMA FittingItems ==
  ASSUME NEW v \in Item, NEW w \in Item, Fits(v), Fits(w)
  PROVE  /\ <<v>> \in Seq(Item) /\ <<v, w>> \in Seq(Item)
         /\ \A i \in DOMAIN <<v>> : Fits(<<v>>[i])
         /\ \A i \in DOMAIN <<v, w>> : Fits(<<v, w>>[i])
OBVIOUS

LEMMA PlainEach ==
  ASSUME NEW n \in DOMAIN ast, NEW op \in {"stmt", "expr"}, NEW ks \in Seq(DOMAIN ast),
         \A i \in DOMAIN ks :
           /\ ast[ks[i]].kind \in Place(op) /\ IsKid(ks[i], n)
           /\ ~(n \in ThreadedLoops /\ ks[i] = ast[n].kids[4])
  PROVE  Plain(Each(op, ks), n)
<1>1. op \in Ops /\ op \in PlainOps /\ op \notin {"loop", "endLoop"}
  BY DEF Ops, PlainOps
<1>2. Each(op, ks) \in Seq(Item)
  BY <1>1, EachType
<1>3. \A i \in DOMAIN Each(op, ks) : i \in DOMAIN ks /\ Each(op, ks)[i] = Do(op, ks[i])
  BY DEF Each
<1>4. ASSUME NEW i \in DOMAIN ks PROVE PlainItem(Do(op, ks[i]), n)
  <2>1. ks[i] \in DOMAIN ast
    OBVIOUS
  <2>2. Do(op, ks[i]) \in Item /\ Fits(Do(op, ks[i]))
    BY <1>1, <2>1, DoType, DoFields DEF Fits
  <2> QED
    BY <1>1, <2>2, DoFields DEF PlainItem
<1> QED
  BY <1>2, <1>3, <1>4 DEF Plain

LEMMA PlainConcat ==
  ASSUME NEW n, NEW s, NEW t, Plain(s, n), Plain(t, n)
  PROVE  Plain(s \o t, n)
<1>1. s \in Seq(Item) /\ t \in Seq(Item)
  BY DEF Plain
<1>2. /\ s \o t \in Seq(Item) /\ Len(s \o t) = Len(s) + Len(t)
      /\ \A i \in 1 .. Len(s) + Len(t) :
           (s \o t)[i] = IF i <= Len(s) THEN s[i] ELSE t[i - Len(s)]
  BY <1>1, ConcatProperties
<1>3. ASSUME NEW i \in DOMAIN (s \o t)
      PROVE  \/ i \in DOMAIN s /\ (s \o t)[i] = s[i]
             \/ i - Len(s) \in DOMAIN t /\ (s \o t)[i] = t[i - Len(s)]
  BY <1>1, <1>2
<1> QED
  BY <1>2, <1>3 DEF Plain

-----------------------------------------------------------------------------
(* The steps that neither open nor close a scope or a context *)

QuietStep ==
  \/ DeclarationValue \/ Declare \/ Update \/ Store \/ IfStatement \/ ForLoop \/ Test
  \/ Operands \/ Discard \/ LaunchUnknown
  \/ Literal \/ Identifier \/ Operator \/ Operate \/ Negate \/ CallValue \/ Yield

StopStep ==
  \/ FunctionFails \/ DeclareFails \/ UpdateFails \/ StoreFails \/ TestFails
  \/ IdentifierFails \/ OperateFails \/ NegateFails \/ ScopeOverflow \/ Finish

(* The calls that such a step makes on the item w. *)
Calls(w) ==
  LET n    == w.node
      kids == ast[n].kids
      kind == ast[n].kind
  IN  CASE w.op = "stmt" /\ kind = "decl" -> Evaluate(n) \o <<Do("declare", n)>>
        [] w.op = "stmt" /\ kind = "update" ->
             IF kids = <<>> THEN <<>> ELSE Evaluate(n) \o <<Do("store", n)>>
        [] w.op = "stmt" /\ kind = "if" ->
             Evaluate(n) \o <<Do("test", n)>> \o Each("stmt", Tail(kids))
        [] w.op = "stmt" /\ kind = "for" ->
             <<Do("stmt", kids[1]), Do("expr", kids[2]), Do("test", n), Do("stmt", kids[3]),
               IF ast[n].par = "thread" THEN Do("loop", n) ELSE Do("stmt", kids[4])>>
        [] w.op = "stmt" /\ kind \in {"print", "return", "await", "call"} -> CallItems(n)
        [] w.op = "expr" /\ kind = "call" -> CallItems(n) \o <<Do("yield", n)>>
        [] w.op = "expr" /\ kind \in {"binop", "unary"} ->
             Each("expr", kids)
               \o <<Do(IF kind = "binop" THEN "operate" ELSE "negate", n)>>
        [] OTHER -> <<>>

(* The items at which a quiet step is taken. *)
QuietItem(w) ==
  /\ w.node \in DOMAIN ast /\ w.op \in PlainOps
  /\ w.op = "stmt" => ast[w.node].kind \in {"decl", "update", "if", "for", "print",
                                           "return", "await", "call"}
  /\ w.op = "expr" => ast[w.node].kind \in ExprKinds
  /\ w.op # "loop"

LEMMA QuietCalls ==
  ASSUME IInv, QuietStep
  PROVE  /\ work # <<>> /\ QuietItem(work[1]) /\ Continue(Calls(work[1]))
         /\ work[1].op = "stmt" => ast[work[1].node].kind # "program"
         /\ UNCHANGED <<ast, status, context, functions>>
<1> DEFINE n == work[1].node
<1>1. CASE DeclarationValue \/ Update \/ IfStatement \/ ForLoop \/ Operands
  <2>1. At("stmt", {"decl", "update", "if", "for", "print", "return", "await", "call"})
    BY <1>1 DEF DeclarationValue, Update, IfStatement, ForLoop, Operands, At
  <2>2. work # <<>> /\ n \in DOMAIN ast /\ work[1].op = "stmt"
        /\ ast[n].kind \in {"decl", "update", "if", "for", "print", "return", "await", "call"}
    BY <2>1, AtHead DEF At, nd
  <2>3. QuietItem(work[1])
    BY <2>2 DEF QuietItem, PlainOps, Ops
  <2>4. Continue(Calls(work[1]))
    <3>1. CASE DeclarationValue
      BY <2>2, <3>1 DEF DeclarationValue, At, nd, Calls
    <3>2. CASE Update
      BY <2>2, <3>2 DEF Update, At, nd, Calls
    <3>3. CASE IfStatement
      BY <2>2, <3>3 DEF IfStatement, At, nd, Calls
    <3>4. CASE ForLoop
      BY <2>2, <3>4 DEF ForLoop, At, nd, Calls
    <3>5. CASE Operands
      BY <2>2, <3>5 DEF Operands, At, nd, Calls
    <3> QED
      BY <1>1, <3>1, <3>2, <3>3, <3>4, <3>5
  <2>5. UNCHANGED <<ast, status, context, functions>>
    BY <1>1 DEF DeclarationValue, Update, IfStatement, ForLoop, Operands
  <2> QED
    BY <2>2, <2>3, <2>4, <2>5
<1>2. CASE Literal \/ Identifier \/ Operator \/ CallValue
  <2>1. At("expr", ExprKinds)
    BY <1>2 DEF Literal, Identifier, Operator, CallValue, At, ExprKinds
  <2>2. work # <<>> /\ n \in DOMAIN ast /\ work[1].op = "expr" /\ ast[n].kind \in ExprKinds
    BY <2>1, AtHead DEF At, nd
  <2>3. QuietItem(work[1])
    BY <2>2 DEF QuietItem, PlainOps, Ops
  <2>4. Continue(Calls(work[1]))
    <3>1. CASE Literal
      BY <2>2, <3>1 DEF Literal, At, nd, Calls
    <3>2. CASE Identifier
      BY <2>2, <3>2 DEF Identifier, At, nd, Calls
    <3>3. CASE Operator
      BY <2>2, <3>3 DEF Operator, At, nd, Calls
    <3>4. CASE CallValue
      BY <2>2, <3>4 DEF CallValue, At, nd, Calls
    <3> QED
      BY <1>2, <3>1, <3>2, <3>3, <3>4
  <2>5. UNCHANGED <<ast, status, context, functions>>
    BY <1>2 DEF Literal, Identifier, Operator, CallValue
  <2> QED
    BY <2>2, <2>3, <2>4, <2>5
<1>3. CASE \/ Declare \/ Store \/ Test \/ Discard \/ LaunchUnknown
           \/ Operate \/ Negate \/ Yield
  <2>1. PICK op, kinds :
            /\ op \in {"declare", "store", "test", "discard", "launch", "operate",
                      "negate", "yield"}
            /\ At(op, kinds)
    BY <1>3 DEF Declare, Store, Test, Discard, LaunchUnknown, Operate, Negate, Yield
  <2>2. /\ work # <<>> /\ n \in DOMAIN ast
        /\ work[1].op \in {"declare", "store", "test", "discard", "launch", "operate",
                          "negate", "yield"}
    BY <2>1, AtHead DEF At
  <2>3. QuietItem(work[1])
    BY <2>2 DEF QuietItem, PlainOps, Ops
  <2>4. Calls(work[1]) = <<>>
    BY <2>2 DEF Calls
  <2>5. Continue(<<>>) /\ UNCHANGED <<ast, status, context, functions>>
    BY <1>3 DEF Declare, Store, Test, Discard, LaunchUnknown, Operate, Negate, Yield
  <2> QED
    BY <2>2, <2>3, <2>4, <2>5
<1> QED
  BY <1>1, <1>2, <1>3 DEF QuietStep

(* The kids of a node that no threaded loop has as its body. *)
LEMMA PlainKids ==
  ASSUME ast \in Programs, NEW n \in DOMAIN ast, NEW op \in {"stmt", "expr"},
         ast[n].kind # "for",
         \A i \in DOMAIN ast[n].kids : ast[ast[n].kids[i]].kind \in Place(op)
  PROVE  Plain(Each(op, ast[n].kids), n)
<1>1. ast[n].kids \in Seq(DOMAIN ast)
  BY NodeFacts
<1>2. n \notin ThreadedLoops
  BY DEF ThreadedLoops
<1>3. \A i \in DOMAIN ast[n].kids : IsKid(ast[n].kids[i], n)
  BY DEF IsKid
<1> QED
  BY <1>1, <1>2, <1>3, PlainEach

LEMMA PlainKid ==
  ASSUME ast \in Programs, NEW n \in DOMAIN ast, NEW op \in {"stmt", "expr"},
         NEW i \in DOMAIN ast[n].kids, ast[ast[n].kids[i]].kind \in Place(op),
         ~(n \in ThreadedLoops /\ ast[n].kids[i] = ast[n].kids[4])
  PROVE  PlainItem(Do(op, ast[n].kids[i]), n) /\ Plain(<<Do(op, ast[n].kids[i])>>, n)
<1>1. ast[n].kids[i] \in DOMAIN ast
  BY NodeFacts
<1>2. op \in Ops /\ op \in PlainOps /\ op \notin {"loop", "endLoop"}
  BY DEF Ops, PlainOps
<1>3. Do(op, ast[n].kids[i]) \in Item /\ Fits(Do(op, ast[n].kids[i]))
  BY <1>1, <1>2, DoType, DoFields DEF Fits
<1>4. PlainItem(Do(op, ast[n].kids[i]), n)
  BY <1>2, <1>3, DoFields DEF PlainItem, IsKid
<1> QED
  BY <1>3, <1>4 DEF Plain

LEMMA PlainEvaluate ==
  ASSUME ast \in Programs, NEW n \in DOMAIN ast, ast[n].kind \in {"decl", "update", "if"},
         ast[n].kids # <<>>, NEW op \in PlainOps, ast[n].kind \in Place(op), op # "loop"
  PROVE  Plain(Evaluate(n) \o <<Do(op, n)>>, n)
<1>1. 1 \in DOMAIN ast[n].kids
  BY NodeFacts
<1>2. ast[ast[n].kids[1]].kind \in Place("expr")
  BY <1>1, KidKinds DEF Place
<1>3. n \notin ThreadedLoops
  BY DEF ThreadedLoops
<1>4. Plain(Evaluate(n), n)
  BY <1>1, <1>2, <1>3, PlainKid DEF Evaluate
<1>5. Plain(<<Do(op, n)>>, n)
  BY PlainOne
<1> QED
  BY <1>4, <1>5, PlainConcat

LEMMA PlainCallItems ==
  ASSUME ast \in Programs, NEW n \in DOMAIN ast,
         ast[n].kind \in {"print", "return", "await", "call"}
  PROVE  Plain(CallItems(n), n)
<1>1. \A i \in DOMAIN ast[n].kids : ast[ast[n].kids[i]].kind \in Place("expr")
  BY KidKinds DEF Place
<1>2. Plain(Each("expr", ast[n].kids), n)
  BY <1>1, PlainKids
<1>3. Plain(<<Do("discard", n)>>, n)
  BY PlainOne DEF Place, PlainOps, Ops
<1>4. Plain(IF ast[n].par = "regular" THEN <<>> ELSE <<Do("launch", n)>>, n)
  <2>1. CASE ast[n].par = "regular"
    <3>1. Plain(<<>>, n)
      BY NoItems DEF Plain
    <3> QED
      BY <2>1, <3>1
  <2>2. CASE ast[n].par # "regular"
    <3>1. ast[n].kind = "call"
      BY <2>2, ProgramsAssumption DEF WellFormed
    <3>2. Plain(<<Do("launch", n)>>, n)
      BY <3>1, PlainOne DEF Place, PlainOps, Ops
    <3> QED
      BY <2>2, <3>2
  <2> QED
    BY <2>1, <2>2
<1> QED
  BY <1>2, <1>3, <1>4, PlainConcat DEF CallItems

LEMMA TailItems ==
  ASSUME NEW S, NEW s \in Seq(S), s # <<>>
  PROVE  /\ Tail(s) \in Seq(S) /\ Len(Tail(s)) = Len(s) - 1
         /\ \A i \in DOMAIN Tail(s) : i + 1 \in DOMAIN s /\ i + 1 >= 2 /\ Tail(s)[i] = s[i + 1]
         /\ \A i \in DOMAIN s : i # 1 => i - 1 \in DOMAIN Tail(s)
<1>1. /\ Tail(s) \in Seq(S) /\ Len(Tail(s)) = Len(s) - 1
      /\ \A i \in 1 .. Len(Tail(s)) : Tail(s)[i] = s[i + 1]
  BY HeadTailProperties
<1> QED
  BY <1>1

(* Every call of a quiet step is plain. *)
LEMMA PlainCalls ==
  ASSUME ast \in Programs, NEW w, QuietItem(w)
  PROVE  Plain(Calls(w), w.node)
<1> DEFINE n    == w.node
           kids == ast[n].kids
<1>1. n \in DOMAIN ast
  BY DEF QuietItem
<1>2. CASE w.op = "stmt" /\ ast[n].kind = "decl"
  <2>1. kids # <<>>
    <3>1. kids \in Seq(DOMAIN ast) /\ Len(kids) = 1
      BY <1>1, <1>2, NodeFacts
    <3>2. 1 \in DOMAIN kids
      BY <3>1
    <3> QED
      BY <3>2
  <2>2. Plain(Evaluate(n) \o <<Do("declare", n)>>, n)
    BY <1>1, <1>2, <2>1, PlainEvaluate DEF Place, PlainOps, Ops
  <2> QED
    BY <1>2, <2>2 DEF Calls
<1>3. CASE w.op = "stmt" /\ ast[n].kind = "update"
  <2>1. CASE kids = <<>>
    BY <1>3, <2>1, NoItems DEF Calls, Plain
  <2>2. CASE kids # <<>>
    <3>1. Plain(Evaluate(n) \o <<Do("store", n)>>, n)
      BY <1>1, <1>3, <2>2, PlainEvaluate DEF Place, PlainOps, Ops
    <3> QED
      BY <1>3, <2>2, <3>1 DEF Calls
  <2> QED
    BY <2>1, <2>2
<1>4. CASE w.op = "stmt" /\ ast[n].kind = "if"
  <2>1. kids \in Seq(DOMAIN ast) /\ kids # <<>>
    BY <1>1, <1>4, NodeFacts
  <2>2. Plain(Evaluate(n) \o <<Do("test", n)>>, n)
    BY <1>1, <1>4, <2>1, PlainEvaluate DEF Place, PlainOps, Ops
  <2>3. /\ Tail(kids) \in Seq(DOMAIN ast)
        /\ \A i \in DOMAIN Tail(kids) :
             i + 1 \in DOMAIN kids /\ i + 1 >= 2 /\ Tail(kids)[i] = kids[i + 1]
    BY <2>1, TailItems
  <2>4. \A i \in DOMAIN Tail(kids) :
          ast[Tail(kids)[i]].kind \in Place("stmt") /\ IsKid(Tail(kids)[i], n)
    <3>1. \A i \in DOMAIN kids : i >= 2 => ast[kids[i]].kind \in {"block", "if"}
      BY <1>1, <1>4, KidKinds
    <3> QED
      BY <2>3, <3>1 DEF Place, StmtKinds, IsKid
  <2>5. Plain(Each("stmt", Tail(kids)), n)
    <3>1. n \notin ThreadedLoops
      BY <1>4 DEF ThreadedLoops
    <3> QED
      BY <1>1, <2>3, <2>4, <3>1, PlainEach
  <2>6. Plain(Evaluate(n) \o <<Do("test", n)>> \o Each("stmt", Tail(kids)), n)
    BY <2>2, <2>5, PlainConcat
  <2> QED
    BY <1>4, <2>6 DEF Calls
<1>5. CASE w.op = "stmt" /\ ast[n].kind = "for"
  <2>1. /\ ast[kids[1]].kind = "decl" /\ ast[kids[2]].kind \in ExprKinds
        /\ ast[kids[3]].kind = "update" /\ ast[kids[4]].kind = "block"
        /\ 1 \in DOMAIN kids /\ 2 \in DOMAIN kids /\ 3 \in DOMAIN kids /\ 4 \in DOMAIN kids
    <3>1. Len(kids) = 4 /\ kids \in Seq(DOMAIN ast)
      BY <1>1, <1>5, NodeFacts
    <3> QED
      BY <1>1, <1>5, <3>1, KidKinds
  <2>2. kids[1] # kids[4] /\ kids[2] # kids[4] /\ kids[3] # kids[4]
    BY <2>1 DEF ExprKinds
  <2>3. /\ PlainItem(Do("stmt", kids[1]), n) /\ PlainItem(Do("expr", kids[2]), n)
        /\ PlainItem(Do("stmt", kids[3]), n)
    BY <1>1, <2>1, <2>2, PlainKid DEF Place, StmtKinds
  <2>4. PlainItem(Do("test", n), n)
    <3>1. Plain(<<Do("test", n)>>, n)
      BY <1>1, <1>5, PlainOne DEF Place, PlainOps, Ops
    <3> QED
      BY <3>1 DEF Plain
  <2> DEFINE last == IF ast[n].par = "thread" THEN Do("loop", n) ELSE Do("stmt", kids[4])
  <2>5. PlainItem(last, n)
    <3>1. CASE ast[n].par = "thread"
      <4>1. Plain(<<Do("loop", n)>>, n)
        BY <1>1, <1>5, <3>1, PlainOne DEF Place, PlainOps, Ops
      <4> QED
        BY <3>1, <4>1 DEF Plain
    <3>2. CASE ast[n].par # "thread"
      <4>1. n \notin ThreadedLoops
        BY <3>2 DEF ThreadedLoops
      <4> QED
        BY <1>1, <2>1, <3>2, <4>1, PlainKid DEF Place
    <3> QED
      BY <3>1, <3>2
  <2> HIDE DEF last
  <2>6. Plain(<<Do("stmt", kids[1]), Do("expr", kids[2]), Do("test", n), Do("stmt", kids[3]),
                last>>, n)
    BY <2>3, <2>4, <2>5, PlainFive
  <2> QED
    BY <1>5, <2>6 DEF Calls, last
<1>6. CASE w.op = "stmt" /\ ast[n].kind \in {"print", "return", "await", "call"}
  BY <1>1, <1>6, PlainCallItems DEF Calls
<1>7. CASE w.op = "expr" /\ ast[n].kind = "call"
  <2>1. Plain(<<Do("yield", n)>>, n)
    BY <1>1, <1>7, PlainOne DEF Place, PlainOps, Ops
  <2>2. Plain(CallItems(n), n)
    BY <1>1, <1>7, PlainCallItems
  <2>3. Plain(CallItems(n) \o <<Do("yield", n)>>, n)
    BY <2>1, <2>2, PlainConcat
  <2> QED
    BY <1>7, <2>3 DEF Calls
<1>8. CASE w.op = "expr" /\ ast[n].kind \in {"binop", "unary"}
  <2> DEFINE op == IF ast[n].kind = "binop" THEN "operate" ELSE "negate"
  <2>1. op \in PlainOps /\ op # "loop" /\ ast[n].kind \in Place(op)
    BY <1>8 DEF Place, PlainOps, Ops
  <2> HIDE DEF op
  <2>2. Plain(<<Do(op, n)>>, n)
    BY <1>1, <2>1, PlainOne
  <2>3. Plain(Each("expr", kids), n)
    <3>1. \A i \in DOMAIN kids : ast[kids[i]].kind \in Place("expr")
      BY <1>1, <1>8, KidKinds DEF Place
    <3> QED
      BY <1>1, <1>8, <3>1, PlainKids
  <2>4. Plain(Each("expr", kids) \o <<Do(op, n)>>, n)
    BY <2>2, <2>3, PlainConcat
  <2> QED
    BY <1>8, <2>4 DEF Calls, op
<1>9. CASE ~(w.op = "stmt" /\ ast[n].kind \in {"decl", "update", "if", "for", "print",
                                              "return", "await", "call"})
           /\ ~(w.op = "expr" /\ ast[n].kind \in {"call", "binop", "unary"})
  <2>1. Calls(w) = <<>>
    BY <1>9 DEF Calls
  <2> QED
    BY <2>1, NoItems DEF Plain
<1> QED
  BY <1>2, <1>3, <1>4, <1>5, <1>6, <1>7, <1>8, <1>9

-----------------------------------------------------------------------------
(* The other steps *)

(* function_nodes[] holds function nodes. *)
FunctionsAreFunctions == \A i \in DOMAIN functions : ast[functions[i]].kind = "func"

WalkInv == IInv /\ ShapeOK /\ FunctionsAreFunctions

(* A list of statements is analyzed in a scope of its own. *)
EnterStep == Program \/ Block \/ Function

LEMMA EnterFacts ==
  ASSUME WalkInv, EnterStep
  PROVE  LET n == work[1].node
         IN  /\ work # <<>> /\ n \in DOMAIN ast /\ work[1].op = "stmt"
             /\ ast[n].kind \in {"program", "block", "func"}
             /\ First \/ (ast[n].kind # "program" /\ \A i \in DOMAIN work : Fits(work[i]))
             /\ ast[n].kind = "program" => First /\ n = 1 /\ Len(work) = 1
             /\ \A i \in DOMAIN work : i # 1 => Fits(work[i])
             /\ Plain(Each("stmt", ast[n].kids), n)
             /\ Continue(Each("stmt", ast[n].kids) \o <<Do("leave", n)>>)
             /\ Len(scopes) < MaxScope
             /\ \/ scopes' = Append(scopes, EmptyScope)
                \/ scopes' = Append(scopes, ParamScope(n)) /\ ast[n].kind = "func"
             /\ UNCHANGED <<ast, status, types, context, tree>>
<1> DEFINE n == work[1].node
<1>1. At("stmt", {"program", "block", "func"})
  BY DEF EnterStep, Program, Block, Function, At
<1>2. /\ work # <<>> /\ n \in DOMAIN ast /\ work[1].op = "stmt"
      /\ ast[n].kind \in {"program", "block", "func"}
  BY <1>1, AtHead DEF At, nd, WalkInv
<1>3. ast[n].kind = "program" => First /\ n = 1 /\ Len(work) = 1
  BY <1>1, <1>2, AtFirst DEF WalkInv, At, nd
<1>4. ast[n].kind # "program" => \A i \in DOMAIN work : Fits(work[i])
  BY <1>2, PastFirst DEF WalkInv
<1>5. \A i \in DOMAIN work : i # 1 => Fits(work[i])
  <2>1. work \in Seq(Item)
    BY DEF WalkInv, IInv, WorkOK
  <2> QED
    BY <1>3, <1>4, <2>1
<1>6. Plain(Each("stmt", ast[n].kids), n)
  <2>1. ast \in Programs
    BY DEF WalkInv, IInv
  <2>2. \A i \in DOMAIN ast[n].kids : ast[ast[n].kids[i]].kind \in Place("stmt")
    BY <1>2, <2>1, KidKinds DEF Place
  <2> QED
    BY <1>2, <2>1, <2>2, PlainKids
<1>7. /\ Continue(Each("stmt", ast[n].kids) \o <<Do("leave", n)>>)
      /\ Len(scopes) < MaxScope
      /\ UNCHANGED <<ast, status, types, tree>>
  BY DEF EnterStep, Program, Block, Function, nd
<1>8. \/ scopes' = Append(scopes, EmptyScope)
      \/ scopes' = Append(scopes, ParamScope(n)) /\ ast[n].kind = "func"
  BY DEF EnterStep, Program, Block, Function, At, nd
<1>9. UNCHANGED context
  <2>1. CASE Program
    <3>1. First
      BY <2>1, AtFirst DEF Program, WalkInv
    <3> QED
      BY <2>1, <3>1 DEF Program, First, context
  <2>2. CASE Block \/ Function
    BY <2>2 DEF Block, Function
  <2> QED
    BY <2>1, <2>2 DEF EnterStep
<1> QED
  BY <1>2, <1>3, <1>4, <1>5, <1>6, <1>7, <1>8, <1>9

(* What a head that is not the program says of the whole stack. *)
LEMMA HeadFacts ==
  ASSUME WalkInv, NEW op, NEW kinds, At(op, kinds), op # "stmt" \/ "program" \notin kinds
  PROVE  /\ work # <<>> /\ work[1].op = op /\ work[1].node \in DOMAIN ast
         /\ ast[work[1].node].kind \in kinds
         /\ ~First /\ \A i \in DOMAIN work : Fits(work[i])
<1>1. work # <<>> /\ work[1].op = op /\ work[1].node \in DOMAIN ast /\ nd.kind \in kinds
  BY AtHead DEF At, WalkInv
<1> QED
  BY <1>1, PastFirst DEF WalkInv, nd

LEMMA LaunchFacts ==
  ASSUME WalkInv, Launch
  PROVE  LET n == work[1].node
         IN  /\ work # <<>> /\ n \in DOMAIN ast /\ work[1].op = "launch"
             /\ ast[n].kind = "call" /\ ~First /\ \A i \in DOMAIN work : Fits(work[i])
             /\ Len(scopes) < MaxScope /\ NewContext
             /\ UNCHANGED <<ast, status, types, curLoop, functions, tree>>
             /\ \E h \in DOMAIN ast :
                  /\ ast[h].kind = "func" /\ Callee(h, ast[n].name)
                  /\ scopes' = Append(scopes, ParamScope(h))
                  /\ Plain(Each("stmt", ast[h].kids), h)
                  /\ Continue(Each("stmt", ast[h].kids)
                                \o <<Do("leave", h), Restore("endContext", n)>>)
<1> DEFINE n == work[1].node
<1>1. At("launch", {"call"})
  BY DEF Launch
<1>2. /\ work # <<>> /\ n \in DOMAIN ast /\ work[1].op = "launch" /\ ast[n].kind = "call"
      /\ ~First /\ \A i \in DOMAIN work : Fits(work[i])
  BY <1>1, HeadFacts
<1>3. PICK h \in DOMAIN ast :
        /\ Callee(h, ast[n].name) /\ scopes' = Append(scopes, ParamScope(h))
        /\ Continue(Each("stmt", ast[h].kids)
                      \o <<Do("leave", h), Restore("endContext", n)>>)
  BY DEF Launch, nd
<1>4. ast[h].kind = "func"
  BY <1>3 DEF Callee, WalkInv, FunctionsAreFunctions
<1>5. Plain(Each("stmt", ast[h].kids), h)
  <2>1. ast \in Programs
    BY DEF WalkInv, IInv
  <2>2. \A i \in DOMAIN ast[h].kids : ast[ast[h].kids[i]].kind \in Place("stmt")
    BY <1>4, <2>1, KidKinds DEF Place
  <2> QED
    BY <1>4, <2>1, <2>2, PlainKids
<1>6. Len(scopes) < MaxScope /\ NewContext /\ UNCHANGED <<ast, status, types, curLoop, functions, tree>>
  BY DEF Launch
<1> QED
  BY <1>2, <1>3, <1>4, <1>5, <1>6

LEMMA ThreadBlockFacts ==
  ASSUME WalkInv, ThreadBlock
  PROVE  LET n == work[1].node
         IN  /\ work # <<>> /\ n \in DOMAIN ast /\ work[1].op = "stmt"
             /\ ast[n].kind = "thread" /\ ~First /\ \A i \in DOMAIN work : Fits(work[i])
             /\ Plain(Each("stmt", ast[n].kids), n) /\ NewContext
             /\ Continue(Each("stmt", ast[n].kids) \o <<Restore("endContext", n)>>)
             /\ UNCHANGED <<ast, status, types, scopes, curLoop, functions, tree>>
<1> DEFINE n == work[1].node
<1>1. At("stmt", {"thread"})
  BY DEF ThreadBlock
<1>2. /\ work # <<>> /\ n \in DOMAIN ast /\ work[1].op = "stmt" /\ ast[n].kind = "thread"
      /\ ~First /\ \A i \in DOMAIN work : Fits(work[i])
  BY <1>1, HeadFacts
<1>3. Plain(Each("stmt", ast[n].kids), n)
  <2>1. ast \in Programs
    BY DEF WalkInv, IInv
  <2>2. \A i \in DOMAIN ast[n].kids : ast[ast[n].kids[i]].kind \in Place("stmt")
    BY <1>2, <2>1, KidKinds DEF Place
  <2> QED
    BY <1>2, <2>1, <2>2, PlainKids
<1> QED
  BY <1>2, <1>3 DEF ThreadBlock, nd

LEMMA ThreadedBodyFacts ==
  ASSUME WalkInv, ThreadedBody
  PROVE  LET n == work[1].node
         IN  /\ work # <<>> /\ n \in ThreadedLoops /\ work[1].op = "loop"
             /\ ~First /\ \A i \in DOMAIN work : Fits(work[i])
             /\ ast[n].kids[4] \in DOMAIN ast /\ ast[ast[n].kids[4]].kind = "block"
             /\ 4 \in DOMAIN ast[n].kids
             /\ NewContext /\ curLoop' = n
             /\ Continue(<<Do("stmt", ast[n].kids[4]), Restore("endLoop", n)>>)
             /\ UNCHANGED <<ast, status, types, scopes, functions, tree>>
<1> DEFINE n == work[1].node
<1>1. At("loop", {"for"})
  BY DEF ThreadedBody
<1>2. /\ work # <<>> /\ n \in DOMAIN ast /\ work[1].op = "loop" /\ ast[n].kind = "for"
      /\ ~First /\ \A i \in DOMAIN work : Fits(work[i])
  BY <1>1, HeadFacts
<1>3. n \in ThreadedLoops
  <2>1. 1 \in DOMAIN work
    BY <1>2 DEF WalkInv, IInv, WorkOK
  <2>2. Fits(work[1])
    BY <1>2, <2>1
  <2> QED
    BY <1>2, <2>2 DEF Fits, ThreadedLoops
<1>4. /\ 4 \in DOMAIN ast[n].kids /\ ast[n].kids[4] \in DOMAIN ast
      /\ ast[ast[n].kids[4]].kind = "block"
  <2>1. ast \in Programs
    BY DEF WalkInv, IInv
  <2>2. ast[n].kids \in Seq(DOMAIN ast) /\ Len(ast[n].kids) = 4
    BY <1>2, <2>1, NodeFacts
  <2>3. ast[ast[n].kids[4]].kind = "block"
    BY <1>2, <2>1, KidKinds
  <2> QED
    BY <2>2, <2>3
<1> QED
  BY <1>2, <1>3, <1>4 DEF ThreadedBody, nd

(* A call returns. *)
LEMMA ReturnFacts ==
  ASSUME WalkInv, Leave \/ EndLoop \/ EndContext
  PROVE  LET n == work[1].node
         IN  /\ work # <<>> /\ n \in DOMAIN ast
             /\ ~First /\ \A i \in DOMAIN work : Fits(work[i])
             /\ Continue(<<>>) /\ UNCHANGED <<ast, status, types, nextThread, functions, tree>>
             /\ Leave => /\ work[1].op = "leave" /\ UNCHANGED context
                         /\ scopes' = SubSeq(scopes, 1, Len(scopes) - 1)
             /\ EndLoop => /\ work[1].op = "endLoop" /\ UNCHANGED scopes
                           /\ curThread' = work[1].thread /\ curLoop' = work[1].loop
             /\ EndContext => /\ work[1].op = "endContext" /\ UNCHANGED <<scopes, curLoop>>
                              /\ curThread' = work[1].thread
<1>1. CASE Leave
  <2>1. At("leave", Kinds)
    BY <1>1 DEF Leave
  <2>2. /\ work # <<>> /\ work[1].op = "leave" /\ work[1].node \in DOMAIN ast
        /\ ~First /\ \A i \in DOMAIN work : Fits(work[i])
    BY <2>1, HeadFacts
  <2>3. ~EndLoop /\ ~EndContext
    BY <2>2 DEF EndLoop, EndContext, At
  <2> QED
    BY <1>1, <2>2, <2>3 DEF Leave, context
<1>2. CASE EndLoop
  <2>1. At("endLoop", {"for"})
    BY <1>2 DEF EndLoop
  <2>2. /\ work # <<>> /\ work[1].op = "endLoop" /\ work[1].node \in DOMAIN ast
        /\ ~First /\ \A i \in DOMAIN work : Fits(work[i])
    BY <2>1, HeadFacts
  <2>3. ~Leave /\ ~EndContext
    BY <2>2 DEF Leave, EndContext, At
  <2> QED
    BY <1>2, <2>2, <2>3 DEF EndLoop
<1>3. CASE EndContext
  <2>1. At("endContext", {"thread", "call"})
    BY <1>3 DEF EndContext
  <2>2. /\ work # <<>> /\ work[1].op = "endContext" /\ work[1].node \in DOMAIN ast
        /\ ~First /\ \A i \in DOMAIN work : Fits(work[i])
    BY <2>1, HeadFacts
  <2>3. ~Leave /\ ~EndLoop
    BY <2>2 DEF Leave, EndLoop, At
  <2> QED
    BY <1>3, <2>2, <2>3 DEF EndContext
<1> QED
  BY <1>1, <1>2, <1>3

-----------------------------------------------------------------------------
(* The stack after a step *)

StepKinds ==
  \/ StopStep \/ UNCHANGED vars \/ QuietStep \/ EnterStep
  \/ ThreadBlock \/ ThreadedBody \/ Launch
  \/ Leave \/ EndLoop \/ EndContext

LEMMA EveryStep == [Next]_vars => StepKinds
BY DEF Next, AnalyzeNode, AnalyzeExpression, StepKinds, StopStep, QuietStep, EnterStep

LEMMA StopFacts ==
  ASSUME StopStep \/ UNCHANGED vars
  PROVE  UNCHANGED <<ast, work, types, scopes, curThread, nextThread, curLoop, functions,
                     isShared, identType, captured, bound>>
<1>1. CASE StopStep
  BY <1>1 DEF StopStep, FunctionFails, DeclareFails, UpdateFails, StoreFails, TestFails,
     IdentifierFails, OperateFails, NegateFails, ScopeOverflow, Finish, Fail, walk,
     context, tree
<1>2. CASE UNCHANGED vars
  BY <1>2 DEF vars, walk, context, tree
<1> QED
  BY <1>1, <1>2

LEMMA FitsContinue ==
  ASSUME work \in Seq(Item), work # <<>>, ast' = ast, NEW items \in Seq(Item), Continue(items),
         \A i \in DOMAIN items : Fits(items[i]),
         \A i \in DOMAIN work : i # 1 => Fits(work[i])
  PROVE  ShapeOK'
<1>1. ASSUME NEW j \in DOMAIN work' PROVE Fits(work'[j])
  BY ContinueAt
<1> QED
  BY <1>1 DEF ShapeOK, Fits

LEMMA PlainFits ==
  ASSUME NEW n, NEW items, Plain(items, n)
  PROVE  /\ items \in Seq(Item)
         /\ \A i \in DOMAIN items : Fits(items[i]) /\ items[i].op \in PlainOps
BY DEF Plain, PlainItem

(* A list of items and the last ones after it. *)
LEMMA AppendedItems ==
  ASSUME NEW s \in Seq(Item), NEW t \in Seq(Item)
  PROVE  /\ s \o t \in Seq(Item) /\ Len(s \o t) = Len(s) + Len(t)
         /\ \A i \in DOMAIN s : i \in DOMAIN (s \o t) /\ (s \o t)[i] = s[i]
         /\ \A i \in DOMAIN t : /\ i + Len(s) \in DOMAIN (s \o t)
                               /\ (s \o t)[i + Len(s)] = t[i]
         /\ \A j \in DOMAIN (s \o t) :
              j \in DOMAIN s \/ \E i \in DOMAIN t : j = i + Len(s)
<1>1. /\ s \o t \in Seq(Item) /\ Len(s \o t) = Len(s) + Len(t)
      /\ \A i \in 1 .. Len(s) + Len(t) :
           (s \o t)[i] = IF i <= Len(s) THEN s[i] ELSE t[i - Len(s)]
  BY ConcatProperties
<1>2. Len(s) \in Nat /\ Len(t) \in Nat /\ DOMAIN (s \o t) = 1 .. Len(s) + Len(t)
  BY <1>1
<1>3. ASSUME NEW i \in DOMAIN t
      PROVE  i + Len(s) \in DOMAIN (s \o t) /\ (s \o t)[i + Len(s)] = t[i]
  <2>1. i \in 1 .. Len(t) /\ ~(i + Len(s) <= Len(s)) /\ i + Len(s) - Len(s) = i
    BY <1>2
  <2>2. i + Len(s) \in 1 .. Len(s) + Len(t)
    BY <1>2, <2>1
  <2> QED
    BY <1>1, <1>2, <2>1, <2>2
<1>4. ASSUME NEW j \in DOMAIN (s \o t), j \notin DOMAIN s
      PROVE  \E i \in DOMAIN t : j = i + Len(s)
  <2>1. j \in Len(s) + 1 .. Len(s) + Len(t)
    BY <1>2, <1>4
  <2>2. j - Len(s) \in DOMAIN t /\ j = (j - Len(s)) + Len(s)
    BY <1>2, <2>1
  <2> QED
    BY <2>2
<1>5. \A i \in DOMAIN s : i \in DOMAIN (s \o t) /\ (s \o t)[i] = s[i]
  BY <1>1, <1>2
<1> QED
  BY <1>1, <1>3, <1>4, <1>5

(* The calls in progress that a new context suspends, and their return. *)
LEMMA RestoreFacts ==
  ASSUME IInv, NEW op \in {"endContext", "endLoop"}, NEW n \in DOMAIN ast
  PROVE  /\ Restore(op, n) \in Item /\ <<Restore(op, n)>> \in Seq(Item)
         /\ Restore(op, n).op = op /\ Restore(op, n).node = n
         /\ Restore(op, n).thread = curThread /\ Restore(op, n).loop = curLoop
         /\ Restore(op, n).own = nextThread
BY DEF Restore, Item, Ops, IInv, ContextOK

(* The items of the steps that open a scope or a context: plain ones, a    *)
(* return from the scope, a return from the context.                       *)
LEMMA OpeningItems ==
  ASSUME IInv, NEW n \in DOMAIN ast, NEW s, Plain(s, n), NEW t \in Seq(Item),
         \A i \in DOMAIN t : Fits(t[i])
  PROVE  /\ s \o t \in Seq(Item)
         /\ \A i \in DOMAIN (s \o t) : Fits((s \o t)[i])
<1>1. s \in Seq(Item) /\ \A i \in DOMAIN s : Fits(s[i])
  BY PlainFits
<1>2. \A i \in DOMAIN (s \o t) :
        \/ i \in DOMAIN s /\ (s \o t)[i] = s[i]
        \/ \E j \in DOMAIN t : (s \o t)[i] = t[j]
  <2> SUFFICES ASSUME NEW i \in DOMAIN (s \o t)
               PROVE  \/ i \in DOMAIN s /\ (s \o t)[i] = s[i]
                      \/ \E j \in DOMAIN t : (s \o t)[i] = t[j]
    OBVIOUS
  <2>1. i \in DOMAIN s \/ \E j \in DOMAIN t : i = j + Len(s)
    BY <1>1, AppendedItems
  <2> QED
    BY <1>1, <2>1, AppendedItems
<1> QED
  BY <1>1, <1>2, AppendedItems

LEMMA LeaveFits ==
  ASSUME ast \in Programs, NEW n \in DOMAIN ast
  PROVE  /\ Do("leave", n) \in Item /\ <<Do("leave", n)>> \in Seq(Item)
         /\ Fits(Do("leave", n))
<1>1. ast[n].kind \in Kinds
  BY KidKinds
<1> QED
  BY <1>1, DoType, DoFields DEF Fits, Place, Ops

LEMMA ShapeStep ==
  ASSUME WalkInv, StepKinds
  PROVE  ShapeOK' /\ FunctionsAreFunctions'
<1> DEFINE n == work[1].node
<1>1. work \in Seq(Item) /\ ast \in Programs /\ IInv
  BY DEF WalkInv, IInv, WorkOK
<1>2. ASSUME UNCHANGED <<ast, functions>> PROVE FunctionsAreFunctions'
  BY <1>2 DEF WalkInv, FunctionsAreFunctions
<1>3. CASE StopStep \/ UNCHANGED vars
  <2>1. UNCHANGED <<ast, work, types, scopes, curThread, curLoop, functions>>
    BY <1>3, StopFacts
  <2>2. ShapeOK'
    BY <2>1 DEF WalkInv, ShapeOK, First, Fits, Do
  <2> QED
    BY <1>2, <2>1, <2>2
<1>4. CASE QuietStep
  <2>1. /\ work # <<>> /\ QuietItem(work[1]) /\ Continue(Calls(work[1]))
        /\ work[1].op = "stmt" => ast[n].kind # "program"
        /\ UNCHANGED <<ast, status, context, functions>>
    BY <1>1, <1>4, QuietCalls
  <2>2. Plain(Calls(work[1]), n)
    BY <1>1, <2>1, PlainCalls
  <2>3. \A i \in DOMAIN work : Fits(work[i])
    BY <2>1, PastFirst DEF WalkInv
  <2> QED
    BY <1>1, <1>2, <2>1, <2>2, <2>3, PlainFits, FitsContinue
<1>5. CASE EnterStep
  <2>1. /\ work # <<>> /\ n \in DOMAIN ast
        /\ \A i \in DOMAIN work : i # 1 => Fits(work[i])
        /\ Plain(Each("stmt", ast[n].kids), n)
        /\ Continue(Each("stmt", ast[n].kids) \o <<Do("leave", n)>>)
        /\ ast' = ast
    BY <1>5, EnterFacts
  <2> DEFINE s == Each("stmt", ast[n].kids)
             t == <<Do("leave", n)>>
  <2>2. t \in Seq(Item) /\ \A i \in DOMAIN t : Fits(t[i])
    BY <1>1, <2>1, LeaveFits
  <2> HIDE DEF s, t
  <2>3. s \o t \in Seq(Item) /\ \A i \in DOMAIN (s \o t) : Fits((s \o t)[i])
    BY <1>1, <2>1, <2>2, OpeningItems DEF s
  <2>4. ShapeOK'
    BY <1>1, <2>1, <2>3, FitsContinue DEF s, t
  <2>5. FunctionsAreFunctions'
    <3>1. CASE Program \/ Block
      BY <1>2, <3>1 DEF Program, Block
    <3>2. CASE Function
      <4>1. ast[n].kind = "func"
        BY <3>2 DEF Function, At, nd
      <4>2. functions \in Seq(DOMAIN ast)
        BY <1>1 DEF IInv, FunctionsOK
      <4>3. functions' = functions \/ functions' = Append(functions, n)
        BY <3>2 DEF Function
      <4>4. \A i \in DOMAIN functions' : functions'[i] = n \/ (i \in DOMAIN functions /\ functions'[i] = functions[i])
        BY <2>1, <4>2, <4>3
      <4> QED
        BY <2>1, <4>1, <4>4 DEF WalkInv, FunctionsAreFunctions
    <3> QED
      BY <1>5, <3>1, <3>2 DEF EnterStep
  <2> QED
    BY <2>4, <2>5
<1>6. CASE ThreadBlock
  <2>1. /\ work # <<>> /\ n \in DOMAIN ast /\ ast[n].kind = "thread"
        /\ \A i \in DOMAIN work : Fits(work[i])
        /\ Plain(Each("stmt", ast[n].kids), n)
        /\ Continue(Each("stmt", ast[n].kids) \o <<Restore("endContext", n)>>)
        /\ UNCHANGED <<ast, functions>>
    BY <1>6, ThreadBlockFacts
  <2> DEFINE s == Each("stmt", ast[n].kids)
             t == <<Restore("endContext", n)>>
  <2>2. t \in Seq(Item) /\ \A i \in DOMAIN t : Fits(t[i])
    <3>1. Restore("endContext", n) \in Item /\ Fits(Restore("endContext", n))
      BY <1>1, <2>1, RestoreFacts DEF Fits, Place
    <3> QED
      BY <3>1, FittingItems
  <2> HIDE DEF s, t
  <2>3. s \o t \in Seq(Item) /\ \A i \in DOMAIN (s \o t) : Fits((s \o t)[i])
    BY <1>1, <2>1, <2>2, OpeningItems DEF s
  <2> QED
    BY <1>1, <1>2, <2>1, <2>3, FitsContinue DEF s, t
<1>7. CASE Launch
  <2>1. /\ work # <<>> /\ n \in DOMAIN ast /\ ast[n].kind = "call"
        /\ \A i \in DOMAIN work : Fits(work[i])
        /\ UNCHANGED <<ast, functions>>
    BY <1>7, LaunchFacts
  <2>2. PICK h \in DOMAIN ast :
          /\ Plain(Each("stmt", ast[h].kids), h)
          /\ Continue(Each("stmt", ast[h].kids)
                        \o <<Do("leave", h), Restore("endContext", n)>>)
    BY <1>7, LaunchFacts
  <2> DEFINE s == Each("stmt", ast[h].kids)
             t == <<Do("leave", h), Restore("endContext", n)>>
  <2>3. /\ Do("leave", h) \in Item /\ Fits(Do("leave", h))
        /\ Restore("endContext", n) \in Item /\ Fits(Restore("endContext", n))
    <3>1. Do("leave", h) \in Item /\ Fits(Do("leave", h))
      BY <1>1, <2>2, LeaveFits
    <3>2. Restore("endContext", n) \in Item /\ Fits(Restore("endContext", n))
      BY <1>1, <2>1, RestoreFacts DEF Fits, Place
    <3> QED
      BY <3>1, <3>2
  <2>4. t \in Seq(Item) /\ \A i \in DOMAIN t : Fits(t[i])
    BY <2>3
  <2> HIDE DEF s, t
  <2>5. s \o t \in Seq(Item) /\ \A i \in DOMAIN (s \o t) : Fits((s \o t)[i])
    BY <1>1, <2>1, <2>2, <2>4, OpeningItems DEF s
  <2> QED
    BY <1>1, <1>2, <2>1, <2>2, <2>5, FitsContinue DEF s, t
<1>8. CASE ThreadedBody
  <2>1. /\ work # <<>> /\ n \in ThreadedLoops /\ ast[n].kids[4] \in DOMAIN ast
        /\ ast[ast[n].kids[4]].kind = "block"
        /\ \A i \in DOMAIN work : Fits(work[i])
        /\ Continue(<<Do("stmt", ast[n].kids[4]), Restore("endLoop", n)>>)
        /\ UNCHANGED <<ast, functions>>
    BY <1>8, ThreadedBodyFacts
  <2> DEFINE t == <<Do("stmt", ast[n].kids[4]), Restore("endLoop", n)>>
  <2>2. n \in DOMAIN ast /\ ast[n].kind = "for" /\ ast[n].par = "thread"
    BY <2>1 DEF ThreadedLoops
  <2>3. /\ Restore("endLoop", n) \in Item /\ Fits(Restore("endLoop", n))
    BY <1>1, <2>2, RestoreFacts DEF Fits, Place
  <2>4. Do("stmt", ast[n].kids[4]) \in Item /\ Fits(Do("stmt", ast[n].kids[4]))
    <3>1. Do("stmt", ast[n].kids[4]) \in Item
      BY <2>1, DoType DEF Ops
    <3>2. Place("stmt") = StmtKinds \cup {"block"}
      BY DEF Place
    <3>3. Do("stmt", ast[n].kids[4]).op = "stmt" /\ Do("stmt", ast[n].kids[4]).node = ast[n].kids[4]
      BY DoFields
    <3> QED
      BY <2>1, <3>1, <3>2, <3>3 DEF Fits
  <2>5. t \in Seq(Item) /\ \A i \in DOMAIN t : Fits(t[i])
    BY <2>3, <2>4, FittingItems
  <2> HIDE DEF t
  <2> QED
    BY <1>1, <1>2, <2>1, <2>5, FitsContinue DEF t
<1>9. CASE Leave \/ EndLoop \/ EndContext
  <2>1. /\ work # <<>> /\ Continue(<<>>) /\ UNCHANGED <<ast, functions>>
        /\ \A i \in DOMAIN work : Fits(work[i])
    BY <1>9, ReturnFacts
  <2>2. <<>> \in Seq(Item) /\ \A i \in DOMAIN <<>> : Fits(<<>>[i])
    BY NoItems
  <2> QED
    BY <1>1, <1>2, <2>1, <2>2, FitsContinue
<1> QED
  BY <1>3, <1>4, <1>5, <1>6, <1>7, <1>8, <1>9 DEF StepKinds

LEMMA InitWalk == Init => WalkInv
<1> SUFFICES ASSUME Init PROVE WalkInv
  OBVIOUS
<1>1. First /\ functions = <<>>
  BY DEF Init, First
<1> QED
  BY <1>1, InitInvariant DEF WalkInv, ShapeOK, FunctionsAreFunctions

LEMMA NextWalk == WalkInv /\ [Next]_vars => WalkInv'
BY EveryStep, ShapeStep, NextInvariant DEF WalkInv

-----------------------------------------------------------------------------
(* The contexts of the calls in progress *)

(* The current context and every suspended one differ, the newest first:   *)
(* what the proofs about the frames of the walk use.                       *)
ContextsOrdered ==
  /\ curThread < nextThread
  /\ \A i \in Saved : work[i].thread < curThread
  /\ \A i, j \in Saved : i < j => work[i].thread > work[j].thread

(* The steps that leave the contexts alone. *)
LEMMA NestKept ==
  ASSUME IInv, ContextsOrdered, work # <<>>, NEW items \in Seq(Item), Continue(items),
         \A i \in DOMAIN items : items[i].op \notin {"endContext", "endLoop"},
         UNCHANGED <<curThread, nextThread>>
  PROVE  ContextsOrdered'
<1>1. work \in Seq(Item) /\ Len(work) \in Nat /\ Len(items) \in Nat
  BY DEF IInv, WorkOK
<1>2. ASSUME NEW j \in Saved'
      PROVE  \E i \in Saved : i # 1 /\ j = i + Len(items) - 1 /\ work'[j] = work[i]
  <2>1. j \in DOMAIN work' /\ work'[j].op \in {"endContext", "endLoop"}
    BY DEF Saved
  <2>2. j \notin DOMAIN items
    BY <1>1, <2>1, ContinueAt
  <2>3. PICK i \in DOMAIN work : i # 1 /\ j = i + Len(items) - 1
    BY <1>1, <2>1, <2>2, ContinueAt
  <2>4. work'[j] = work[i]
    BY <1>1, <2>3, ContinueAt
  <2> QED
    BY <2>1, <2>3, <2>4 DEF Saved
<1>3. \A i \in Saved : i \in Nat
  BY <1>1 DEF Saved
<1>4. \A j \in Saved' : work'[j].thread < curThread
  BY <1>2 DEF ContextsOrdered
<1>5. ASSUME NEW j \in Saved', NEW k \in Saved', j < k
      PROVE  work'[j].thread > work'[k].thread
  <2>1. PICK a \in Saved : j = a + Len(items) - 1 /\ work'[j] = work[a]
    BY <1>2
  <2>2. PICK b \in Saved : k = b + Len(items) - 1 /\ work'[k] = work[b]
    BY <1>2
  <2>3. a < b
    BY <1>1, <1>3, <1>5, <2>1, <2>2
  <2> QED
    BY <2>1, <2>2, <2>3 DEF ContextsOrdered
<1> QED
  BY <1>4, <1>5 DEF ContextsOrdered

(* The steps that suspend the current context and open another one. *)
LEMMA NestOpened ==
  ASSUME IInv, ContextsOrdered, work # <<>>, NEW items \in Seq(Item), Continue(items),
         NEW last \in DOMAIN items, items[last].thread = curThread,
         \A i \in DOMAIN items :
           items[i].op \in {"endContext", "endLoop"} => i = last,
         NewContext
  PROVE  ContextsOrdered'
<1>1. /\ work \in Seq(Item) /\ Len(work) \in Nat /\ Len(items) \in Nat
      /\ curThread \in Nat /\ nextThread \in Nat
  BY DEF IInv, WorkOK, ContextOK
<1>2. curThread' = nextThread /\ nextThread' = nextThread + 1 /\ curThread < nextThread
  BY DEF NewContext, ContextsOrdered
<1>3. ASSUME NEW j \in Saved'
      PROVE  \/ j = last /\ work'[j].thread = curThread
             \/ \E i \in Saved : i # 1 /\ j = i + Len(items) - 1 /\ work'[j] = work[i]
  <2>1. j \in DOMAIN work' /\ work'[j].op \in {"endContext", "endLoop"}
    BY DEF Saved
  <2>2. CASE j \in DOMAIN items
    BY <1>1, <2>1, <2>2, ContinueAt
  <2>3. CASE j \notin DOMAIN items
    <3>1. PICK i \in DOMAIN work : i # 1 /\ j = i + Len(items) - 1
      BY <1>1, <2>1, <2>3, ContinueAt
    <3>2. work'[j] = work[i]
      BY <1>1, <3>1, ContinueAt
    <3> QED
      BY <2>1, <3>1, <3>2 DEF Saved
  <2> QED
    BY <2>2, <2>3
<1>4. \A i \in Saved : i \in Nat /\ i >= 1 /\ work[i].thread \in Nat /\ work[i].thread < curThread
  <2>1. \A i \in DOMAIN work : work[i].thread \in Nat /\ i \in Nat /\ i >= 1
    <3>1. \A i \in DOMAIN work : work[i] \in Item /\ i \in Nat /\ i >= 1
      BY <1>1
    <3> QED
      BY <3>1 DEF Item
  <2> QED
    BY <2>1 DEF Saved, ContextsOrdered
<1>5. \A j \in Saved' : work'[j].thread < curThread'
  BY <1>1, <1>2, <1>3, <1>4
<1>6. ASSUME NEW j \in Saved', NEW k \in Saved', j < k
      PROVE  work'[j].thread > work'[k].thread
  <2>1. CASE j = last
    <3>1. k # last
      BY <1>1, <1>6, <2>1
    <3>2. PICK b \in Saved : b # 1 /\ k = b + Len(items) - 1 /\ work'[k] = work[b]
      BY <1>3, <3>1
    <3>3. work'[j].thread = curThread
      <4>1. ~(\E i \in Saved : i # 1 /\ j = i + Len(items) - 1)
        BY <1>1, <1>4, <2>1
      <4> QED
        BY <1>3, <4>1
    <3> QED
      BY <1>1, <1>4, <3>2, <3>3
  <2>2. CASE j # last
    <3>1. PICK a \in Saved : a # 1 /\ j = a + Len(items) - 1 /\ work'[j] = work[a]
      BY <1>3, <2>2
    <3>2. k # last
      BY <1>1, <1>4, <1>6, <3>1
    <3>3. PICK b \in Saved : b # 1 /\ k = b + Len(items) - 1 /\ work'[k] = work[b]
      BY <1>3, <3>2
    <3>4. a < b
      BY <1>1, <1>4, <1>6, <3>1, <3>3
    <3> QED
      BY <3>1, <3>3, <3>4 DEF ContextsOrdered
  <2> QED
    BY <2>1, <2>2
<1>7. curThread' < nextThread'
  BY <1>1, <1>2
<1> QED
  BY <1>5, <1>6, <1>7 DEF ContextsOrdered

(* The returns that resume the newest suspended context. *)
LEMMA NestClosed ==
  ASSUME IInv, ContextsOrdered, work # <<>>, Continue(<<>>),
         work[1].op \in {"endContext", "endLoop"},
         curThread' = work[1].thread, nextThread' = nextThread
  PROVE  ContextsOrdered'
<1>1. /\ work \in Seq(Item) /\ Len(work) \in Nat /\ <<>> \in Seq(Item) /\ Len(<<>>) = 0
      /\ curThread \in Nat /\ nextThread \in Nat /\ 1 \in DOMAIN work
  BY DEF IInv, WorkOK, ContextOK
<1>2. ASSUME NEW j \in Saved'
      PROVE  \E i \in Saved : i # 1 /\ j = i - 1 /\ work'[j] = work[i]
  <2>1. j \in DOMAIN work' /\ work'[j].op \in {"endContext", "endLoop"}
    BY DEF Saved
  <2>2. PICK i \in DOMAIN work : i # 1 /\ j = i + Len(<<>>) - 1
    <3>1. j \notin DOMAIN <<>>
      OBVIOUS
    <3> QED
      BY <1>1, <2>1, <3>1, ContinueAt
  <2>3. work'[j] = work[i]
    BY <1>1, <2>2, ContinueAt
  <2> QED
    BY <1>1, <2>1, <2>2, <2>3 DEF Saved
<1>3. \A i \in Saved : i \in Nat /\ i >= 1 /\ work[i].thread \in Nat
  <2>1. \A i \in DOMAIN work : work[i].thread \in Nat /\ i \in Nat /\ i >= 1
    <3>1. \A i \in DOMAIN work : work[i] \in Item /\ i \in Nat /\ i >= 1
      BY <1>1
    <3> QED
      BY <3>1 DEF Item
  <2> QED
    BY <2>1 DEF Saved
<1>4. 1 \in Saved
  BY <1>1 DEF Saved
<1>5. \A j \in Saved' : work'[j].thread < curThread'
  <2> SUFFICES ASSUME NEW j \in Saved' PROVE work'[j].thread < curThread'
    OBVIOUS
  <2>1. PICK i \in Saved : i # 1 /\ work'[j] = work[i]
    BY <1>2
  <2>2. 1 < i
    BY <1>3, <2>1
  <2>3. work[1].thread > work[i].thread
    BY <1>4, <2>2 DEF ContextsOrdered
  <2> QED
    BY <1>3, <1>4, <2>1, <2>3
<1>6. ASSUME NEW j \in Saved', NEW k \in Saved', j < k
      PROVE  work'[j].thread > work'[k].thread
  <2>1. PICK a \in Saved : j = a - 1 /\ work'[j] = work[a]
    BY <1>2
  <2>2. PICK b \in Saved : k = b - 1 /\ work'[k] = work[b]
    BY <1>2
  <2>3. a < b
    BY <1>3, <1>6, <2>1, <2>2
  <2> QED
    BY <2>1, <2>2, <2>3 DEF ContextsOrdered
<1>7. curThread' < nextThread'
  <2>1. work[1].thread < curThread
    BY <1>4 DEF ContextsOrdered
  <2>2. curThread < nextThread
    BY DEF ContextsOrdered
  <2> QED
    BY <1>1, <1>3, <1>4, <2>1, <2>2
<1> QED
  BY <1>5, <1>6, <1>7 DEF ContextsOrdered

LEMMA NestStep ==
  ASSUME WalkInv, ContextsOrdered, StepKinds
  PROVE  ContextsOrdered'
<1> DEFINE n == work[1].node
<1>1. work \in Seq(Item) /\ ast \in Programs /\ IInv
  BY DEF WalkInv, IInv, WorkOK
<1>2. CASE StopStep \/ UNCHANGED vars
  <2>1. UNCHANGED <<work, curThread, nextThread>>
    BY <1>2, StopFacts
  <2> QED
    BY <2>1 DEF ContextsOrdered, Saved
<1>3. CASE QuietStep
  <2>1. /\ work # <<>> /\ QuietItem(work[1]) /\ Continue(Calls(work[1]))
        /\ UNCHANGED <<curThread, nextThread>>
    BY <1>1, <1>3, QuietCalls DEF context
  <2>2. Plain(Calls(work[1]), n)
    BY <1>1, <2>1, PlainCalls
  <2>3. \A i \in DOMAIN Calls(work[1]) : Calls(work[1])[i].op \notin {"endContext", "endLoop"}
    BY <2>2, PlainFits DEF PlainOps
  <2> QED
    BY <1>1, <2>1, <2>2, <2>3, PlainFits, NestKept
<1>4. CASE EnterStep
  <2> DEFINE s == Each("stmt", ast[n].kids)
             t == <<Do("leave", n)>>
  <2>1. /\ work # <<>> /\ n \in DOMAIN ast /\ Plain(s, n) /\ Continue(s \o t)
        /\ UNCHANGED <<curThread, nextThread>>
    BY <1>4, EnterFacts DEF context
  <2>2. t \in Seq(Item) /\ \A i \in DOMAIN t : t[i].op = "leave"
    BY <1>1, <2>1, LeaveFits, DoFields
  <2> HIDE DEF s, t
  <2>3. \A j \in DOMAIN (s \o t) : (s \o t)[j].op \notin {"endContext", "endLoop"}
    <3> SUFFICES ASSUME NEW j \in DOMAIN (s \o t)
                 PROVE  (s \o t)[j].op \notin {"endContext", "endLoop"}
      OBVIOUS
    <3>1. j \in DOMAIN s \/ \E i \in DOMAIN t : j = i + Len(s)
      BY <2>1, <2>2, PlainFits, AppendedItems
    <3>2. (s \o t)[j].op \in PlainOps \/ (s \o t)[j].op = "leave"
      BY <2>1, <2>2, <3>1, PlainFits, AppendedItems
    <3> QED
      BY <3>2 DEF PlainOps
  <2>4. s \o t \in Seq(Item)
    BY <2>1, <2>2, PlainFits, AppendedItems
  <2> QED
    BY <1>1, <2>1, <2>3, <2>4, NestKept
<1>5. CASE ThreadBlock
  <2> DEFINE s == Each("stmt", ast[n].kids)
             t == <<Restore("endContext", n)>>
  <2>1. /\ work # <<>> /\ n \in DOMAIN ast /\ Plain(s, n) /\ Continue(s \o t) /\ NewContext
    BY <1>5, ThreadBlockFacts
  <2>2. t \in Seq(Item) /\ DOMAIN t = {1} /\ t[1].thread = curThread
    BY <1>1, <2>1, RestoreFacts
  <2> HIDE DEF s, t
  <2>3. s \in Seq(Item) /\ \A i \in DOMAIN s : s[i].op \in PlainOps
    BY <2>1, PlainFits
  <2>4. /\ s \o t \in Seq(Item) /\ 1 + Len(s) \in DOMAIN (s \o t)
        /\ (s \o t)[1 + Len(s)].thread = curThread
    BY <2>2, <2>3, AppendedItems
  <2>5. \A j \in DOMAIN (s \o t) :
          (s \o t)[j].op \in {"endContext", "endLoop"} => j = 1 + Len(s)
    <3> SUFFICES ASSUME NEW j \in DOMAIN (s \o t), j # 1 + Len(s)
                 PROVE  (s \o t)[j].op \notin {"endContext", "endLoop"}
      OBVIOUS
    <3>1. j \in DOMAIN s
      BY <2>2, <2>3, AppendedItems
    <3>2. (s \o t)[j].op \in PlainOps
      BY <2>2, <2>3, <3>1, AppendedItems
    <3> QED
      BY <3>2 DEF PlainOps
  <2> QED
    BY <1>1, <2>1, <2>4, <2>5, NestOpened
<1>6. CASE Launch
  <2>1. work # <<>> /\ n \in DOMAIN ast /\ NewContext
    BY <1>6, LaunchFacts
  <2>2. PICK h \in DOMAIN ast :
          /\ Plain(Each("stmt", ast[h].kids), h)
          /\ Continue(Each("stmt", ast[h].kids)
                        \o <<Do("leave", h), Restore("endContext", n)>>)
    BY <1>6, LaunchFacts
  <2> DEFINE s == Each("stmt", ast[h].kids)
             t == <<Do("leave", h), Restore("endContext", n)>>
  <2>3. t \in Seq(Item) /\ DOMAIN t = {1, 2} /\ t[1].op = "leave" /\ t[2].thread = curThread
    <3>1. Do("leave", h) \in Item /\ Do("leave", h).op = "leave"
      BY <1>1, <2>2, LeaveFits, DoFields
    <3>2. Restore("endContext", n) \in Item /\ Restore("endContext", n).thread = curThread
      BY <1>1, <2>1, RestoreFacts
    <3> QED
      BY <3>1, <3>2
  <2> HIDE DEF s, t
  <2>4. s \in Seq(Item) /\ \A i \in DOMAIN s : s[i].op \in PlainOps
    BY <2>2, PlainFits DEF s
  <2>5. /\ s \o t \in Seq(Item) /\ 2 + Len(s) \in DOMAIN (s \o t)
        /\ (s \o t)[2 + Len(s)].thread = curThread
    BY <2>3, <2>4, AppendedItems
  <2>6. \A j \in DOMAIN (s \o t) :
          (s \o t)[j].op \in {"endContext", "endLoop"} => j = 2 + Len(s)
    <3> SUFFICES ASSUME NEW j \in DOMAIN (s \o t), j # 2 + Len(s)
                 PROVE  (s \o t)[j].op \notin {"endContext", "endLoop"}
      OBVIOUS
    <3>1. j \in DOMAIN s \/ j = 1 + Len(s)
      <4>1. s \in Seq(Item) /\ t \in Seq(Item)
        BY <2>3, <2>4
      <4>2. j \in DOMAIN s \/ \E i \in DOMAIN t : j = i + Len(s)
        BY <4>1, AppendedItems
      <4> QED
        BY <2>3, <4>2
    <3>2. (s \o t)[j].op \in PlainOps \/ (s \o t)[j].op = "leave"
      BY <2>3, <2>4, <3>1, AppendedItems
    <3> QED
      BY <3>2 DEF PlainOps
  <2> QED
    BY <1>1, <2>1, <2>2, <2>5, <2>6, NestOpened DEF s, t
<1>7. CASE ThreadedBody
  <2>1. /\ work # <<>> /\ n \in ThreadedLoops /\ ast[n].kids[4] \in DOMAIN ast /\ NewContext
        /\ Continue(<<Do("stmt", ast[n].kids[4]), Restore("endLoop", n)>>)
    BY <1>7, ThreadedBodyFacts
  <2> DEFINE t == <<Do("stmt", ast[n].kids[4]), Restore("endLoop", n)>>
  <2>2. n \in DOMAIN ast
    BY <2>1 DEF ThreadedLoops
  <2>3. Do("stmt", ast[n].kids[4]) \in Item /\ Do("stmt", ast[n].kids[4]).op = "stmt"
    BY <2>1, DoType, DoFields DEF Ops
  <2>4. Restore("endLoop", n) \in Item /\ Restore("endLoop", n).thread = curThread
    BY <1>1, <2>2, RestoreFacts
  <2>5. /\ t \in Seq(Item) /\ DOMAIN t = {1, 2} /\ t[1].op = "stmt" /\ t[2].thread = curThread
    BY <2>3, <2>4
  <2> HIDE DEF t
  <2>6. 2 \in DOMAIN t /\ \A i \in DOMAIN t : t[i].op \in {"endContext", "endLoop"} => i = 2
    BY <2>5
  <2>7. Continue(t) /\ work # <<>> /\ NewContext /\ t \in Seq(Item) /\ t[2].thread = curThread
    BY <2>1, <2>5 DEF t
  <2> QED
    BY <1>1, <2>6, <2>7, NestOpened
<1>8. CASE Leave
  <2>1. work # <<>> /\ Continue(<<>>) /\ UNCHANGED <<curThread, nextThread>>
    BY <1>8, ReturnFacts DEF context
  <2>2. \A i \in DOMAIN <<>> : <<>>[i].op \notin {"endContext", "endLoop"}
    OBVIOUS
  <2> QED
    BY <1>1, <2>1, <2>2, NoItems, NestKept
<1>9. CASE EndLoop \/ EndContext
  <2>1. /\ work # <<>> /\ Continue(<<>>) /\ work[1].op \in {"endContext", "endLoop"}
        /\ curThread' = work[1].thread /\ nextThread' = nextThread
    BY <1>9, ReturnFacts
  <2> QED
    BY <1>1, <2>1, NestClosed
<1> QED
  BY <1>2, <1>3, <1>4, <1>5, <1>6, <1>7, <1>8, <1>9 DEF StepKinds

-----------------------------------------------------------------------------
(* Every statement is analyzed in the context that its innermost call began *)

AllFrom(S, m) == S \in SUBSET Nat /\ \A i \in S : m <= i

(* The members of S from 2 on are those of T from 2 + d on, moved by d with *)
(* their values: the calls below the head when a step replaces the head.    *)
CarriedOver(S, T, v, w, d) ==
  /\ S \in SUBSET Nat /\ T \in SUBSET Nat
  /\ \A i \in S : 2 <= i => i + d \in T /\ w[i + d] = v[i]
  /\ \A j \in T : 2 + d <= j => j - d \in S

(* Nothing that is left out lies between the two positions. *)
LEMMA InnermostPast ==
  ASSUME NEW S, AllFrom(S, 1), NEW v, NEW k \in Nat, NEW m \in Nat, NEW c, k <= m,
         AllFrom(S, m)
  PROVE  Innermost(S, v, k, c) <=> Innermost(S, v, m, c)
<1>1. \A i \in S : i \in Nat /\ m <= i /\ k <= i
  BY DEF AllFrom
<1> QED
  BY <1>1 DEF Innermost

(* A call of its own first. *)
LEMMA InnermostFirst ==
  ASSUME NEW S \in SUBSET Nat, NEW v, NEW k \in Nat, k \in S
  PROVE  Innermost(S, v, k, v[k])
BY DEF Innermost

(* The calls below the head keep their order. *)
LEMMA InnermostMoved ==
  ASSUME NEW S, NEW T, NEW v, NEW w, NEW d \in Int, d >= -1, CarriedOver(S, T, v, w, d),
         NEW k \in Nat, k >= 2, NEW c, Innermost(S, v, k, c)
  PROVE  Innermost(T, w, k + d, c)
<1>1. S \in SUBSET Nat /\ T \in SUBSET Nat
  BY DEF CarriedOver
<1>2. ASSUME NEW j \in T, k + d <= j PROVE j - d \in S /\ k <= j - d /\ j \in Nat
  <2>1. j \in Nat
    BY <1>1
  <2>2. 2 + d <= j /\ k <= j - d
    BY <1>2, <2>1
  <2> QED
    BY <2>1, <2>2 DEF CarriedOver
<1>3. CASE c = 0 /\ \A i \in S : i < k
  <2>1. ASSUME NEW j \in T PROVE j < k + d
    <3>1. CASE k + d <= j
      <4>1. j - d \in S /\ k <= j - d /\ j \in Nat
        BY <1>2, <3>1
      <4>2. j - d < k
        BY <1>3, <4>1
      <4> QED
        BY <4>1, <4>2
    <3>2. j \in Nat
      BY <1>1
    <3> QED
      BY <3>1, <3>2
  <2> QED
    BY <1>3, <2>1 DEF Innermost
<1>4. ASSUME NEW i \in S, k <= i, c = v[i], \A j \in S : k <= j => i <= j
      PROVE  Innermost(T, w, k + d, c)
  <2>1. i \in Nat /\ 2 <= i
    BY <1>1, <1>4
  <2>2. i + d \in T /\ w[i + d] = v[i]
    BY <2>1 DEF CarriedOver
  <2>3. k + d <= i + d
    BY <1>4, <2>1
  <2>4. ASSUME NEW j \in T, k + d <= j PROVE i + d <= j
    <3>1. j - d \in S /\ k <= j - d /\ j \in Nat
      BY <1>2, <2>4
    <3>2. i <= j - d
      BY <1>4, <3>1
    <3> QED
      BY <2>1, <3>1, <3>2
  <2> QED
    BY <1>4, <2>2, <2>3, <2>4 DEF Innermost
<1> QED
  BY <1>3, <1>4 DEF Innermost

(* A step that neither begins nor ends a call. *)
LEMMA InnermostHere ==
  ASSUME NEW S, NEW T, NEW v, NEW w, NEW L \in Nat, CarriedOver(S, T, v, w, L - 1),
         AllFrom(S, 2), AllFrom(T, L + 1), NEW c, Innermost(S, v, 1, c)
  PROVE  Innermost(T, w, 1, c)
<1>1. AllFrom(S, 1) /\ AllFrom(T, 1)
  BY DEF AllFrom
<1>2. Innermost(S, v, 2, c)
  BY <1>1, InnermostPast
<1>3. L - 1 \in Int /\ L - 1 >= -1 /\ 2 + (L - 1) = L + 1 /\ L + 1 \in Nat /\ 1 <= L + 1
  OBVIOUS
<1>4. Innermost(T, w, 2 + (L - 1), c)
  BY <1>2, <1>3, InnermostMoved
<1> QED
  BY <1>1, <1>3, <1>4, InnermostPast

(* A step that begins one, which its last item ends. *)
LEMMA InnermostBegun ==
  ASSUME NEW S, NEW T, NEW v, NEW w, NEW L \in Nat, L >= 1, CarriedOver(S, T, v, w, L - 1),
         AllFrom(S, 2), AllFrom(T, L), L \in T, NEW c, Innermost(S, v, 1, c)
  PROVE  Innermost(T, w, 1, w[L]) /\ Innermost(T, w, L + 1, c)
<1>1. AllFrom(S, 1) /\ AllFrom(T, 1) /\ T \in SUBSET Nat
  BY DEF AllFrom
<1>2. Innermost(S, v, 2, c)
  BY <1>1, InnermostPast
<1>3. L - 1 \in Int /\ L - 1 >= -1 /\ 2 + (L - 1) = L + 1
  OBVIOUS
<1>4. Innermost(T, w, 2 + (L - 1), c)
  BY <1>2, <1>3, InnermostMoved
<1>5. Innermost(T, w, L, w[L])
  BY <1>1, InnermostFirst
<1>6. Innermost(T, w, 1, w[L])
  BY <1>1, <1>5, InnermostPast
<1> QED
  BY <1>3, <1>4, <1>6

(* Where the calls in progress are after a step. *)
OwnOf  == [i \in Saved |-> work[i].own]
NodeOf == [i \in SavedLoops |-> work[i].node]

LEMMA CallsMoved ==
  ASSUME IInv, work # <<>>, NEW items \in Seq(Item), Continue(items)
  PROVE  /\ CarriedOver(Saved, Saved', OwnOf, OwnOf', Len(items) - 1)
         /\ CarriedOver(SavedLoops, SavedLoops', NodeOf, NodeOf', Len(items) - 1)
         /\ \A j \in Saved' : Len(items) < j => j - (Len(items) - 1) \in Saved /\ j - (Len(items) - 1) >= 2
                                                /\ work'[j] = work[j - (Len(items) - 1)]
         /\ \A j \in SavedLoops' : Len(items) < j =>
              /\ j - (Len(items) - 1) \in SavedLoops /\ j - (Len(items) - 1) >= 2
              /\ work'[j] = work[j - (Len(items) - 1)]
         /\ AllFrom(Saved, 1) /\ AllFrom(Saved', 1)
         /\ AllFrom(SavedLoops, 1) /\ AllFrom(SavedLoops', 1)
<1> DEFINE d == Len(items) - 1
<1>1. /\ work \in Seq(Item) /\ Len(work) \in Nat /\ Len(items) \in Nat /\ d \in Int
      /\ DOMAIN work = 1 .. Len(work) /\ DOMAIN items = 1 .. Len(items)
  BY DEF IInv, WorkOK
<1>2. /\ \A j \in DOMAIN work' :
           j \in DOMAIN items \/ \E i \in DOMAIN work : i # 1 /\ j = i + Len(items) - 1
      /\ \A i \in DOMAIN work : i # 1 =>
           i + Len(items) - 1 \in DOMAIN work' /\ work'[i + Len(items) - 1] = work[i]
      /\ work' \in Seq(Item)
  BY <1>1, ContinueAt
<1>3. \A j \in DOMAIN work' : j \in Nat /\ 1 <= j
  BY <1>2
<1>4. ASSUME NEW i \in DOMAIN work, 2 <= i
      PROVE  i + d \in DOMAIN work' /\ work'[i + d] = work[i]
  <2>1. i # 1 /\ i + d = i + Len(items) - 1
    BY <1>1, <1>4
  <2> QED
    BY <1>2, <2>1
<1>5. ASSUME NEW j \in DOMAIN work', Len(items) < j
      PROVE  j - d \in DOMAIN work /\ j - d >= 2 /\ work'[j] = work[j - d]
  <2>1. j \notin DOMAIN items
    BY <1>1, <1>5
  <2>2. PICK i \in DOMAIN work : i # 1 /\ j = i + Len(items) - 1
    BY <1>2, <2>1
  <2>3. j - d = i /\ i >= 2
    BY <1>1, <2>2
  <2> QED
    BY <1>2, <2>2, <2>3
<1>6. \A j \in Nat : 2 + d <= j <=> Len(items) < j
  BY <1>1
<1>7. /\ \A i \in Saved : i \in DOMAIN work /\ i \in Nat /\ 1 <= i
      /\ \A j \in Saved' : j \in DOMAIN work' /\ j \in Nat /\ 1 <= j
      /\ \A i \in SavedLoops : i \in DOMAIN work /\ i \in Nat /\ 1 <= i
      /\ \A j \in SavedLoops' : j \in DOMAIN work' /\ j \in Nat /\ 1 <= j
  BY <1>1, <1>3 DEF Saved, SavedLoops
<1> HIDE DEF d
<1>8. ASSUME NEW i \in Saved, 2 <= i
      PROVE  i + d \in Saved' /\ OwnOf'[i + d] = OwnOf[i]
  <2>1. i + d \in DOMAIN work' /\ work'[i + d] = work[i]
    BY <1>4, <1>7, <1>8
  <2>2. i + d \in Saved'
    BY <2>1 DEF Saved
  <2> QED
    BY <2>1, <2>2 DEF OwnOf
<1>9. ASSUME NEW i \in SavedLoops, 2 <= i
      PROVE  i + d \in SavedLoops' /\ NodeOf'[i + d] = NodeOf[i]
  <2>1. i + d \in DOMAIN work' /\ work'[i + d] = work[i]
    BY <1>4, <1>7, <1>9
  <2>2. i + d \in SavedLoops'
    BY <2>1 DEF SavedLoops
  <2> QED
    BY <2>1, <2>2 DEF NodeOf
<1>10. ASSUME NEW j \in Saved', Len(items) < j
       PROVE  j - d \in Saved /\ j - d >= 2 /\ work'[j] = work[j - d]
  BY <1>5, <1>7, <1>10 DEF Saved
<1>11. ASSUME NEW j \in SavedLoops', Len(items) < j
       PROVE  j - d \in SavedLoops /\ j - d >= 2 /\ work'[j] = work[j - d]
  BY <1>5, <1>7, <1>11 DEF SavedLoops
<1>12. CarriedOver(Saved, Saved', OwnOf, OwnOf', d)
  <2>1. \A j \in Saved' : 2 + d <= j => j - d \in Saved
    BY <1>6, <1>7, <1>10
  <2> QED
    BY <1>7, <1>8, <2>1 DEF CarriedOver
<1>13. CarriedOver(SavedLoops, SavedLoops', NodeOf, NodeOf', d)
  <2>1. \A j \in SavedLoops' : 2 + d <= j => j - d \in SavedLoops
    BY <1>6, <1>7, <1>11
  <2> QED
    BY <1>7, <1>9, <2>1 DEF CarriedOver
<1>14. /\ AllFrom(Saved, 1) /\ AllFrom(Saved', 1)
       /\ AllFrom(SavedLoops, 1) /\ AllFrom(SavedLoops', 1)
  BY <1>7 DEF AllFrom
<1> QED
  BY <1>10, <1>11, <1>12, <1>13, <1>14 DEF d

-----------------------------------------------------------------------------
(* The two halves of ContextsNest, step by step *)

LoopNest == InLoop(1, curLoop) /\ \A i \in SavedLoops : InLoop(i + 1, work[i].loop)

OwnsOrdered ==
  \A i \in Saved : /\ 0 < work[i].own /\ work[i].own < nextThread
                   /\ \A j \in Saved : i < j => work[j].own < work[i].own

ThreadNest ==
  InContext(1, curThread) /\ \A i \in Saved : InContext(i + 1, work[i].thread)

SaveOps == {"endContext", "endLoop"}

(* What is restored below the head is what it was. *)
LEMMA ThreadBelow ==
  ASSUME IInv, ThreadNest, work # <<>>, NEW items \in Seq(Item), Continue(items),
         NEW j \in Saved', Len(items) < j
  PROVE  InContext(j + 1, work[j].thread)'
<1> DEFINE d == Len(items) - 1
           i == j - d
<1>1. /\ CarriedOver(Saved, Saved', OwnOf, OwnOf', d) /\ i \in Saved /\ i >= 2
      /\ work'[j] = work[i] /\ AllFrom(Saved, 1) /\ AllFrom(Saved', 1)
  BY CallsMoved
<1>2. Len(items) \in Nat /\ i \in Nat /\ j \in Nat
  BY <1>1 DEF AllFrom
<1>3. d \in Int /\ d >= -1 /\ i + 1 \in Nat /\ i + 1 >= 2 /\ (i + 1) + d = j + 1
  BY <1>1, <1>2
<1>4. Innermost(Saved, OwnOf, i + 1, work[i].thread)
  BY <1>1 DEF ThreadNest, InContext, OwnOf
<1> HIDE DEF d, i
<1>5. Innermost(Saved', OwnOf', (i + 1) + d, work[i].thread)
  BY <1>1, <1>3, <1>4, InnermostMoved
<1> QED
  BY <1>1, <1>3, <1>5 DEF InContext, Innermost, OwnOf

(* What is restored below the head is what it was. *)
LEMMA LoopBelow ==
  ASSUME IInv, LoopNest, work # <<>>, NEW items \in Seq(Item), Continue(items),
         NEW j \in SavedLoops', Len(items) < j
  PROVE  InLoop(j + 1, work[j].loop)'
<1> DEFINE d == Len(items) - 1
           i == j - d
<1>1. /\ CarriedOver(SavedLoops, SavedLoops', NodeOf, NodeOf', d) /\ i \in SavedLoops /\ i >= 2
      /\ work'[j] = work[i] /\ AllFrom(SavedLoops, 1) /\ AllFrom(SavedLoops', 1)
  BY CallsMoved
<1>2. Len(items) \in Nat /\ i \in Nat /\ j \in Nat
  BY <1>1 DEF AllFrom
<1>3. d \in Int /\ d >= -1 /\ i + 1 \in Nat /\ i + 1 >= 2 /\ (i + 1) + d = j + 1
  BY <1>1, <1>2
<1>4. Innermost(SavedLoops, NodeOf, i + 1, work[i].loop)
  BY <1>1 DEF LoopNest, InLoop, NodeOf
<1> HIDE DEF d, i
<1>5. Innermost(SavedLoops', NodeOf', (i + 1) + d, work[i].loop)
  BY <1>1, <1>3, <1>4, InnermostMoved
<1> QED
  BY <1>1, <1>3, <1>5 DEF InLoop, Innermost, NodeOf

(* A step that neither begins nor ends a context or a threaded loop, one   *)
(* that begins one, and one that ends one.                                 *)
LEMMA ThreadHere ==
  ASSUME IInv, ThreadNest, work # <<>>, NEW items \in Seq(Item), Continue(items),
         AllFrom(Saved, 2), AllFrom(Saved', Len(items) + 1), curThread' = curThread
  PROVE  ThreadNest'
<1>1. CarriedOver(Saved, Saved', OwnOf, OwnOf', Len(items) - 1) /\ Len(items) \in Nat
  BY CallsMoved
<1>2. Innermost(Saved, OwnOf, 1, curThread)
  BY DEF ThreadNest, InContext, OwnOf
<1>3. Innermost(Saved', OwnOf', 1, curThread)
  BY <1>1, <1>2, InnermostHere
<1>4. InContext(1, curThread)'
  BY <1>3 DEF InContext, Innermost, OwnOf
<1>5. ASSUME NEW j \in Saved' PROVE InContext(j + 1, work[j].thread)'
  <2>1. Len(items) < j
    BY <1>1 DEF AllFrom
  <2> QED
    BY <2>1, ThreadBelow
<1> QED
  BY <1>4, <1>5 DEF ThreadNest

LEMMA ThreadBegun ==
  ASSUME IInv, ThreadNest, work # <<>>, NEW items \in Seq(Item), Continue(items),
         NEW L, L = Len(items), L >= 1,
         AllFrom(Saved, 2), AllFrom(Saved', L), L \in Saved',
         work'[L].thread = curThread, work'[L].own = curThread'
  PROVE  ThreadNest'
<1>1. CarriedOver(Saved, Saved', OwnOf, OwnOf', L - 1) /\ L \in Nat
  BY CallsMoved
<1>2. Innermost(Saved, OwnOf, 1, curThread)
  BY DEF ThreadNest, InContext, OwnOf
<1>3. Innermost(Saved', OwnOf', 1, OwnOf'[L]) /\ Innermost(Saved', OwnOf', L + 1, curThread)
  BY <1>1, <1>2, InnermostBegun
<1>4. OwnOf'[L] = curThread'
  BY DEF OwnOf
<1>5. InContext(1, curThread)'
  BY <1>3, <1>4 DEF InContext, Innermost, OwnOf
<1>6. InContext(L + 1, work[L].thread)'
  BY <1>3 DEF InContext, Innermost, OwnOf
<1>7. ASSUME NEW j \in Saved' PROVE InContext(j + 1, work[j].thread)'
  <2>1. CASE j = L
    BY <1>6, <2>1
  <2>2. CASE j # L
    <3>1. Len(items) < j
      BY <1>1, <2>2 DEF AllFrom
    <3> QED
      BY <3>1, ThreadBelow
  <2> QED
    BY <2>1, <2>2
<1> QED
  BY <1>5, <1>7 DEF ThreadNest

LEMMA ThreadEnded ==
  ASSUME IInv, ThreadNest, work # <<>>, Continue(<<>>), 1 \in Saved,
         curThread' = work[1].thread
  PROVE  ThreadNest'
<1>1. <<>> \in Seq(Item) /\ Len(<<>>) = 0 /\ 0 - 1 \in Int /\ 0 - 1 >= -1 /\ 2 + (0 - 1) = 1
  OBVIOUS
<1>2. CarriedOver(Saved, Saved', OwnOf, OwnOf', 0 - 1) /\ AllFrom(Saved', 1)
  BY <1>1, CallsMoved
<1>3. Innermost(Saved, OwnOf, 2, work[1].thread)
  <2>1. InContext(1 + 1, work[1].thread)
    BY DEF ThreadNest
  <2>2. 1 + 1 = 2
    OBVIOUS
  <2> QED
    BY <2>1, <2>2 DEF InContext, OwnOf
<1>4. Innermost(Saved', OwnOf', 2 + (0 - 1), work[1].thread)
  BY <1>1, <1>2, <1>3, InnermostMoved
<1>5. InContext(1, curThread)'
  BY <1>1, <1>4 DEF InContext, Innermost, OwnOf
<1>6. ASSUME NEW j \in Saved' PROVE InContext(j + 1, work[j].thread)'
  <2>1. Len(<<>>) < j
    BY <1>1, <1>2 DEF AllFrom
  <2> QED
    BY <1>1, <2>1, ThreadBelow
<1> QED
  BY <1>5, <1>6 DEF ThreadNest

LEMMA LoopHere ==
  ASSUME IInv, LoopNest, work # <<>>, NEW items \in Seq(Item), Continue(items),
         AllFrom(SavedLoops, 2), AllFrom(SavedLoops', Len(items) + 1), curLoop' = curLoop
  PROVE  LoopNest'
<1>1. CarriedOver(SavedLoops, SavedLoops', NodeOf, NodeOf', Len(items) - 1) /\ Len(items) \in Nat
  BY CallsMoved
<1>2. Innermost(SavedLoops, NodeOf, 1, curLoop)
  BY DEF LoopNest, InLoop, NodeOf
<1>3. Innermost(SavedLoops', NodeOf', 1, curLoop)
  BY <1>1, <1>2, InnermostHere
<1>4. InLoop(1, curLoop)'
  BY <1>3 DEF InLoop, Innermost, NodeOf
<1>5. ASSUME NEW j \in SavedLoops' PROVE InLoop(j + 1, work[j].loop)'
  <2>1. Len(items) < j
    BY <1>1 DEF AllFrom
  <2> QED
    BY <2>1, LoopBelow
<1> QED
  BY <1>4, <1>5 DEF LoopNest

LEMMA LoopBegun ==
  ASSUME IInv, LoopNest, work # <<>>, NEW items \in Seq(Item), Continue(items),
         NEW L, L = Len(items), L >= 1,
         AllFrom(SavedLoops, 2), AllFrom(SavedLoops', L), L \in SavedLoops',
         work'[L].loop = curLoop, work'[L].node = curLoop'
  PROVE  LoopNest'
<1>1. CarriedOver(SavedLoops, SavedLoops', NodeOf, NodeOf', L - 1) /\ L \in Nat
  BY CallsMoved
<1>2. Innermost(SavedLoops, NodeOf, 1, curLoop)
  BY DEF LoopNest, InLoop, NodeOf
<1>3. Innermost(SavedLoops', NodeOf', 1, NodeOf'[L]) /\ Innermost(SavedLoops', NodeOf', L + 1, curLoop)
  BY <1>1, <1>2, InnermostBegun
<1>4. NodeOf'[L] = curLoop'
  BY DEF NodeOf
<1>5. InLoop(1, curLoop)'
  BY <1>3, <1>4 DEF InLoop, Innermost, NodeOf
<1>6. InLoop(L + 1, work[L].loop)'
  BY <1>3 DEF InLoop, Innermost, NodeOf
<1>7. ASSUME NEW j \in SavedLoops' PROVE InLoop(j + 1, work[j].loop)'
  <2>1. CASE j = L
    BY <1>6, <2>1
  <2>2. CASE j # L
    <3>1. Len(items) < j
      BY <1>1, <2>2 DEF AllFrom
    <3> QED
      BY <3>1, LoopBelow
  <2> QED
    BY <2>1, <2>2
<1> QED
  BY <1>5, <1>7 DEF LoopNest

LEMMA LoopEnded ==
  ASSUME IInv, LoopNest, work # <<>>, Continue(<<>>), 1 \in SavedLoops,
         curLoop' = work[1].loop
  PROVE  LoopNest'
<1>1. <<>> \in Seq(Item) /\ Len(<<>>) = 0 /\ 0 - 1 \in Int /\ 0 - 1 >= -1 /\ 2 + (0 - 1) = 1
  OBVIOUS
<1>2. CarriedOver(SavedLoops, SavedLoops', NodeOf, NodeOf', 0 - 1) /\ AllFrom(SavedLoops', 1)
  BY <1>1, CallsMoved
<1>3. Innermost(SavedLoops, NodeOf, 2, work[1].loop)
  <2>1. InLoop(1 + 1, work[1].loop)
    BY DEF LoopNest
  <2>2. 1 + 1 = 2
    OBVIOUS
  <2> QED
    BY <2>1, <2>2 DEF InLoop, NodeOf
<1>4. Innermost(SavedLoops', NodeOf', 2 + (0 - 1), work[1].loop)
  BY <1>1, <1>2, <1>3, InnermostMoved
<1>5. InLoop(1, curLoop)'
  BY <1>1, <1>4 DEF InLoop, Innermost, NodeOf
<1>6. ASSUME NEW j \in SavedLoops' PROVE InLoop(j + 1, work[j].loop)'
  <2>1. Len(<<>>) < j
    BY <1>1, <1>2 DEF AllFrom
  <2> QED
    BY <1>1, <2>1, LoopBelow
<1> QED
  BY <1>5, <1>6 DEF LoopNest

LEMMA NestHalves == ContextsNest <=> ThreadNest /\ OwnsOrdered /\ LoopNest
BY DEF ContextsNest, ThreadNest, OwnsOrdered, LoopNest

(* Where the step leaves the calls in progress. *)
LEMMA CallPlaces ==
  ASSUME IInv, work # <<>>, NEW items \in Seq(Item), Continue(items)
  PROVE  /\ work[1].op \notin SaveOps => AllFrom(Saved, 2)
         /\ work[1].op # "endLoop" => AllFrom(SavedLoops, 2)
         /\ (\A i \in DOMAIN items : items[i].op \notin SaveOps)
              => AllFrom(Saved', Len(items) + 1)
         /\ (\A i \in DOMAIN items : items[i].op # "endLoop")
              => AllFrom(SavedLoops', Len(items) + 1)
         /\ (\A i \in DOMAIN items : items[i].op \in SaveOps => i = Len(items))
              => AllFrom(Saved', Len(items)) /\ AllFrom(SavedLoops', Len(items))
         /\ 1 \in DOMAIN work /\ Len(items) \in Nat
         /\ \A i \in DOMAIN items : i \in DOMAIN work' /\ work'[i] = items[i]
<1>1. /\ work \in Seq(Item) /\ DOMAIN items = 1 .. Len(items) /\ Len(items) \in Nat
      /\ 1 \in DOMAIN work
  BY DEF IInv, WorkOK
<1>2. \A i \in DOMAIN items : i \in DOMAIN work' /\ work'[i] = items[i]
  BY <1>1, ContinueAt
<1>3. /\ \A i \in Saved : i \in Nat /\ 1 <= i
      /\ \A i \in Saved' : i \in Nat /\ 1 <= i
      /\ \A i \in SavedLoops : i \in Nat /\ 1 <= i
      /\ \A i \in SavedLoops' : i \in Nat /\ 1 <= i
  BY CallsMoved DEF AllFrom
<1>4. \A i \in Saved' \cup SavedLoops' : i <= Len(items) => i \in DOMAIN items
  BY <1>1, <1>3
<1>5. /\ \A i \in Saved : work[i].op \in SaveOps
      /\ \A i \in Saved' : work'[i].op \in SaveOps
      /\ \A i \in SavedLoops : work[i].op = "endLoop"
      /\ \A i \in SavedLoops' : work'[i].op = "endLoop" /\ work'[i].op \in SaveOps
  BY DEF Saved, SavedLoops, SaveOps
<1>6. ASSUME work[1].op \notin SaveOps PROVE AllFrom(Saved, 2)
  <2>1. \A i \in Saved : i # 1
    BY <1>5, <1>6
  <2> QED
    BY <1>3, <2>1 DEF AllFrom
<1>7. ASSUME work[1].op # "endLoop" PROVE AllFrom(SavedLoops, 2)
  <2>1. \A i \in SavedLoops : i # 1
    BY <1>5, <1>7
  <2> QED
    BY <1>3, <2>1 DEF AllFrom
<1>8. ASSUME \A i \in DOMAIN items : items[i].op \notin SaveOps
      PROVE  AllFrom(Saved', Len(items) + 1)
  <2>1. \A i \in Saved' : i \notin DOMAIN items
    BY <1>2, <1>5, <1>8
  <2>2. \A i \in Saved' : i \in Nat /\ Len(items) + 1 <= i
    BY <1>1, <1>3, <1>4, <2>1
  <2> QED
    BY <2>2 DEF AllFrom
<1>9. ASSUME \A i \in DOMAIN items : items[i].op # "endLoop"
      PROVE  AllFrom(SavedLoops', Len(items) + 1)
  <2>1. \A i \in SavedLoops' : i \notin DOMAIN items
    BY <1>2, <1>5, <1>9
  <2>2. \A i \in SavedLoops' : i \in Nat /\ Len(items) + 1 <= i
    BY <1>1, <1>3, <1>4, <2>1
  <2> QED
    BY <2>2 DEF AllFrom
<1>10. ASSUME \A i \in DOMAIN items : items[i].op \in SaveOps => i = Len(items)
       PROVE  AllFrom(Saved', Len(items)) /\ AllFrom(SavedLoops', Len(items))
  <2>1. \A i \in Saved' \cup SavedLoops' : i \in DOMAIN items => i = Len(items)
    BY <1>2, <1>5, <1>10
  <2>2. \A i \in Saved' \cup SavedLoops' : i \in Nat /\ Len(items) <= i
    BY <1>1, <1>3, <1>4, <2>1
  <2> QED
    BY <2>2 DEF AllFrom
<1> QED
  BY <1>1, <1>2, <1>6, <1>7, <1>8, <1>9, <1>10

(* The contexts of the calls below the head, when none has begun. *)
LEMMA OwnsKept ==
  ASSUME IInv, OwnsOrdered, work # <<>>, NEW items \in Seq(Item), Continue(items),
         AllFrom(Saved', Len(items) + 1), nextThread' = nextThread
  PROVE  OwnsOrdered'
<1> DEFINE d == Len(items) - 1
<1>1. Len(items) \in Nat /\ d \in Int
  BY CallsMoved DEF CarriedOver
<1>2. ASSUME NEW j \in Saved' PROVE j - d \in Saved /\ work'[j] = work[j - d] /\ j \in Nat
  <2>1. Len(items) < j /\ j \in Nat
    BY <1>1 DEF AllFrom
  <2> QED
    BY <2>1, CallsMoved
<1> HIDE DEF d
<1>3. ASSUME NEW j \in Saved' PROVE 0 < work'[j].own /\ work'[j].own < nextThread
  BY <1>2 DEF OwnsOrdered
<1>4. ASSUME NEW i \in Saved', NEW j \in Saved', i < j PROVE work'[j].own < work'[i].own
  <2>1. i - d \in Saved /\ j - d \in Saved /\ i - d < j - d
    BY <1>1, <1>2, <1>4
  <2> QED
    BY <1>2, <2>1 DEF OwnsOrdered
<1> QED
  BY <1>3, <1>4 DEF OwnsOrdered

LEMMA OwnsBegun ==
  ASSUME IInv, OwnsOrdered, work # <<>>, NEW items \in Seq(Item), Continue(items),
         NEW L, L = Len(items), AllFrom(Saved', L), nextThread' = nextThread + 1,
         0 < nextThread, work'[L].own = nextThread
  PROVE  OwnsOrdered'
<1> DEFINE d == L - 1
<1>1. L \in Nat /\ d \in Int /\ nextThread \in Nat
  BY CallsMoved DEF IInv, ContextOK
<1>2. ASSUME NEW j \in Saved', j # L
      PROVE  j - d \in Saved /\ work'[j] = work[j - d] /\ j \in Nat /\ L < j
  <2>1. Len(items) < j /\ j \in Nat
    BY <1>1, <1>2 DEF AllFrom
  <2> QED
    BY <2>1, CallsMoved
<1> HIDE DEF d
<1>3. \A i \in Saved : work[i].own \in Nat
  <2>1. \A i \in Saved : work[i] \in Item
    BY DEF Saved, IInv, WorkOK
  <2> QED
    BY <2>1 DEF Item
<1>4. ASSUME NEW j \in Saved', j # L
      PROVE  /\ work'[j].own \in Nat /\ 0 < work'[j].own
             /\ work'[j].own < nextThread /\ work'[j].own < nextThread'
  <2>1. j - d \in Saved /\ work'[j] = work[j - d]
    BY <1>2, <1>4
  <2>2. 0 < work[j - d].own /\ work[j - d].own < nextThread /\ work[j - d].own \in Nat
    BY <1>3, <2>1 DEF OwnsOrdered
  <2> QED
    BY <1>1, <2>1, <2>2
<1>5. ASSUME NEW j \in Saved' PROVE 0 < work'[j].own /\ work'[j].own < nextThread'
  BY <1>1, <1>4
<1>6. ASSUME NEW i \in Saved', NEW j \in Saved', i < j PROVE work'[j].own < work'[i].own
  <2>1. j # L
    <3>1. L <= i /\ i \in Nat /\ j \in Nat
      BY DEF AllFrom
    <3> QED
      BY <1>1, <1>6, <3>1
  <2>2. CASE i = L
    BY <1>4, <2>1, <2>2
  <2>3. CASE i # L
    <3>1. i - d \in Saved /\ j - d \in Saved /\ i - d < j - d
      BY <1>1, <1>2, <1>6, <2>1, <2>3
    <3> QED
      BY <1>2, <2>1, <2>3, <3>1 DEF OwnsOrdered
  <2> QED
    BY <2>2, <2>3
<1> QED
  BY <1>5, <1>6 DEF OwnsOrdered

LEMMA NestStill ==
  ASSUME IInv, ContextsNest, work # <<>>, NEW items \in Seq(Item), Continue(items),
         \A i \in DOMAIN items : items[i].op \notin SaveOps, work[1].op \notin SaveOps,
         UNCHANGED <<curThread, nextThread, curLoop>>
  PROVE  ContextsNest'
<1>1. ThreadNest /\ OwnsOrdered /\ LoopNest
  BY NestHalves
<1>2. work[1].op # "endLoop" /\ \A i \in DOMAIN items : items[i].op # "endLoop"
  BY DEF SaveOps
<1>3. /\ AllFrom(Saved, 2) /\ AllFrom(SavedLoops, 2)
      /\ AllFrom(Saved', Len(items) + 1) /\ AllFrom(SavedLoops', Len(items) + 1)
  BY <1>2, CallPlaces
<1>4. ThreadNest'
  BY <1>1, <1>3, ThreadHere
<1>5. LoopNest'
  BY <1>1, <1>3, LoopHere
<1>6. OwnsOrdered'
  BY <1>1, <1>3, OwnsKept
<1> QED
  BY <1>4, <1>5, <1>6, NestHalves DEF ContextsNest, ThreadNest, OwnsOrdered, LoopNest

LEMMA NestBegins ==
  ASSUME IInv, ContextsNest, work # <<>>, NEW items \in Seq(Item), Continue(items),
         work[1].op \notin SaveOps, curThread < nextThread,
         NEW op \in SaveOps, NEW n \in DOMAIN ast,
         Len(items) \in DOMAIN items, items[Len(items)] = Restore(op, n),
         \A i \in DOMAIN items : items[i].op \in SaveOps => i = Len(items),
         NewContext, curLoop' = IF op = "endLoop" THEN n ELSE curLoop
  PROVE  ContextsNest'
<1> DEFINE L == Len(items)
<1>1. ThreadNest /\ OwnsOrdered /\ LoopNest
  BY NestHalves
<1>2. /\ Restore(op, n).op = op /\ Restore(op, n).node = n
      /\ Restore(op, n).thread = curThread /\ Restore(op, n).loop = curLoop
      /\ Restore(op, n).own = nextThread
  BY RestoreFacts DEF SaveOps
<1>3. curThread' = nextThread /\ nextThread' = nextThread + 1 /\ 0 < nextThread
  BY DEF NewContext, IInv, ContextOK
<1>4. /\ AllFrom(Saved, 2) /\ AllFrom(SavedLoops, 2)
      /\ AllFrom(Saved', L) /\ AllFrom(SavedLoops', L)
      /\ L \in DOMAIN work' /\ work'[L] = Restore(op, n)
  BY CallPlaces DEF SaveOps
<1>5. L \in Saved' /\ L \in Nat /\ L >= 1
  BY <1>2, <1>4 DEF Saved, SaveOps
<1> HIDE DEF L
<1>6. ThreadNest'
  BY <1>1, <1>2, <1>3, <1>4, <1>5, ThreadBegun DEF L
<1>7. OwnsOrdered'
  BY <1>1, <1>2, <1>3, <1>4, OwnsBegun DEF L
<1>8. LoopNest'
  <2>1. CASE op = "endLoop"
    <3>1. L \in SavedLoops'
      BY <1>2, <1>4, <2>1 DEF SavedLoops
    <3>2. work'[L].loop = curLoop /\ work'[L].node = curLoop'
      BY <1>2, <1>4, <2>1
    <3> QED
      BY <1>1, <1>4, <1>5, <3>1, <3>2, LoopBegun DEF L
  <2>2. CASE op # "endLoop"
    <3>1. \A i \in DOMAIN items : items[i].op # "endLoop"
      BY <1>2, <2>2 DEF SaveOps
    <3>2. AllFrom(SavedLoops', Len(items) + 1)
      BY <3>1, CallPlaces
    <3>3. curLoop' = curLoop
      BY <2>2
    <3> QED
      BY <1>1, <1>4, <3>2, <3>3, LoopHere
  <2> QED
    BY <2>1, <2>2
<1> QED
  BY <1>6, <1>7, <1>8 DEF ContextsNest, ThreadNest, OwnsOrdered, LoopNest

LEMMA NestEnds ==
  ASSUME IInv, ContextsNest, work # <<>>, Continue(<<>>), work[1].op \in SaveOps,
         curThread' = work[1].thread, nextThread' = nextThread,
         curLoop' = IF work[1].op = "endLoop" THEN work[1].loop ELSE curLoop
  PROVE  ContextsNest'
<1>1. ThreadNest /\ OwnsOrdered /\ LoopNest
  BY NestHalves
<1>2. <<>> \in Seq(Item) /\ Len(<<>>) = 0 /\ DOMAIN <<>> = {}
  OBVIOUS
<1>3. /\ AllFrom(Saved', Len(<<>>) + 1) /\ AllFrom(SavedLoops', Len(<<>>) + 1)
      /\ 1 \in DOMAIN work /\ (work[1].op # "endLoop" => AllFrom(SavedLoops, 2))
  BY <1>2, CallPlaces
<1>4. 1 \in Saved
  BY <1>3 DEF Saved, SaveOps
<1>5. ThreadNest'
  BY <1>1, <1>4, ThreadEnded
<1>6. OwnsOrdered'
  BY <1>1, <1>2, <1>3, OwnsKept
<1>7. LoopNest'
  <2>1. CASE work[1].op = "endLoop"
    <3>1. 1 \in SavedLoops
      BY <1>3, <2>1 DEF SavedLoops
    <3> QED
      BY <1>1, <2>1, <3>1, LoopEnded
  <2>2. CASE work[1].op # "endLoop"
    BY <1>1, <1>2, <1>3, <2>2, LoopHere
  <2> QED
    BY <2>1, <2>2
<1> QED
  BY <1>5, <1>6, <1>7 DEF ContextsNest, ThreadNest, OwnsOrdered, LoopNest

(* The items of a step that begins a call: plain ones, and the last one.   *)
LEMMA LastItem ==
  ASSUME NEW s \in Seq(Item), NEW w \in Item, NEW ops,
         \A i \in DOMAIN s : s[i].op \notin ops
  PROVE  /\ s \o <<w>> \in Seq(Item) /\ Len(s \o <<w>>) \in DOMAIN (s \o <<w>>)
         /\ (s \o <<w>>)[Len(s \o <<w>>)] = w
         /\ \A i \in DOMAIN (s \o <<w>>) :
              (s \o <<w>>)[i].op \in ops => i = Len(s \o <<w>>)
<1>1. <<w>> \in Seq(Item) /\ Len(<<w>>) = 1 /\ DOMAIN <<w>> = {1} /\ <<w>>[1] = w
  OBVIOUS
<1>2. /\ s \o <<w>> \in Seq(Item) /\ Len(s \o <<w>>) = Len(s) + 1
      /\ \A i \in DOMAIN s : i \in DOMAIN (s \o <<w>>) /\ (s \o <<w>>)[i] = s[i]
      /\ 1 + Len(s) \in DOMAIN (s \o <<w>>) /\ (s \o <<w>>)[1 + Len(s)] = w
      /\ \A j \in DOMAIN (s \o <<w>>) : j \in DOMAIN s \/ j = 1 + Len(s)
  BY <1>1, AppendedItems
<1>3. 1 + Len(s) = Len(s \o <<w>>)
  BY <1>2
<1>4. \A i \in DOMAIN (s \o <<w>>) : (s \o <<w>>)[i].op \in ops => i = 1 + Len(s)
  BY <1>2
<1> QED
  BY <1>2, <1>3, <1>4

LEMMA ContextsNestStep ==
  ASSUME WalkInv, ContextsOrdered, ContextsNest, StepKinds
  PROVE  ContextsNest'
<1> DEFINE n == work[1].node
<1>1. work \in Seq(Item) /\ ast \in Programs /\ IInv /\ curThread < nextThread
  BY DEF WalkInv, IInv, WorkOK, ContextsOrdered
<1>2. CASE StopStep \/ UNCHANGED vars
  <2>1. UNCHANGED <<work, curThread, nextThread, curLoop>>
    BY <1>2, StopFacts
  <2> QED
    BY <2>1 DEF ContextsNest, InContext, InLoop, Innermost, Saved, SavedLoops
<1>3. CASE QuietStep
  <2>1. /\ work # <<>> /\ QuietItem(work[1]) /\ Continue(Calls(work[1]))
        /\ UNCHANGED <<curThread, nextThread, curLoop>>
    BY <1>1, <1>3, QuietCalls DEF context
  <2>2. Plain(Calls(work[1]), n)
    BY <1>1, <2>1, PlainCalls
  <2>3. /\ \A i \in DOMAIN Calls(work[1]) : Calls(work[1])[i].op \notin SaveOps
        /\ Calls(work[1]) \in Seq(Item) /\ work[1].op \notin SaveOps
    BY <2>1, <2>2, PlainFits DEF PlainOps, SaveOps, QuietItem
  <2> QED
    BY <1>1, <2>1, <2>3, NestStill
<1>4. CASE EnterStep
  <2> DEFINE s == Each("stmt", ast[n].kids)
             w == Do("leave", n)
  <2>1. /\ work # <<>> /\ n \in DOMAIN ast /\ work[1].op = "stmt"
        /\ Plain(s, n) /\ Continue(s \o <<w>>) /\ UNCHANGED <<curThread, nextThread, curLoop>>
    BY <1>4, EnterFacts DEF context
  <2>2. w \in Item /\ w.op = "leave"
    BY <1>1, <2>1, LeaveFits, DoFields
  <2> HIDE DEF s, w
  <2>3. s \in Seq(Item) /\ \A i \in DOMAIN s : s[i].op \notin SaveOps \cup {"leave"}
    BY <2>1, PlainFits DEF PlainOps, SaveOps
  <2>4. /\ s \o <<w>> \in Seq(Item) /\ (s \o <<w>>)[Len(s \o <<w>>)] = w
        /\ \A i \in DOMAIN (s \o <<w>>) :
             (s \o <<w>>)[i].op \in SaveOps \cup {"leave"} => i = Len(s \o <<w>>)
    BY <2>2, <2>3, LastItem
  <2>5. \A i \in DOMAIN (s \o <<w>>) : (s \o <<w>>)[i].op \notin SaveOps
    BY <2>2, <2>4 DEF SaveOps
  <2>6. work[1].op \notin SaveOps
    BY <2>1 DEF SaveOps
  <2> QED
    BY <1>1, <2>1, <2>4, <2>5, <2>6, NestStill
<1>5. CASE ThreadBlock
  <2> DEFINE s == Each("stmt", ast[n].kids)
             w == Restore("endContext", n)
  <2>1. /\ work # <<>> /\ n \in DOMAIN ast /\ work[1].op = "stmt" /\ Plain(s, n)
        /\ Continue(s \o <<w>>) /\ NewContext /\ curLoop' = curLoop
    BY <1>5, ThreadBlockFacts
  <2>2. w \in Item
    BY <1>1, <2>1, RestoreFacts
  <2> HIDE DEF s
  <2>3. s \in Seq(Item) /\ \A i \in DOMAIN s : s[i].op \notin SaveOps
    BY <2>1, PlainFits DEF PlainOps, SaveOps
  <2>4. work[1].op \notin SaveOps /\ "endContext" \in SaveOps /\ "endContext" # "endLoop"
    BY <2>1 DEF SaveOps
  <2>5. /\ s \o <<w>> \in Seq(Item) /\ Len(s \o <<w>>) \in DOMAIN (s \o <<w>>)
        /\ (s \o <<w>>)[Len(s \o <<w>>)] = w
        /\ \A i \in DOMAIN (s \o <<w>>) :
             (s \o <<w>>)[i].op \in SaveOps => i = Len(s \o <<w>>)
    BY <2>2, <2>3, LastItem
  <2> QED
    BY <1>1, <2>1, <2>4, <2>5, NestBegins
<1>6. CASE Launch
  <2>1. /\ work # <<>> /\ n \in DOMAIN ast /\ work[1].op = "launch"
        /\ NewContext /\ curLoop' = curLoop
    BY <1>6, LaunchFacts
  <2>2. PICK h \in DOMAIN ast :
          /\ Plain(Each("stmt", ast[h].kids), h)
          /\ Continue(Each("stmt", ast[h].kids)
                        \o <<Do("leave", h), Restore("endContext", n)>>)
    BY <1>6, LaunchFacts
  <2> DEFINE s == Each("stmt", ast[h].kids)
             x == Do("leave", h)
             w == Restore("endContext", n)
  <2>3. x \in Item /\ x.op = "leave" /\ w \in Item
    BY <1>1, <2>1, <2>2, LeaveFits, DoFields, RestoreFacts
  <2>4. Plain(s, h) /\ Continue(s \o <<x, w>>)
    BY <2>2
  <2> HIDE DEF s, x
  <2>5. s \in Seq(Item) /\ \A i \in DOMAIN s : s[i].op \notin SaveOps \cup {"leave"}
    BY <2>4, PlainFits DEF PlainOps, SaveOps
  <2> DEFINE t == s \o <<x>>
  <2>6. s \o <<x, w>> = t \o <<w>> /\ t \in Seq(Item)
    BY <2>3, <2>5
  <2>7. \A i \in DOMAIN t : t[i].op \notin SaveOps
    <3>1. /\ t[Len(t)] = x
          /\ \A i \in DOMAIN t : t[i].op \in SaveOps \cup {"leave"} => i = Len(t)
      BY <2>3, <2>5, LastItem
    <3> QED
      BY <2>3, <3>1 DEF SaveOps
  <2> HIDE DEF t
  <2>8. /\ t \o <<w>> \in Seq(Item) /\ Len(t \o <<w>>) \in DOMAIN (t \o <<w>>)
        /\ (t \o <<w>>)[Len(t \o <<w>>)] = w
        /\ \A i \in DOMAIN (t \o <<w>>) :
             (t \o <<w>>)[i].op \in SaveOps => i = Len(t \o <<w>>)
    BY <2>3, <2>6, <2>7, LastItem
  <2>9. work[1].op \notin SaveOps /\ "endContext" \in SaveOps /\ "endContext" # "endLoop"
    BY <2>1 DEF SaveOps
  <2>10. Continue(t \o <<w>>)
    BY <2>4, <2>6
  <2> QED
    BY <1>1, <2>1, <2>8, <2>9, <2>10, NestBegins
<1>7. CASE ThreadedBody
  <2> DEFINE w == Restore("endLoop", n)
             s == <<Do("stmt", ast[n].kids[4])>>
  <2>1. /\ work # <<>> /\ n \in ThreadedLoops /\ ast[n].kids[4] \in DOMAIN ast
        /\ work[1].op = "loop" /\ NewContext /\ curLoop' = n
        /\ Continue(<<Do("stmt", ast[n].kids[4]), w>>)
    BY <1>7, ThreadedBodyFacts
  <2>2. n \in DOMAIN ast
    BY <2>1 DEF ThreadedLoops
  <2>3. w \in Item
    BY <1>1, <2>2, RestoreFacts
  <2>4. s \in Seq(Item) /\ \A i \in DOMAIN s : s[i].op \notin SaveOps
    BY <2>1, DoType, DoFields DEF Ops, SaveOps
  <2>5. <<Do("stmt", ast[n].kids[4]), w>> = s \o <<w>>
    OBVIOUS
  <2>6. Continue(s \o <<w>>)
    BY <2>1, <2>5
  <2> HIDE DEF s
  <2>7. /\ s \o <<w>> \in Seq(Item) /\ Len(s \o <<w>>) \in DOMAIN (s \o <<w>>)
        /\ (s \o <<w>>)[Len(s \o <<w>>)] = w
        /\ \A i \in DOMAIN (s \o <<w>>) :
             (s \o <<w>>)[i].op \in SaveOps => i = Len(s \o <<w>>)
    BY <2>3, <2>4, LastItem
  <2>8. work[1].op \notin SaveOps /\ "endLoop" \in SaveOps
    BY <2>1 DEF SaveOps
  <2> QED
    BY <1>1, <2>1, <2>2, <2>6, <2>7, <2>8, NestBegins
<1>8. CASE Leave
  <2>1. /\ work # <<>> /\ Continue(<<>>) /\ UNCHANGED <<curThread, nextThread, curLoop>>
        /\ work[1].op = "leave"
    BY <1>8, ReturnFacts DEF context
  <2>2. work[1].op \notin SaveOps /\ \A i \in DOMAIN <<>> : <<>>[i].op \notin SaveOps
    BY <2>1 DEF SaveOps
  <2> QED
    BY <1>1, <2>1, <2>2, NoItems, NestStill
<1>9. CASE EndLoop
  <2>1. /\ work # <<>> /\ Continue(<<>>) /\ work[1].op = "endLoop" /\ nextThread' = nextThread
        /\ curThread' = work[1].thread /\ curLoop' = work[1].loop
    BY <1>9, ReturnFacts
  <2> QED
    BY <1>1, <2>1, NestEnds DEF SaveOps
<1>10. CASE EndContext
  <2>1. /\ work # <<>> /\ Continue(<<>>) /\ work[1].op = "endContext" /\ nextThread' = nextThread
        /\ curThread' = work[1].thread /\ curLoop' = curLoop
    BY <1>10, ReturnFacts
  <2> QED
    BY <1>1, <2>1, NestEnds DEF SaveOps
<1> QED
  BY <1>2, <1>3, <1>4, <1>5, <1>6, <1>7, <1>8, <1>9, <1>10 DEF StepKinds

LEMMA InitNest == Init => ContextsOrdered /\ ContextsNest
<1> SUFFICES ASSUME Init PROVE ContextsOrdered /\ ContextsNest
  OBVIOUS
<1>1. curThread = 0 /\ nextThread = 1 /\ curLoop = 0 /\ work = <<Do("stmt", 1)>>
  BY DEF Init
<1>2. Saved = {} /\ SavedLoops = {}
  BY <1>1, DoFields DEF Saved, SavedLoops
<1> QED
  BY <1>1, <1>2 DEF ContextsOrdered, ContextsNest, InContext, InLoop, Innermost

(* Whatever the program and wherever the walk is in it, the current        *)
(* context and the current threaded loop are those of the innermost call   *)
(* in progress that began one, and no two calls began the same context: an *)
(* access is never registered for a context that is over.                  *)
THEOREM ContextsNestHolds == Spec => []ContextsNest
<1>1. Init => ContextsOrdered /\ ContextsNest
  BY InitNest
<1>2. WalkInv /\ ContextsOrdered /\ [Next]_vars => ContextsOrdered'
  BY EveryStep, NestStep
<1>3. WalkInv /\ ContextsOrdered /\ ContextsNest /\ [Next]_vars => ContextsNest'
  BY EveryStep, ContextsNestStep
<1> QED
  BY <1>1, <1>2, <1>3, InitWalk, NextWalk, PTL DEF Spec

-----------------------------------------------------------------------------
(* Induction, in the form that needs no predicate: a set of naturals that  *)
(* is not empty has a least element.                                       *)

NatLess == OpToRel(<, Nat)

LEMMA LeastElement ==
  ASSUME NEW T \in SUBSET Nat, T # {}
  PROVE  \E x \in T : \A y \in T : x <= y
<1>1. IsWellFoundedOn(NatLess, Nat)
  BY NatLessThanWellFounded DEF NatLess
<1>2. PICK x \in T : \A y \in T : ~(<<y, x>> \in NatLess)
  BY <1>1, WFMin
<1>3. ASSUME NEW y \in T PROVE x <= y
  <2>1. x \in Nat /\ y \in Nat
    OBVIOUS
  <2>2. ~(y < x)
    BY <1>2, <2>1 DEF NatLess, OpToRel
  <2> QED
    BY <2>1, <2>2
<1> QED
  BY <1>3

-----------------------------------------------------------------------------
(* The nodes under a node *)

(* A set of nodes that has the kids of each of its nodes. *)
Closed(C) == \A m \in C : \A i \in DOMAIN ast[m].kids : ast[m].kids[i] \in C

(* Under(n) as the least such set with n in it. *)
Reached(n) ==
  {x \in DOMAIN ast : \A C \in SUBSET DOMAIN ast : n \in C /\ Closed(C) => x \in C}

KidsUnion(f, m) == {m} \cup UNION {f[ast[m].kids[i]] : i \in DOMAIN ast[m].kids}

LEMMA ReachedFixed ==
  ASSUME ast \in Programs, NEW n \in DOMAIN ast
  PROVE  /\ n \in Reached(n) /\ Closed(Reached(n)) /\ Reached(n) \subseteq DOMAIN ast
         /\ Reached(n) = {n} \cup UNION {Reached(ast[n].kids[i]) : i \in DOMAIN ast[n].kids}
<1>1. \A m \in DOMAIN ast : \A i \in DOMAIN ast[m].kids : ast[m].kids[i] \in DOMAIN ast
  BY NodeFacts
<1>2. \A m \in DOMAIN ast : m \in Reached(m) /\ Closed(Reached(m)) /\ Reached(m) \subseteq DOMAIN ast
  BY <1>1 DEF Reached, Closed
<1> DEFINE U == {n} \cup UNION {Reached(ast[n].kids[i]) : i \in DOMAIN ast[n].kids}
<1>3. \A x \in Reached(n) : x \in U
  <2>1. U \in SUBSET DOMAIN ast /\ n \in U
    BY <1>1, <1>2
  <2>2. Closed(U)
    BY <1>1, <1>2 DEF Closed
  <2> HIDE DEF U
  <2> QED
    BY <2>1, <2>2 DEF Reached
<1>4. \A i \in DOMAIN ast[n].kids : \A x \in Reached(ast[n].kids[i]) : x \in Reached(n)
  <2> SUFFICES ASSUME NEW i \in DOMAIN ast[n].kids, NEW x \in Reached(ast[n].kids[i]),
                      NEW C \in SUBSET DOMAIN ast, n \in C, Closed(C)
               PROVE  x \in C
    BY DEF Reached
  <2>1. ast[n].kids[i] \in C
    BY DEF Closed
  <2> QED
    BY <2>1 DEF Reached
<1> QED
  BY <1>2, <1>3, <1>4

LEMMA UnderIsReached ==
  ASSUME ast \in Programs
  PROVE  \A n \in DOMAIN ast : Under(n) = Reached(n)
<1> DEFINE Is(f) == f = [m \in DOMAIN ast |-> KidsUnion(f, m)]
           Sub   == CHOOSE f : Is(f)
<1>1. \A m \in DOMAIN ast : \A i \in DOMAIN ast[m].kids :
        ast[m].kids[i] \in DOMAIN ast /\ ast[m].kids[i] > m
  BY ProgramsAssumption DEF WellFormed
<1>2. \E f : Is(f)
  <2> DEFINE g == [m \in DOMAIN ast |-> Reached(m)]
  <2>1. \A m \in DOMAIN ast : Reached(m) = KidsUnion(g, m)
    <3> SUFFICES ASSUME NEW m \in DOMAIN ast PROVE Reached(m) = KidsUnion(g, m)
      OBVIOUS
    <3>1. \A i \in DOMAIN ast[m].kids : g[ast[m].kids[i]] = Reached(ast[m].kids[i])
      BY <1>1
    <3>2. Reached(m) = {m} \cup UNION {Reached(ast[m].kids[i]) : i \in DOMAIN ast[m].kids}
      BY ReachedFixed
    <3> HIDE DEF g
    <3> QED
      BY <3>1, <3>2 DEF KidsUnion
  <2>2. Is(g)
    BY <2>1
  <2> QED
    BY <2>2
<1>3. Is(Sub)
  BY <1>2
<1>4. \A n \in DOMAIN ast : Under(n) = Sub[n]
  BY DEF Under, KidsUnion
<1> HIDE DEF Sub
<1>5. \A n \in DOMAIN ast : Sub[n] = KidsUnion(Sub, n)
  BY <1>3
<1> DEFINE Bad == {n \in DOMAIN ast : Sub[n] # Reached(n)}
<1>6. Bad = {}
  <2> SUFFICES ASSUME Bad # {} PROVE FALSE
    OBVIOUS
  <2>1. ast \in Seq(Node) /\ Len(ast) \in Nat /\ DOMAIN ast = 1 .. Len(ast)
    BY ProgramsAssumption DEF WellFormed
  <2> DEFINE T == {Len(ast) - n : n \in Bad}
  <2>2. T \in SUBSET Nat /\ T # {}
    BY <2>1
  <2>3. PICK t \in T : \A y \in T : t <= y
    BY <2>2, LeastElement
  <2>4. PICK n \in Bad : t = Len(ast) - n
    OBVIOUS
  <2>5. \A m \in Bad : m <= n
    <3> SUFFICES ASSUME NEW m \in Bad PROVE m <= n
      OBVIOUS
    <3>1. Len(ast) - n <= Len(ast) - m
      BY <2>3, <2>4
    <3>2. m \in Nat /\ n \in Nat
      BY <2>1
    <3> QED
      BY <2>1, <3>1, <3>2
  <2>6. \A i \in DOMAIN ast[n].kids : Sub[ast[n].kids[i]] = Reached(ast[n].kids[i])
    <3> SUFFICES ASSUME NEW i \in DOMAIN ast[n].kids, ast[n].kids[i] \in Bad PROVE FALSE
      BY <1>1
    <3>1. ast[n].kids[i] > n /\ ast[n].kids[i] <= n
      BY <1>1, <2>5
    <3>2. ast[n].kids[i] \in Nat /\ n \in Nat
      BY <2>1
    <3> QED
      BY <3>1, <3>2
  <2>7. Sub[n] = Reached(n)
    <3>1. Sub[n] = {n} \cup UNION {Sub[ast[n].kids[i]] : i \in DOMAIN ast[n].kids}
      BY <1>5 DEF KidsUnion
    <3>2. Reached(n) = {n} \cup UNION {Reached(ast[n].kids[i]) : i \in DOMAIN ast[n].kids}
      BY ReachedFixed
    <3>3. {Sub[ast[n].kids[i]] : i \in DOMAIN ast[n].kids}
            = {Reached(ast[n].kids[i]) : i \in DOMAIN ast[n].kids}
      BY <2>6
    <3> QED
      BY <3>1, <3>2, <3>3
  <2> QED
    BY <2>7
<1> QED
  BY <1>4, <1>6

(* What the proofs use of Under. *)
LEMMA UnderFacts ==
  ASSUME ast \in Programs, NEW n \in DOMAIN ast
  PROVE  /\ n \in Under(n) /\ Under(n) \subseteq DOMAIN ast
         /\ \A m \in Under(n) : \A k \in DOMAIN ast : IsKid(k, m) => k \in Under(n)
         /\ \A m \in Under(n) : Under(m) \subseteq Under(n)
         /\ \A x \in Under(n) : x = n \/ \E k \in DOMAIN ast : IsKid(k, n) /\ x \in Under(k)
         /\ \A m \in Under(n) : m >= n
<1>1. \A m \in DOMAIN ast : Under(m) = Reached(m)
  BY UnderIsReached
<1>2. /\ n \in Reached(n) /\ Closed(Reached(n)) /\ Reached(n) \subseteq DOMAIN ast
      /\ Reached(n) = {n} \cup UNION {Reached(ast[n].kids[i]) : i \in DOMAIN ast[n].kids}
  BY ReachedFixed
<1>3. \A m \in Under(n) : \A k \in DOMAIN ast : IsKid(k, m) => k \in Under(n)
  BY <1>1, <1>2 DEF Closed, IsKid
<1>4. \A m \in Under(n) : Under(m) \subseteq Under(n)
  <2> SUFFICES ASSUME NEW m \in Reached(n) PROVE Reached(m) \subseteq Reached(n)
    BY <1>1, <1>2
  <2>1. Reached(n) \in SUBSET DOMAIN ast
    BY <1>2
  <2> QED
    BY <1>2, <2>1 DEF Reached
<1>5. \A x \in Under(n) : x = n \/ \E k \in DOMAIN ast : IsKid(k, n) /\ x \in Under(k)
  <2> SUFFICES ASSUME NEW x \in Reached(n), x # n
               PROVE  \E k \in DOMAIN ast : IsKid(k, n) /\ x \in Under(k)
    BY <1>1
  <2>1. PICK i \in DOMAIN ast[n].kids : x \in Reached(ast[n].kids[i])
    BY <1>2
  <2>2. ast[n].kids[i] \in DOMAIN ast
    BY NodeFacts
  <2> QED
    BY <1>1, <2>1, <2>2 DEF IsKid
<1>6. \A m \in Under(n) : m >= n
  <2> DEFINE C == {m \in DOMAIN ast : m >= n}
  <2>1. \A m \in DOMAIN ast : /\ m \in Nat
                              /\ \A i \in DOMAIN ast[m].kids :
                                   ast[m].kids[i] \in DOMAIN ast /\ ast[m].kids[i] > m
    BY ProgramsAssumption DEF WellFormed
  <2>2. C \in SUBSET DOMAIN ast /\ n \in C
    BY <2>1
  <2>3. Closed(C)
    <3> SUFFICES ASSUME NEW m \in C, NEW i \in DOMAIN ast[m].kids
                 PROVE  ast[m].kids[i] \in C
      BY DEF Closed
    <3>1. m \in Nat /\ n \in Nat /\ ast[m].kids[i] \in Nat /\ ast[m].kids[i] > m /\ m >= n
      BY <2>1
    <3> QED
      BY <2>1, <3>1
  <2>4. Reached(n) \subseteq C
    BY <2>2, <2>3 DEF Reached
  <2> QED
    BY <1>1, <2>4
<1> QED
  BY <1>1, <1>2, <1>3, <1>4, <1>5, <1>6

LEMMA OneParent ==
  ASSUME ast \in Programs, NEW k \in DOMAIN ast, NEW p \in DOMAIN ast, NEW q \in DOMAIN ast,
         IsKid(k, p), IsKid(k, q)
  PROVE  p = q /\ k # 1 /\ k > p
<1>1. WellFormed(ast)
  BY ProgramsAssumption
<1>2. k > p /\ p \in Nat /\ p >= 1 /\ k \in Nat
  <2>1. \A m \in DOMAIN ast : m \in Nat /\ m >= 1
    BY <1>1 DEF WellFormed
  <2>2. \A i \in DOMAIN ast[p].kids : ast[p].kids[i] > p
    BY <1>1 DEF WellFormed
  <2> QED
    BY <2>1, <2>2 DEF IsKid
<1>3. k # 1
  BY <1>2
<1>4. PICK r \in DOMAIN ast : Parents(ast, k) = {r}
  BY <1>1, <1>3 DEF WellFormed
<1>5. p \in Parents(ast, k) /\ q \in Parents(ast, k)
  BY DEF Parents, IsKid
<1> QED
  BY <1>2, <1>3, <1>4, <1>5

(* The parent of a node under n, other than n, is under n. *)
LEMMA ParentUnder ==
  ASSUME ast \in Programs, NEW n \in DOMAIN ast, NEW k \in Under(n), k # n,
         NEW p \in DOMAIN ast, IsKid(k, p)
  PROVE  p \in Under(n)
<1> SUFFICES ASSUME p \notin Under(n) PROVE FALSE
  OBVIOUS
<1> DEFINE C == Under(n) \ {k}
<1>1. n \in C /\ C \in SUBSET DOMAIN ast
  BY UnderFacts
<1>2. Closed(C)
  <2> SUFFICES ASSUME NEW m \in C, NEW i \in DOMAIN ast[m].kids
               PROVE  ast[m].kids[i] \in C
    BY DEF Closed
  <2>1. m \in DOMAIN ast /\ ast[m].kids[i] \in DOMAIN ast /\ IsKid(ast[m].kids[i], m)
    BY <1>1, NodeFacts DEF IsKid
  <2>2. ast[m].kids[i] \in Under(n)
    BY <2>1, UnderFacts
  <2>3. ast[m].kids[i] # k
    <3> SUFFICES ASSUME ast[m].kids[i] = k PROVE FALSE
      OBVIOUS
    <3>1. m = p
      BY <1>1, <2>1, OneParent
    <3> QED
      BY <3>1
  <2> QED
    BY <2>2, <2>3
<1>3. k \in Reached(n)
  BY UnderIsReached
<1> HIDE DEF C
<1>4. k \in C
  BY <1>1, <1>2, <1>3 DEF Reached
<1> QED
  BY <1>4 DEF C

(* Every node is under the program. *)
LEMMA AllUnderProgram ==
  ASSUME ast \in Programs
  PROVE  1 \in DOMAIN ast /\ \A n \in DOMAIN ast : n \in Under(1)
<1>1. WellFormed(ast) /\ ast \in Seq(Node) /\ 1 \in DOMAIN ast
  <2>1. WellFormed(ast)
    BY ProgramsAssumption
  <2>2. ast \in Seq(Node) /\ ast # <<>>
    BY <2>1 DEF WellFormed
  <2> QED
    BY <2>1, <2>2
<1> DEFINE Bad == {n \in DOMAIN ast : n \notin Under(1)}
<1>2. Bad = {}
  <2> SUFFICES ASSUME Bad # {} PROVE FALSE
    OBVIOUS
  <2>1. Bad \in SUBSET Nat
    BY <1>1
  <2>2. PICK n \in Bad : \A m \in Bad : n <= m
    BY <2>1, LeastElement
  <2>3. n # 1
    BY <1>1, UnderFacts
  <2>4. PICK p \in DOMAIN ast : Parents(ast, n) = {p}
    BY <1>1, <2>3 DEF WellFormed
  <2>5. IsKid(n, p)
    BY <2>4 DEF Parents, IsKid
  <2>6. n > p /\ n \in Nat /\ p \in Nat
    BY <1>1, <2>5, OneParent
  <2>7. p \in Under(1)
    BY <2>2, <2>6
  <2> QED
    BY <1>1, <2>5, <2>7, UnderFacts
<1> QED
  BY <1>1, <1>2

-----------------------------------------------------------------------------
(* A value for each point between the items of the stack: before the first *)
(* item, between two, after the last.  R holds an item with the values     *)
(* before and after it.                                                    *)

Values(items, S) == [1 .. Len(items) + 1 -> S]

Links(g, items, R) == \A i \in DOMAIN items : <<items[i], g[i], g[i + 1]>> \in R

(* The same, the head left out. *)
LinksAfter(g, items, R) ==
  \A i \in DOMAIN items : i # 1 => <<items[i], g[i], g[i + 1]>> \in R

(* Values for two lists of items, one after the other. *)
Joined(k, g, h, s, t) ==
  /\ k[1] = g[1] /\ k[Len(s \o t) + 1] = h[Len(t) + 1]
  /\ \A i \in 1 .. Len(s) + 1 : k[i] = g[i]
  /\ \A i \in 1 .. Len(t) + 1 : k[i + Len(s)] = h[i]

LEMMA ChainJoin ==
  ASSUME NEW S, NEW R, NEW s \in Seq(Item), NEW t \in Seq(Item),
         NEW g \in Values(s, S), NEW h \in Values(t, S),
         Links(g, s, R), Links(h, t, R), g[Len(s) + 1] = h[1]
  PROVE  \E k \in Values(s \o t, S) : Links(k, s \o t, R) /\ Joined(k, g, h, s, t)
<1>1. Len(s) \in Nat /\ Len(t) \in Nat
  OBVIOUS
<1>2. /\ s \o t \in Seq(Item) /\ Len(s \o t) = Len(s) + Len(t)
      /\ \A i \in 1 .. Len(s) + Len(t) :
           (s \o t)[i] = IF i <= Len(s) THEN s[i] ELSE t[i - Len(s)]
  BY ConcatProperties
<1> DEFINE k == [i \in 1 .. Len(s \o t) + 1 |-> IF i <= Len(s) + 1 THEN g[i] ELSE h[i - Len(s)]]
<1>3. \A i \in 1 .. Len(s) + 1 : i \in 1 .. Len(s \o t) + 1 /\ k[i] = g[i] /\ g[i] \in S
  BY <1>1, <1>2 DEF Values
<1>4. \A i \in 1 .. Len(t) + 1 :
        i + Len(s) \in 1 .. Len(s \o t) + 1 /\ k[i + Len(s)] = h[i] /\ h[i] \in S
  <2> SUFFICES ASSUME NEW i \in 1 .. Len(t) + 1
               PROVE  /\ i + Len(s) \in 1 .. Len(s \o t) + 1
                      /\ k[i + Len(s)] = h[i] /\ h[i] \in S
    OBVIOUS
  <2>1. i + Len(s) \in 1 .. Len(s \o t) + 1 /\ h[i] \in S /\ i + Len(s) - Len(s) = i
    BY <1>1, <1>2 DEF Values
  <2>2. CASE i = 1
    <3>1. i + Len(s) \in 1 .. Len(s) + 1 /\ k[i + Len(s)] = g[Len(s) + 1]
      BY <1>1, <1>3, <2>2
    <3> QED
      BY <2>1, <2>2, <3>1
  <2>3. CASE i # 1
    <3>1. ~(i + Len(s) <= Len(s) + 1)
      BY <1>1, <2>3
    <3> QED
      BY <2>1, <3>1
  <2> QED
    BY <2>2, <2>3
<1>5. k \in Values(s \o t, S)
  <2>1. \A i \in 1 .. Len(s \o t) + 1 :
          i \in 1 .. Len(s) + 1 \/ (i - Len(s) \in 1 .. Len(t) + 1 /\ i = (i - Len(s)) + Len(s))
    BY <1>1, <1>2
  <2>2. \A i \in 1 .. Len(s \o t) + 1 : k[i] \in S
    <3> SUFFICES ASSUME NEW i \in 1 .. Len(s \o t) + 1 PROVE k[i] \in S
      OBVIOUS
    <3>1. CASE i \in 1 .. Len(s) + 1
      BY <1>3, <3>1
    <3>2. CASE i - Len(s) \in 1 .. Len(t) + 1 /\ i = (i - Len(s)) + Len(s)
      <4> DEFINE j == i - Len(s)
      <4>1. k[j + Len(s)] = h[j] /\ h[j] \in S
        BY <1>4, <3>2
      <4> QED
        BY <3>2, <4>1
    <3> QED
      BY <2>1, <3>1, <3>2
  <2> QED
    BY <2>2 DEF Values
<1> HIDE DEF k
<1>6. Links(k, s \o t, R)
  <2> SUFFICES ASSUME NEW i \in 1 .. Len(s) + Len(t)
               PROVE  <<(s \o t)[i], k[i], k[i + 1]>> \in R
    BY <1>2 DEF Links
  <2>1. CASE i <= Len(s)
    <3>1. i \in 1 .. Len(s) + 1 /\ i + 1 \in 1 .. Len(s) + 1 /\ i \in DOMAIN s
      BY <1>1, <2>1
    <3>2. (s \o t)[i] = s[i] /\ k[i] = g[i] /\ k[i + 1] = g[i + 1]
      BY <1>2, <1>3, <2>1, <3>1
    <3> QED
      BY <3>1, <3>2 DEF Links
  <2>2. CASE ~(i <= Len(s))
    <3> DEFINE j == i - Len(s)
    <3>1. /\ j \in 1 .. Len(t) + 1 /\ j + 1 \in 1 .. Len(t) + 1 /\ j \in DOMAIN t
          /\ i = j + Len(s) /\ i + 1 = (j + 1) + Len(s)
      BY <1>1, <2>2
    <3>2. (s \o t)[i] = t[j]
      BY <1>2, <2>2
    <3> HIDE DEF j
    <3>3. k[i] = h[j] /\ k[i + 1] = h[j + 1]
      BY <1>4, <3>1
    <3> QED
      BY <3>1, <3>2, <3>3 DEF Links
  <2> QED
    BY <2>1, <2>2
<1>7. k[1] = g[1] /\ k[Len(s \o t) + 1] = h[Len(t) + 1]
  <2>1. 1 \in 1 .. Len(s) + 1 /\ Len(t) + 1 \in 1 .. Len(t) + 1
    BY <1>1
  <2>2. Len(s \o t) + 1 = (Len(t) + 1) + Len(s)
    BY <1>1, <1>2
  <2>3. k[1] = g[1] /\ k[(Len(t) + 1) + Len(s)] = h[Len(t) + 1]
    BY <1>3, <1>4, <2>1
  <2> QED
    BY <2>2, <2>3
<1> QED
  BY <1>3, <1>4, <1>5, <1>6, <1>7 DEF Joined

(* Values for the stack after its head has been replaced. *)
Spliced(G, g, F, items) ==
  /\ G[1] = g[1] /\ G[Len(work') + 1] = F[Len(work) + 1]
  /\ \A i \in 1 .. Len(items) + 1 : G[i] = g[i]
  /\ \A i \in 2 .. Len(work) + 1 : G[i + Len(items) - 1] = F[i]

LEMMA ChainContinue ==
  ASSUME work \in Seq(Item), work # <<>>, NEW S, NEW R, NEW F \in Values(work, S),
         LinksAfter(F, work, R), NEW items \in Seq(Item), Continue(items),
         NEW g \in Values(items, S), Links(g, items, R), g[Len(items) + 1] = F[2]
  PROVE  \E G \in Values(work', S) : Links(G, work', R) /\ Spliced(G, g, F, items)
<1>1. /\ Tail(work) \in Seq(Item) /\ Len(Tail(work)) = Len(work) - 1
      /\ \A i \in DOMAIN Tail(work) : i + 1 \in DOMAIN work /\ Tail(work)[i] = work[i + 1]
  BY TailItems
<1>2. Len(work) \in Nat /\ Len(work) >= 1 /\ Len(items) \in Nat
  BY <1>1
<1> DEFINE t == Tail(work)
           h == [i \in 1 .. Len(t) + 1 |-> F[i + 1]]
<1>3. \A i \in 1 .. Len(t) + 1 : h[i] = F[i + 1] /\ F[i + 1] \in S
  BY <1>1, <1>2, SMTT(20) DEF Values
<1>4. h \in Values(t, S)
  BY <1>3 DEF Values
<1> HIDE DEF h
<1>5. Links(h, t, R)
  <2> SUFFICES ASSUME NEW i \in DOMAIN t PROVE <<t[i], h[i], h[i + 1]>> \in R
    BY DEF Links
  <2>1. i + 1 \in DOMAIN work /\ i + 1 # 1 /\ t[i] = work[i + 1]
    BY <1>1
  <2>2. h[i] = F[i + 1] /\ h[i + 1] = F[(i + 1) + 1]
    BY <1>1, <1>2, <1>3
  <2> QED
    BY <2>1, <2>2 DEF Links, LinksAfter
<1>6. g[Len(items) + 1] = h[1]
  <2>1. 1 \in 1 .. Len(t) + 1
    BY <1>1, <1>2
  <2> QED
    BY <1>3, <2>1
<1> HIDE DEF t
<1>7. PICK G \in Values(items \o t, S) : Links(G, items \o t, R) /\ Joined(G, g, h, items, t)
  <2>1. t \in Seq(Item)
    BY <1>1 DEF t
  <2> QED
    BY <1>4, <1>5, <1>6, <2>1, ChainJoin
<1>8. work' = items \o t
  BY DEF Continue, t
<1>9. \A i \in 2 .. Len(work) + 1 : G[i + Len(items) - 1] = F[i]
  <2> SUFFICES ASSUME NEW i \in 2 .. Len(work) + 1 PROVE G[i + Len(items) - 1] = F[i]
    OBVIOUS
  <2>1. i - 1 \in 1 .. Len(t) + 1 /\ (i - 1) + Len(items) = i + Len(items) - 1 /\ (i - 1) + 1 = i
    BY <1>1, <1>2 DEF t
  <2>2. G[(i - 1) + Len(items)] = h[i - 1] /\ h[i - 1] = F[(i - 1) + 1]
    BY <1>3, <1>7, <2>1 DEF Joined
  <2> QED
    BY <2>1, <2>2
<1>10. G[Len(work') + 1] = F[Len(work) + 1]
  <2>1. Len(t) + 1 \in 1 .. Len(t) + 1 /\ (Len(t) + 1) + 1 = Len(work) + 1
    BY <1>1, <1>2 DEF t
  <2>2. h[Len(t) + 1] = F[(Len(t) + 1) + 1]
    BY <1>3, <2>1
  <2> QED
    BY <1>7, <1>8, <2>1, <2>2 DEF Joined
<1> QED
  BY <1>7, <1>8, <1>9, <1>10 DEF Joined, Spliced

(* A relation that is reflexive and transitive holds between a value and   *)
(* every later one when it holds between neighbours.                       *)
LEMMA ChainClimb ==
  ASSUME NEW S, NEW items \in Seq(Item), NEW F \in Values(items, S), NEW T,
         \A a \in S : <<a, a>> \in T,
         \A a, b, c \in S : <<a, b>> \in T /\ <<b, c>> \in T => <<a, c>> \in T,
         \A i \in DOMAIN items : <<F[i], F[i + 1]>> \in T,
         NEW k \in 1 .. Len(items) + 1
  PROVE  \A i \in k .. Len(items) + 1 : <<F[k], F[i]>> \in T
<1> DEFINE Bad == {i \in k .. Len(items) + 1 : <<F[k], F[i]>> \notin T}
<1>1. Len(items) \in Nat /\ k \in Nat /\ k >= 1
  OBVIOUS
<1>2. Bad = {}
  <2> SUFFICES ASSUME Bad # {} PROVE FALSE
    OBVIOUS
  <2>1. Bad \in SUBSET Nat
    BY <1>1
  <2>2. PICK i \in Bad : \A j \in Bad : i <= j
    BY <2>1, LeastElement
  <2>3. i # k
    <3>1. F[k] \in S
      BY <1>1 DEF Values
    <3> QED
      BY <3>1
  <2>4. /\ i - 1 \in DOMAIN items /\ i - 1 \in k .. Len(items) + 1 /\ ~(i <= i - 1)
        /\ (i - 1) + 1 = i
    BY <1>1, <2>3
  <2>5. <<F[k], F[i - 1]>> \in T
    BY <2>2, <2>4
  <2>6. <<F[i - 1], F[i]>> \in T
    <3>1. <<F[i - 1], F[(i - 1) + 1]>> \in T
      BY <2>4
    <3> QED
      BY <2>4, <3>1
  <2>7. F[k] \in S /\ F[i - 1] \in S /\ F[i] \in S
    BY <1>1, <2>4 DEF Values
  <2> QED
    BY <2>5, <2>6, <2>7
<1> QED
  BY <1>2

-----------------------------------------------------------------------------
(* The stack of types: how many each item finds, needs and leaves *)

Effect(w) ==
  CASE w.op \in {"expr", "yield"} -> 1
    [] w.op \in {"declare", "store", "test", "operate"} -> -1
    [] w.op = "discard" -> -Len(ast[w.node].kids)
    [] OTHER -> 0

Needs(w) ==
  CASE w.op \in {"declare", "store", "test", "negate"} -> 1
    [] w.op = "operate" -> 2
    [] w.op = "discard" -> Len(ast[w.node].kids)
    [] OTHER -> 0

Prices == {p \in Item \X Nat \X Nat : p[2] >= Needs(p[1]) /\ p[3] = p[2] + Effect(p[1])}

(* x types are there before the items and y after them, and none of them   *)
(* takes more than there are.                                              *)
Priced(items, x, y) ==
  \E g \in Values(items, Nat) :
    Links(g, items, Prices) /\ g[1] = x /\ g[Len(items) + 1] = y

TypesPriced == Priced(work, Len(types), 0)

LEMMA PricedNone ==
  ASSUME NEW x \in Nat
  PROVE  Priced(<<>>, x, x)
<1> DEFINE g == [i \in 1 .. Len(<<>>) + 1 |-> x]
<1>1. g \in Values(<<>>, Nat) /\ g[1] = x /\ g[Len(<<>>) + 1] = x
  BY DEF Values
<1>2. Links(g, <<>>, Prices)
  BY DEF Links
<1> HIDE DEF g
<1> QED
  BY <1>1, <1>2 DEF Priced

LEMMA PricedOne ==
  ASSUME NEW w \in Item, NEW x \in Nat, x >= Needs(w), x + Effect(w) \in Nat
  PROVE  Priced(<<w>>, x, x + Effect(w))
<1> DEFINE y == x + Effect(w)
           g == [i \in 1 .. Len(<<w>>) + 1 |-> IF i = 1 THEN x ELSE y]
<1>1. <<w, x, y>> \in Prices
  BY DEF Prices
<1>2. Len(<<w>>) = 1 /\ DOMAIN <<w>> = {1} /\ <<w>>[1] = w
  OBVIOUS
<1> HIDE DEF y
<1>3. y \in Nat
  BY DEF y
<1>4. g \in Values(<<w>>, Nat) /\ g[1] = x /\ g[2] = y
  BY <1>2, <1>3 DEF Values
<1> HIDE DEF g
<1>5. Links(g, <<w>>, Prices)
  BY <1>1, <1>2, <1>4 DEF Links
<1>6. Priced(<<w>>, x, y)
  BY <1>2, <1>4, <1>5 DEF Priced
<1> QED
  BY <1>6 DEF y

LEMMA PricedJoin ==
  ASSUME NEW s \in Seq(Item), NEW t \in Seq(Item), NEW x, NEW y, NEW z,
         Priced(s, x, y), Priced(t, y, z)
  PROVE  Priced(s \o t, x, z)
<1>1. PICK g \in Values(s, Nat) : Links(g, s, Prices) /\ g[1] = x /\ g[Len(s) + 1] = y
  BY DEF Priced
<1>2. PICK h \in Values(t, Nat) : Links(h, t, Prices) /\ h[1] = y /\ h[Len(t) + 1] = z
  BY DEF Priced
<1>3. g[Len(s) + 1] = h[1]
  BY <1>1, <1>2
<1>4. PICK k \in Values(s \o t, Nat) : Links(k, s \o t, Prices) /\ Joined(k, g, h, s, t)
  BY <1>1, <1>2, <1>3, ChainJoin
<1> QED
  BY <1>1, <1>2, <1>4 DEF Priced, Joined

LEMMA PricedEach ==
  ASSUME NEW ks \in Seq(DOMAIN ast), NEW x \in Nat
  PROVE  Priced(Each("stmt", ks), x, x) /\ Priced(Each("expr", ks), x, x + Len(ks))
<1>1. \A op \in {"stmt", "expr"} :
        /\ Each(op, ks) \in Seq(Item) /\ DOMAIN Each(op, ks) = 1 .. Len(ks)
        /\ Len(Each(op, ks)) = Len(ks)
        /\ \A i \in 1 .. Len(ks) : Each(op, ks)[i] \in Item /\ Each(op, ks)[i].op = op
  <2> SUFFICES ASSUME NEW op \in {"stmt", "expr"}
               PROVE  /\ Each(op, ks) \in Seq(Item) /\ DOMAIN Each(op, ks) = 1 .. Len(ks)
                      /\ Len(Each(op, ks)) = Len(ks)
                      /\ \A i \in 1 .. Len(ks) : Each(op, ks)[i] \in Item /\ Each(op, ks)[i].op = op
    OBVIOUS
  <2>1. Each(op, ks) \in Seq(Item)
    BY EachType DEF Ops
  <2>2. DOMAIN Each(op, ks) = 1 .. Len(ks)
    BY DEF Each
  <2>3. \A i \in 1 .. Len(ks) : Each(op, ks)[i] = Do(op, ks[i])
    BY DEF Each
  <2>4. \A i \in 1 .. Len(ks) : Each(op, ks)[i].op = op
    BY <2>3, DoFields
  <2>5. Len(Each(op, ks)) = Len(ks) /\ \A i \in 1 .. Len(ks) : Each(op, ks)[i] \in Item
    BY <2>1, <2>2
  <2> QED
    BY <2>1, <2>2, <2>4, <2>5
<1>2. Len(ks) \in Nat
  OBVIOUS
<1>3. Priced(Each("stmt", ks), x, x)
  <2> DEFINE s == Each("stmt", ks)
             g == [i \in 1 .. Len(s) + 1 |-> x]
  <2>1. \A w \in Item : w.op = "stmt" => <<w, x, x>> \in Prices
    BY DEF Prices, Effect, Needs
  <2>2. /\ DOMAIN s = 1 .. Len(ks) /\ Len(s) = Len(ks)
        /\ \A i \in 1 .. Len(ks) : s[i] \in Item /\ s[i].op = "stmt"
    BY <1>1
  <2> HIDE DEF s
  <2>3. \A i \in 1 .. Len(ks) + 1 : g[i] = x
    BY <2>2
  <2>4. g \in Values(s, Nat) /\ g[1] = x /\ g[Len(s) + 1] = x
    BY <1>2, <2>2, <2>3 DEF Values
  <2> HIDE DEF g
  <2>5. Links(g, s, Prices)
    <3> SUFFICES ASSUME NEW i \in 1 .. Len(ks) PROVE <<s[i], g[i], g[i + 1]>> \in Prices
      BY <2>2 DEF Links
    <3>1. g[i] = x /\ g[i + 1] = x
      BY <1>2, <2>3
    <3> QED
      BY <2>1, <2>2, <3>1
  <2> QED
    BY <2>4, <2>5 DEF Priced, s
<1>4. Priced(Each("expr", ks), x, x + Len(ks))
  <2> DEFINE s == Each("expr", ks)
             g == [i \in 1 .. Len(s) + 1 |-> x + (i - 1)]
  <2>1. \A w \in Item, y \in Nat : w.op = "expr" => <<w, y, y + 1>> \in Prices
    BY DEF Prices, Effect, Needs
  <2>2. /\ DOMAIN s = 1 .. Len(ks) /\ Len(s) = Len(ks)
        /\ \A i \in 1 .. Len(ks) : s[i] \in Item /\ s[i].op = "expr"
    BY <1>1
  <2> HIDE DEF s
  <2>3. \A i \in 1 .. Len(ks) + 1 : g[i] = x + (i - 1) /\ x + (i - 1) \in Nat
    BY <1>2, <2>2
  <2>4. g \in Values(s, Nat) /\ g[1] = x /\ g[Len(s) + 1] = x + Len(ks)
    BY <1>2, <2>2, <2>3 DEF Values
  <2> HIDE DEF g
  <2>5. Links(g, s, Prices)
    <3> SUFFICES ASSUME NEW i \in 1 .. Len(ks) PROVE <<s[i], g[i], g[i + 1]>> \in Prices
      BY <2>2 DEF Links
    <3>1. g[i] \in Nat /\ g[i + 1] = g[i] + 1
      BY <1>2, <2>3
    <3> QED
      BY <2>1, <2>2, <3>1
  <2> QED
    BY <2>4, <2>5 DEF Priced, s
<1> QED
  BY <1>3, <1>4

LEMMA PriceContinue ==
  ASSUME IInv, TypesPriced, work # <<>>, ast' = ast, NEW items \in Seq(Item),
         Continue(items), Priced(items, Len(types'), Len(types) + Effect(work[1]))
  PROVE  TypesPriced'
<1>1. work \in Seq(Item) /\ 1 \in DOMAIN work
  BY DEF IInv, WorkOK
<1>2. PICK F \in Values(work, Nat) :
        Links(F, work, Prices) /\ F[1] = Len(types) /\ F[Len(work) + 1] = 0
  BY DEF TypesPriced, Priced
<1>3. PICK g \in Values(items, Nat) :
        /\ Links(g, items, Prices) /\ g[1] = Len(types')
        /\ g[Len(items) + 1] = Len(types) + Effect(work[1])
  BY DEF Priced
<1>4. F[2] = Len(types) + Effect(work[1])
  <2>1. <<work[1], F[1], F[2]>> \in Prices
    BY <1>1, <1>2 DEF Links
  <2> QED
    BY <1>2, <2>1 DEF Prices
<1>5. PICK G \in Values(work', Nat) : Links(G, work', Prices) /\ Spliced(G, g, F, items)
  <2>1. LinksAfter(F, work, Prices)
    BY <1>2 DEF Links, LinksAfter
  <2> QED
    BY <1>1, <1>2, <1>3, <1>4, <2>1, ChainContinue
<1>6. Prices' = Prices
  BY DEF Prices, Effect, Needs, Item
<1>7. G[1] = Len(types') /\ G[Len(work') + 1] = 0
  BY <1>2, <1>3, <1>5 DEF Spliced
<1> QED
  BY <1>5, <1>6, <1>7 DEF TypesPriced, Priced, Values, Links

(* The prices of single items, by what they do. *)
LEMMA DoPrices ==
  ASSUME NEW n \in DOMAIN ast, NEW x \in Nat
  PROVE  /\ \A op \in {"stmt", "loop", "launch"} : Priced(<<Do(op, n)>>, x, x)
         /\ \A op \in {"expr", "yield"} : Priced(<<Do(op, n)>>, x, x + 1)
         /\ \A op \in {"declare", "store", "test"} : Priced(<<Do(op, n)>>, x + 1, x)
         /\ Priced(<<Do("operate", n)>>, x + 2, x + 1)
         /\ Priced(<<Do("negate", n)>>, x + 1, x + 1)
         /\ Len(ast[n].kids) \in Nat =>
              Priced(<<Do("discard", n)>>, x + Len(ast[n].kids), x)
<1>1. \A op \in Ops : Do(op, n) \in Item /\ Do(op, n).op = op /\ Do(op, n).node = n
  BY DoType, DoFields
<1>2. ASSUME NEW op \in {"stmt", "loop", "launch"} PROVE Priced(<<Do(op, n)>>, x, x)
  <2>1. Effect(Do(op, n)) = 0 /\ Needs(Do(op, n)) = 0
    BY <1>1 DEF Effect, Needs, Ops
  <2>2. Do(op, n) \in Item
    BY <1>1 DEF Ops
  <2> QED
    BY <2>1, <2>2, PricedOne
<1>3. ASSUME NEW op \in {"expr", "yield"} PROVE Priced(<<Do(op, n)>>, x, x + 1)
  <2>1. Effect(Do(op, n)) = 1 /\ Needs(Do(op, n)) = 0
    BY <1>1 DEF Effect, Needs, Ops
  <2>2. Do(op, n) \in Item
    BY <1>1 DEF Ops
  <2>3. x >= 0 /\ x + 1 \in Nat
    OBVIOUS
  <2> QED
    BY <2>1, <2>2, <2>3, PricedOne
<1>4. ASSUME NEW op \in {"declare", "store", "test"} PROVE Priced(<<Do(op, n)>>, x + 1, x)
  <2>1. Effect(Do(op, n)) = -1 /\ Needs(Do(op, n)) = 1
    BY <1>1 DEF Effect, Needs, Ops
  <2>2. Do(op, n) \in Item
    BY <1>1 DEF Ops
  <2>3. x + 1 \in Nat /\ x + 1 >= 1 /\ (x + 1) + (-1) = x
    OBVIOUS
  <2> QED
    BY <2>1, <2>2, <2>3, PricedOne
<1>5. Priced(<<Do("operate", n)>>, x + 2, x + 1)
  <2>1. Effect(Do("operate", n)) = -1 /\ Needs(Do("operate", n)) = 2
    BY <1>1 DEF Effect, Needs, Ops
  <2>2. Do("operate", n) \in Item
    BY <1>1 DEF Ops
  <2>3. x + 2 \in Nat /\ x + 2 >= 2 /\ (x + 2) + (-1) = x + 1 /\ x + 1 \in Nat
    OBVIOUS
  <2> QED
    BY <2>1, <2>2, <2>3, PricedOne
<1>6. Priced(<<Do("negate", n)>>, x + 1, x + 1)
  <2>1. Effect(Do("negate", n)) = 0 /\ Needs(Do("negate", n)) = 1
    BY <1>1 DEF Effect, Needs, Ops
  <2>2. Do("negate", n) \in Item
    BY <1>1 DEF Ops
  <2>3. x + 1 \in Nat /\ x + 1 >= 1 /\ (x + 1) + 0 = x + 1
    OBVIOUS
  <2> QED
    BY <2>1, <2>2, <2>3, PricedOne
<1>7. ASSUME Len(ast[n].kids) \in Nat
      PROVE  Priced(<<Do("discard", n)>>, x + Len(ast[n].kids), x)
  <2> DEFINE k == Len(ast[n].kids)
  <2>1. Effect(Do("discard", n)) = -k /\ Needs(Do("discard", n)) = k
    BY <1>1 DEF Effect, Needs, Ops
  <2>2. Do("discard", n) \in Item
    BY <1>1 DEF Ops
  <2> HIDE DEF k
  <2>3. k \in Nat
    BY <1>7 DEF k
  <2>4. x + k \in Nat /\ x + k >= k /\ (x + k) + (-k) = x
    BY <2>3
  <2>5. Priced(<<Do("discard", n)>>, x + k, x)
    BY <2>1, <2>2, <2>4, PricedOne
  <2> QED
    BY <2>5 DEF k
<1> QED
  BY <1>2, <1>3, <1>4, <1>5, <1>6, <1>7

(* The arguments of a call are evaluated and dropped. *)
LEMMA PricedCallItems ==
  ASSUME ast \in Programs, NEW n \in DOMAIN ast, NEW x \in Nat
  PROVE  Priced(CallItems(n), x, x)
<1> DEFINE kids == ast[n].kids
           s    == Each("expr", kids)
           t    == <<Do("discard", n)>>
           u    == IF ast[n].par = "regular" THEN <<>> ELSE <<Do("launch", n)>>
<1>1. kids \in Seq(DOMAIN ast) /\ Len(kids) \in Nat
  BY NodeFacts
<1>2. s \in Seq(Item) /\ t \in Seq(Item) /\ u \in Seq(Item) /\ s \o t \in Seq(Item)
  <2>1. s \in Seq(Item) /\ t \in Seq(Item)
    BY <1>1, EachType, DoType DEF Ops
  <2>2. u \in Seq(Item)
    BY NoItems, DoType DEF Ops
  <2> HIDE DEF s, t
  <2> QED
    BY <2>1, <2>2, ConcatProperties
<1>3. Priced(s, x, x + Len(kids)) /\ Priced(t, x + Len(kids), x)
  BY <1>1, PricedEach, DoPrices
<1>4. Priced(u, x, x)
  BY PricedNone, DoPrices
<1> HIDE DEF s, t, u
<1>5. Priced((s \o t) \o u, x, x)
  BY <1>2, <1>3, <1>4, PricedJoin
<1> QED
  BY <1>5 DEF CallItems, s, t, u

(* The calls of a step leave what the call they are made by should leave. *)
LEMMA PricedCalls ==
  ASSUME ast \in Programs, NEW w, QuietItem(w), NEW x \in Nat, w.op \in {"stmt", "expr"},
         w.op = "expr" => ast[w.node].kind \in {"call", "binop", "unary"}
  PROVE  Priced(Calls(w), x, x + Effect(w))
<1> DEFINE n    == w.node
           kids == ast[n].kids
<1>1. n \in DOMAIN ast /\ kids \in Seq(DOMAIN ast)
  BY NodeFacts DEF QuietItem
<1>2. \A i \in DOMAIN kids : kids[i] \in DOMAIN ast
  BY <1>1
<1>3. ASSUME 1 \in DOMAIN kids, NEW op \in {"declare", "store", "test"}
      PROVE  /\ Evaluate(n) \o <<Do(op, n)>> \in Seq(Item)
             /\ Priced(Evaluate(n) \o <<Do(op, n)>>, x, x)
  <2>1. Priced(Evaluate(n), x, x + 1)
    BY <1>2, <1>3, DoPrices DEF Evaluate
  <2>2. Priced(<<Do(op, n)>>, x + 1, x)
    BY <1>1, <1>3, DoPrices
  <2>3. Evaluate(n) \in Seq(Item) /\ <<Do(op, n)>> \in Seq(Item)
    BY <1>1, <1>2, <1>3, DoType DEF Evaluate, Ops
  <2>4. Evaluate(n) \o <<Do(op, n)>> \in Seq(Item)
    BY <2>3, ConcatProperties
  <2> QED
    BY <2>1, <2>2, <2>3, <2>4, PricedJoin
<1>4. CASE w.op = "stmt" /\ ast[n].kind \in {"decl", "update"}
  <2>1. Effect(w) = 0
    BY <1>4 DEF Effect
  <2>2. CASE ast[n].kind = "decl"
    <3>1. 1 \in DOMAIN kids
      BY <1>1, <2>2, NodeFacts
    <3>2. Calls(w) = Evaluate(n) \o <<Do("declare", n)>>
      BY <1>4, <2>2 DEF Calls
    <3> QED
      BY <1>3, <2>1, <3>1, <3>2
  <2>3. CASE ast[n].kind = "update" /\ kids = <<>>
    <3>1. Calls(w) = <<>>
      BY <1>4, <2>3 DEF Calls
    <3> QED
      BY <2>1, <3>1, PricedNone
  <2>4. CASE ast[n].kind = "update" /\ kids # <<>>
    <3>1. 1 \in DOMAIN kids
      BY <1>1, <2>4
    <3>2. Calls(w) = Evaluate(n) \o <<Do("store", n)>>
      BY <1>4, <2>4 DEF Calls
    <3> QED
      BY <1>3, <2>1, <3>1, <3>2
  <2> QED
    BY <1>4, <2>2, <2>3, <2>4
<1>5. CASE w.op = "stmt" /\ ast[n].kind = "if"
  <2> DEFINE s == Evaluate(n) \o <<Do("test", n)>>
             t == Each("stmt", Tail(kids))
  <2>1. Effect(w) = 0 /\ Calls(w) = s \o t
    BY <1>5 DEF Effect, Calls
  <2>2. kids # <<>> /\ 1 \in DOMAIN kids
    BY <1>1, <1>5, NodeFacts
  <2>3. s \in Seq(Item) /\ Priced(s, x, x)
    BY <1>3, <2>2
  <2>4. Tail(kids) \in Seq(DOMAIN ast)
    BY <1>1, <2>2, HeadTailProperties
  <2>5. t \in Seq(Item) /\ Priced(t, x, x)
    BY <2>4, EachType, PricedEach DEF Ops
  <2> HIDE DEF s, t
  <2> QED
    BY <2>1, <2>3, <2>5, PricedJoin
<1>6. CASE w.op = "stmt" /\ ast[n].kind = "for"
  <2> DEFINE a == Do("stmt", kids[1])
             b == Do("expr", kids[2])
             c == Do("test", n)
             d == Do("stmt", kids[3])
             e == IF ast[n].par = "thread" THEN Do("loop", n) ELSE Do("stmt", kids[4])
             s == <<a, b, c, d, e>>
             g == [i \in 1 .. 6 |-> IF i = 3 THEN x + 1 ELSE x]
  <2>1. Effect(w) = 0 /\ Calls(w) = s
    BY <1>6 DEF Effect, Calls
  <2>2. /\ kids[1] \in DOMAIN ast /\ kids[2] \in DOMAIN ast
        /\ kids[3] \in DOMAIN ast /\ kids[4] \in DOMAIN ast
    BY <1>1, <1>2, <1>6, NodeFacts
  <2>3. /\ a \in Item /\ a.op = "stmt" /\ b \in Item /\ b.op = "expr"
        /\ c \in Item /\ c.op = "test" /\ d \in Item /\ d.op = "stmt"
        /\ e \in Item /\ e.op \in {"stmt", "loop"}
    BY <1>1, <2>2, DoType, DoFields DEF Ops
  <2> HIDE DEF a, b, c, d, e
  <2>4. s \in Seq(Item) /\ Len(s) = 5 /\ DOMAIN s = {1, 2, 3, 4, 5}
    BY <2>3
  <2>5. g \in Values(s, Nat)
    BY <2>4 DEF Values
  <2>6. /\ <<a, x, x>> \in Prices /\ <<b, x, x + 1>> \in Prices
        /\ <<c, x + 1, x>> \in Prices /\ <<d, x, x>> \in Prices /\ <<e, x, x>> \in Prices
    BY <2>3 DEF Prices, Effect, Needs
  <2>7. \A i \in {1, 2, 3, 4, 5} : <<s[i], g[i], g[i + 1]>> \in Prices
    BY <2>6
  <2>8. g[1] = x /\ g[Len(s) + 1] = x
    BY <2>4
  <2>9. Priced(s, x, x)
    BY <2>4, <2>5, <2>7, <2>8 DEF Priced, Links
  <2> QED
    BY <2>1, <2>9
<1>7. CASE w.op = "stmt" /\ ast[n].kind \in {"print", "return", "await", "call"}
  <2>1. Effect(w) = 0 /\ Calls(w) = CallItems(n)
    BY <1>7 DEF Effect, Calls
  <2> QED
    BY <1>1, <2>1, PricedCallItems
<1>8. CASE w.op = "expr" /\ ast[n].kind = "call"
  <2>1. Effect(w) = 1 /\ Calls(w) = CallItems(n) \o <<Do("yield", n)>>
    BY <1>8 DEF Effect, Calls
  <2>2. CallItems(n) \in Seq(Item) /\ <<Do("yield", n)>> \in Seq(Item)
    BY <1>1, CallItemsType, DoType DEF Ops
  <2>3. Priced(CallItems(n), x, x) /\ Priced(<<Do("yield", n)>>, x, x + 1)
    BY <1>1, PricedCallItems, DoPrices
  <2> QED
    BY <2>1, <2>2, <2>3, PricedJoin
<1>9. CASE w.op = "expr" /\ ast[n].kind \in {"binop", "unary"}
  <2> DEFINE op == IF ast[n].kind = "binop" THEN "operate" ELSE "negate"
             s  == Each("expr", kids)
             t  == <<Do(op, n)>>
  <2>1. Effect(w) = 1 /\ Calls(w) = s \o t
    BY <1>9 DEF Effect, Calls
  <2>2. s \in Seq(Item) /\ t \in Seq(Item)
    BY <1>1, EachType, DoType DEF Ops
  <2>3. Priced(s, x, x + Len(kids))
    BY <1>1, PricedEach
  <2>4. Priced(t, x + Len(kids), x + 1)
    <3>1. CASE ast[n].kind = "binop"
      <4>1. Len(kids) = 2
        BY <1>1, <3>1, KidKinds
      <4> QED
        BY <1>1, <3>1, <4>1, DoPrices
    <3>2. CASE ast[n].kind = "unary"
      <4>1. Len(kids) = 1
        BY <1>1, <3>2, KidKinds
      <4> QED
        BY <1>1, <3>2, <4>1, DoPrices
    <3> QED
      BY <1>9, <3>1, <3>2
  <2> HIDE DEF s, t
  <2> QED
    BY <2>1, <2>2, <2>3, <2>4, PricedJoin
<1> QED
  BY <1>4, <1>5, <1>6, <1>7, <1>8, <1>9 DEF QuietItem

LEMMA HeadPrice ==
  ASSUME IInv, TypesPriced, work # <<>>
  PROVE  /\ Len(types) \in Nat /\ Len(types) >= Needs(work[1])
         /\ Len(types) + Effect(work[1]) \in Nat
<1>1. work \in Seq(Item) /\ 1 \in DOMAIN work /\ types \in Seq(Types)
  BY DEF IInv, WorkOK, TypeStackOK
<1>2. PICK F \in Values(work, Nat) : Links(F, work, Prices) /\ F[1] = Len(types)
  BY DEF TypesPriced, Priced
<1>3. <<work[1], F[1], F[2]>> \in Prices
  BY <1>1, <1>2 DEF Links
<1> QED
  BY <1>1, <1>2, <1>3 DEF Prices

LEMMA PopLength ==
  ASSUME TypeStackOK, NEW k \in Nat, k <= Len(types)
  PROVE  Len(SubSeq(types, k + 1, Len(types))) = Len(types) - k
BY SubSeqProperties DEF TypeStackOK

LEMMA PushLength ==
  ASSUME NEW s \in Seq(Types), NEW type \in Types
  PROVE  Len(<<type>> \o s) = Len(s) + 1
<1>1. <<type>> \in Seq(Types) /\ Len(<<type>>) = 1
  OBVIOUS
<1>2. Len(<<type>> \o s) = Len(<<type>>) + Len(s)
  BY <1>1, ConcatProperties
<1> QED
  BY <1>1, <1>2

(* What a quiet step does to the stack of types. *)
LEMMA QuietPrice ==
  ASSUME WalkInv, TypesPriced, QuietStep
  PROVE  Priced(Calls(work[1]), Len(types'), Len(types) + Effect(work[1]))
<1> DEFINE n == work[1].node
           w == work[1]
<1>1. /\ work # <<>> /\ QuietItem(w) /\ ast \in Programs /\ IInv /\ TypeStackOK
      /\ types \in Seq(Types)
  BY QuietCalls DEF WalkInv, IInv, TypeStackOK
<1>2. /\ Len(types) \in Nat /\ Len(types) >= Needs(w) /\ Len(types) + Effect(w) \in Nat
  BY <1>1, HeadPrice
<1>3. CASE \/ DeclarationValue \/ Update \/ IfStatement \/ ForLoop \/ Operands
           \/ Operator \/ CallValue
  <2>1. /\ w.op \in {"stmt", "expr"}
        /\ w.op = "expr" => ast[n].kind \in {"call", "binop", "unary"}
        /\ types' = types
    BY <1>3 DEF DeclarationValue, Update, IfStatement, ForLoop, Operands, Operator,
       CallValue, At, nd
  <2> QED
    BY <1>1, <1>2, <2>1, PricedCalls
<1>4. ASSUME w.op \notin {"stmt", "expr"} \/ ast[n].kind \in {"int", "string", "ident"},
             Len(types') = Len(types) + Effect(w)
      PROVE  Priced(Calls(w), Len(types'), Len(types) + Effect(w))
  <2>1. Calls(w) = <<>>
    BY <1>4 DEF Calls
  <2> QED
    BY <1>2, <1>4, <2>1, PricedNone
<1>5. CASE Declare \/ Store \/ Test
  <2>1. w.op \in {"declare", "store", "test"} /\ Pop(1)
    BY <1>5 DEF Declare, Store, Test, At
  <2>2. Effect(w) = -1 /\ Needs(w) = 1
    BY <2>1 DEF Effect, Needs
  <2>3. Len(types') = Len(types) - 1
    BY <1>1, <1>2, <2>1, <2>2, PopLength DEF Pop
  <2> QED
    BY <1>2, <1>4, <2>1, <2>2, <2>3
<1>6. CASE Discard
  <2> DEFINE k == Len(ast[n].kids)
  <2>1. w.op = "discard" /\ Pop(k)
    BY <1>6 DEF Discard, At, nd
  <2>2. Effect(w) = -k /\ Needs(w) = k
    BY <2>1 DEF Effect, Needs
  <2>3. k \in Nat
    BY <1>1, NodeFacts DEF QuietItem
  <2> HIDE DEF k
  <2>4. Len(types') = Len(types) - k
    BY <1>1, <1>2, <2>1, <2>2, <2>3, PopLength DEF Pop
  <2> QED
    BY <1>2, <1>4, <2>1, <2>2, <2>3, <2>4
<1>7. CASE Operate
  <2>1. w.op = "operate" /\ types' = <<"int">> \o SubSeq(types, 2 + 1, Len(types))
    BY <1>7 DEF Operate, At
  <2>2. Effect(w) = -1 /\ Needs(w) = 2
    BY <2>1 DEF Effect, Needs
  <2>3. Len(SubSeq(types, 2 + 1, Len(types))) = Len(types) - 2
    BY <1>1, <1>2, <2>2, PopLength
  <2>4. SubSeq(types, 2 + 1, Len(types)) \in Seq(Types)
    <3>1. \A i \in 2 + 1 .. Len(types) : types[i] \in Types
      BY <1>1
    <3> QED
      BY <1>2, <3>1, SubSeqProperties
  <2>5. Len(types') = (Len(types) - 2) + 1
    BY <2>1, <2>3, <2>4, PushLength DEF Types
  <2> QED
    BY <1>2, <1>4, <2>1, <2>2, <2>5
<1>8. CASE Negate \/ LaunchUnknown
  <2>1. w.op \in {"negate", "launch"} /\ types' = types
    BY <1>8 DEF Negate, LaunchUnknown, At
  <2>2. Effect(w) = 0
    BY <2>1 DEF Effect
  <2> QED
    BY <1>2, <1>4, <2>1, <2>2
<1>9. CASE Literal \/ Identifier \/ Yield
  <2>1. /\ w.op \in {"expr", "yield"}
        /\ w.op = "expr" => ast[n].kind \in {"int", "string", "ident"}
    BY <1>9 DEF Literal, Identifier, Yield, At, nd
  <2>2. Effect(w) = 1
    BY <2>1 DEF Effect
  <2>3. \E type \in Types : Push(type)
    <3>1. CASE Literal
      BY <3>1 DEF Literal, At, Types
    <3>2. CASE Identifier
      <4>1. nd.name \in Names
        BY <1>1, <3>2, AtHead, NodeFacts DEF Identifier, nd, At, QuietItem
      <4>2. PICK l \in DOMAIN scopes : Binds(l, nd.name) /\ Push(scopes[l][nd.name].type)
        BY <3>2 DEF Identifier
      <4>3. scopes[l][nd.name] \in Entry
        BY <1>1, <4>1, <4>2, BoundEntry DEF IInv
      <4> QED
        BY <4>2, <4>3 DEF Entry
    <3>3. CASE Yield
      BY <3>3 DEF Yield, Types
    <3> QED
      BY <1>9, <3>1, <3>2, <3>3
  <2>4. Len(types') = Len(types) + 1
    BY <1>1, <2>3, PushLength DEF Push
  <2> QED
    BY <1>4, <2>1, <2>2, <2>4
<1> QED
  BY <1>3, <1>5, <1>6, <1>7, <1>8, <1>9 DEF QuietStep

(* The items of the steps that open a scope or a context touch no type. *)
LEMMA PricedStatements ==
  ASSUME NEW ks \in Seq(DOMAIN ast), NEW t \in Seq(Item), NEW x \in Nat,
         \A i \in DOMAIN t : t[i].op \in {"stmt", "leave", "endContext", "endLoop"}
  PROVE  Priced(Each("stmt", ks) \o t, x, x)
<1>1. Each("stmt", ks) \in Seq(Item) /\ Priced(Each("stmt", ks), x, x)
  BY EachType, PricedEach DEF Ops
<1> DEFINE g == [i \in 1 .. Len(t) + 1 |-> x]
<1>2. Len(t) \in Nat /\ DOMAIN t = 1 .. Len(t) /\ \A i \in DOMAIN t : t[i] \in Item
  OBVIOUS
<1>3. g \in Values(t, Nat) /\ g[1] = x /\ g[Len(t) + 1] = x
  BY <1>2 DEF Values
<1>4. Links(g, t, Prices)
  <2> SUFFICES ASSUME NEW i \in DOMAIN t PROVE <<t[i], g[i], g[i + 1]>> \in Prices
    BY DEF Links
  <2>1. g[i] = x /\ g[i + 1] = x
    BY <1>2
  <2>2. Effect(t[i]) = 0 /\ Needs(t[i]) = 0
    BY DEF Effect, Needs
  <2> QED
    BY <1>2, <2>1, <2>2 DEF Prices
<1> HIDE DEF g
<1>5. Priced(t, x, x)
  BY <1>3, <1>4 DEF Priced
<1> QED
  BY <1>1, <1>5, PricedJoin

LEMMA PriceStep ==
  ASSUME WalkInv, TypesPriced, StepKinds
  PROVE  TypesPriced'
<1> DEFINE n == work[1].node
           x == Len(types)
<1>1. work \in Seq(Item) /\ ast \in Programs /\ IInv /\ x \in Nat
  BY DEF WalkInv, IInv, WorkOK, TypeStackOK
<1>2. CASE StopStep \/ UNCHANGED vars
  <2>1. UNCHANGED <<ast, work, types>>
    BY <1>2, StopFacts
  <2> QED
    BY <2>1 DEF TypesPriced, Priced, Prices, Links, Values, Effect, Needs, Item
<1>3. CASE QuietStep
  <2>1. work # <<>> /\ QuietItem(work[1]) /\ Continue(Calls(work[1])) /\ ast' = ast
    BY <1>1, <1>3, QuietCalls
  <2>2. Calls(work[1]) \in Seq(Item)
    BY <1>1, <2>1, PlainCalls DEF Plain
  <2> QED
    BY <1>1, <1>3, <2>1, <2>2, QuietPrice, PriceContinue
<1>4. ASSUME work # <<>>, work[1].op \in {"stmt", "launch", "loop"}, types' = types, ast' = ast,
             NEW h \in DOMAIN ast, NEW t \in Seq(Item),
             \A i \in DOMAIN t : t[i].op \in {"stmt", "leave", "endContext", "endLoop"},
             Continue(Each("stmt", ast[h].kids) \o t)
      PROVE  TypesPriced'
  <2>1. ast[h].kids \in Seq(DOMAIN ast)
    BY <1>1, NodeFacts
  <2> DEFINE items == Each("stmt", ast[h].kids) \o t
  <2>2. Each("stmt", ast[h].kids) \in Seq(Item)
    BY <2>1, EachType DEF Ops
  <2>3. items \in Seq(Item)
    BY <2>2, ConcatProperties
  <2>4. Priced(items, x, x)
    BY <1>1, <1>4, <2>1, PricedStatements
  <2>5. Effect(work[1]) = 0
    BY <1>4 DEF Effect
  <2> HIDE DEF items
  <2>6. Priced(items, Len(types'), Len(types) + Effect(work[1]))
    BY <1>1, <1>4, <2>4, <2>5
  <2>7. Continue(items)
    BY <1>4 DEF items
  <2> QED
    BY <1>1, <1>4, <2>3, <2>6, <2>7, PriceContinue
<1>5. CASE EnterStep
  <2>1. /\ work # <<>> /\ n \in DOMAIN ast /\ work[1].op = "stmt" /\ types' = types /\ ast' = ast
        /\ Continue(Each("stmt", ast[n].kids) \o <<Do("leave", n)>>)
    BY <1>5, EnterFacts
  <2>2. <<Do("leave", n)>> \in Seq(Item) /\ \A i \in DOMAIN <<Do("leave", n)>> : <<Do("leave", n)>>[i].op = "leave"
    BY <1>1, <2>1, LeaveFits, DoFields
  <2> QED
    BY <1>4, <2>1, <2>2
<1>6. CASE ThreadBlock
  <2>1. /\ work # <<>> /\ n \in DOMAIN ast /\ work[1].op = "stmt" /\ types' = types /\ ast' = ast
        /\ Continue(Each("stmt", ast[n].kids) \o <<Restore("endContext", n)>>)
    BY <1>6, ThreadBlockFacts
  <2>2. /\ <<Restore("endContext", n)>> \in Seq(Item)
        /\ \A i \in DOMAIN <<Restore("endContext", n)>> : <<Restore("endContext", n)>>[i].op = "endContext"
    BY <1>1, <2>1, RestoreFacts
  <2> QED
    BY <1>4, <2>1, <2>2
<1>7. CASE Launch
  <2>1. /\ work # <<>> /\ n \in DOMAIN ast /\ work[1].op = "launch" /\ types' = types /\ ast' = ast
    BY <1>7, LaunchFacts
  <2>2. PICK h \in DOMAIN ast :
          Continue(Each("stmt", ast[h].kids) \o <<Do("leave", h), Restore("endContext", n)>>)
    BY <1>7, LaunchFacts
  <2> DEFINE t == <<Do("leave", h), Restore("endContext", n)>>
  <2>3. /\ Do("leave", h) \in Item /\ Do("leave", h).op = "leave"
        /\ Restore("endContext", n) \in Item /\ Restore("endContext", n).op = "endContext"
    BY <1>1, <2>1, <2>2, LeaveFits, DoFields, RestoreFacts
  <2>4. t \in Seq(Item) /\ \A i \in DOMAIN t : t[i].op \in {"leave", "endContext"}
    BY <2>3
  <2> HIDE DEF t
  <2>5. Continue(Each("stmt", ast[h].kids) \o t)
    BY <2>2 DEF t
  <2> QED
    BY <1>4, <2>1, <2>4, <2>5
<1>8. CASE ThreadedBody
  <2>1. /\ work # <<>> /\ n \in ThreadedLoops /\ ast[n].kids[4] \in DOMAIN ast
        /\ work[1].op = "loop" /\ types' = types /\ ast' = ast
        /\ Continue(<<Do("stmt", ast[n].kids[4]), Restore("endLoop", n)>>)
    BY <1>8, ThreadedBodyFacts
  <2> DEFINE s == Do("stmt", ast[n].kids[4])
             t == Restore("endLoop", n)
             g == [i \in 1 .. 3 |-> x]
  <2>2. s \in Item /\ s.op = "stmt" /\ t \in Item /\ t.op = "endLoop"
    BY <1>1, <2>1, DoType, DoFields, RestoreFacts DEF ThreadedLoops, Ops
  <2> HIDE DEF s, t
  <2>3. <<s, t>> \in Seq(Item) /\ Len(<<s, t>>) = 2 /\ DOMAIN <<s, t>> = {1, 2}
    BY <2>2
  <2>4. <<s, x, x>> \in Prices /\ <<t, x, x>> \in Prices
    BY <1>1, <2>2 DEF Prices, Effect, Needs
  <2>5. g \in Values(<<s, t>>, Nat) /\ g[1] = x /\ g[Len(<<s, t>>) + 1] = x
    BY <1>1, <2>3 DEF Values
  <2>6. Links(g, <<s, t>>, Prices)
    BY <2>3, <2>4 DEF Links
  <2>7. Priced(<<s, t>>, x, x)
    BY <2>5, <2>6 DEF Priced
  <2>8. Effect(work[1]) = 0
    BY <2>1 DEF Effect
  <2>9. Priced(<<s, t>>, Len(types'), Len(types) + Effect(work[1]))
    BY <1>1, <2>1, <2>7, <2>8
  <2>10. Continue(<<s, t>>)
    BY <2>1 DEF s, t
  <2> QED
    BY <1>1, <2>1, <2>3, <2>9, <2>10, PriceContinue
<1>9. CASE Leave \/ EndLoop \/ EndContext
  <2>1. /\ work # <<>> /\ Continue(<<>>) /\ types' = types /\ ast' = ast
        /\ work[1].op \in {"leave", "endLoop", "endContext"}
    BY <1>9, ReturnFacts
  <2>2. Effect(work[1]) = 0
    BY <2>1 DEF Effect
  <2>3. Priced(<<>>, Len(types'), Len(types) + Effect(work[1]))
    BY <1>1, <2>1, <2>2, PricedNone
  <2> QED
    BY <1>1, <2>1, <2>3, NoItems, PriceContinue
<1> QED
  BY <1>2, <1>3, <1>4, <1>5, <1>6, <1>7, <1>8, <1>9 DEF StepKinds

LEMMA InitPrice == Init => TypesPriced
<1> SUFFICES ASSUME Init PROVE TypesPriced
  OBVIOUS
<1>1. work = <<Do("stmt", 1)>> /\ Len(types) = 0
  BY DEF Init
<1>2. 1 \in DOMAIN ast
  BY AllUnderProgram DEF Init
<1>3. Priced(<<Do("stmt", 1)>>, 0, 0)
  BY <1>2, DoPrices
<1> QED
  BY <1>1, <1>3 DEF TypesPriced

-----------------------------------------------------------------------------
(* What is still to be written is under a node that is still to be         *)
(* analyzed, or is the declaration at hand.                                *)

(* Under and Body as functions. *)
Subtree == [n \in DOMAIN ast |-> Under(n)]
BodyOf  == [f \in DOMAIN ast |-> Body(f)]

LEMMA SubtreeKept == UNCHANGED ast => Subtree' = Subtree /\ BodyOf' = BodyOf
BY DEF Subtree, BodyOf, Body, Under

Covers(w, n) ==
  \/ w.op \in {"stmt", "expr"} /\ n \in Subtree[w.node]
  \/ w.op = "loop" /\ n \in BodyOf[w.node]
  \/ w.op = "declare" /\ n = w.node

HasCover(items, n) == \E i \in DOMAIN items : Covers(items[i], n)

Written(n) ==
  /\ ast[n].kind \in {"decl", "update"} => isShared[n] # "unset"
  /\ ast[n].kind = "ident" => identType[n] # "unset"

Pending == \A n \in DOMAIN ast : HasCover(work, n) \/ Written(n)

LEMMA CoverJoin ==
  ASSUME NEW s \in Seq(Item), NEW t \in Seq(Item), NEW n,
         HasCover(s, n) \/ HasCover(t, n)
  PROVE  HasCover(s \o t, n)
<1>1. CASE HasCover(s, n)
  BY <1>1, AppendedItems DEF HasCover
<1>2. CASE HasCover(t, n)
  <2>1. PICK i \in DOMAIN t : Covers(t[i], n)
    BY <1>2 DEF HasCover
  <2>2. i + Len(s) \in DOMAIN (s \o t) /\ (s \o t)[i + Len(s)] = t[i]
    BY AppendedItems
  <2> QED
    BY <2>1, <2>2 DEF HasCover
<1> QED
  BY <1>1, <1>2

LEMMA CoverOne ==
  ASSUME NEW w, NEW n, Covers(w, n)
  PROVE  HasCover(<<w>>, n)
<1>1. 1 \in DOMAIN <<w>> /\ <<w>>[1] = w
  OBVIOUS
<1> QED
  BY <1>1 DEF HasCover

LEMMA CoverEach ==
  ASSUME NEW op \in {"stmt", "expr"}, NEW ks \in Seq(DOMAIN ast), NEW i \in DOMAIN ks,
         NEW n \in Under(ks[i])
  PROVE  HasCover(Each(op, ks), n)
<1>1. i \in DOMAIN Each(op, ks) /\ Each(op, ks)[i] = Do(op, ks[i])
  BY DEF Each
<1>2. n \in Subtree[ks[i]]
  BY DEF Subtree
<1> QED
  BY <1>1, <1>2, DoFields DEF HasCover, Covers

LEMMA UnderKids ==
  ASSUME ast \in Programs, NEW n \in DOMAIN ast, NEW x \in Under(n), x # n
  PROVE  \E i \in DOMAIN ast[n].kids : x \in Under(ast[n].kids[i])
BY UnderFacts DEF IsKid

(* A step keeps Pending if it covers or writes what its item covered, and  *)
(* unwrites nothing.                                                       *)
LEMMA PendingContinue ==
  ASSUME IInv, Pending, work # <<>>, ast' = ast, NEW items \in Seq(Item), Continue(items),
         \A n \in DOMAIN ast : isShared[n] # "unset" => isShared'[n] # "unset",
         \A n \in DOMAIN ast : identType[n] # "unset" => identType'[n] # "unset",
         \A n \in DOMAIN ast : Covers(work[1], n) => HasCover(items, n) \/ Written(n)'
  PROVE  Pending'
<1>1. work \in Seq(Item)
  BY DEF IInv, WorkOK
<1>2. ASSUME NEW n \in DOMAIN ast
      PROVE  (\E j \in DOMAIN work' : Covers(work'[j], n)) \/ Written(n)'
  <2>1. Written(n) => Written(n)'
    BY DEF Written
  <2>2. CASE Written(n)
    BY <2>1, <2>2
  <2>3. ASSUME HasCover(items, n) PROVE \E j \in DOMAIN work' : Covers(work'[j], n)
    BY <1>1, <2>3, ContinueAt DEF HasCover
  <2>4. CASE HasCover(work, n)
    <3>1. PICK i \in DOMAIN work : Covers(work[i], n)
      BY <2>4 DEF HasCover
    <3>2. CASE i = 1
      BY <2>3, <3>1, <3>2
    <3>3. CASE i # 1
      <4>1. i + Len(items) - 1 \in DOMAIN work' /\ work'[i + Len(items) - 1] = work[i]
        BY <1>1, <3>3, ContinueAt
      <4> QED
        BY <3>1, <4>1
    <3> QED
      BY <3>2, <3>3
  <2> QED
    BY <2>2, <2>4 DEF Pending
<1>3. Subtree' = Subtree /\ BodyOf' = BodyOf
  BY SubtreeKept
<1>4. \A n \in DOMAIN ast : HasCover(work, n)' \/ Written(n)'
  BY <1>2, <1>3 DEF HasCover, Covers
<1> QED
  BY <1>4 DEF Pending

(* The mark of a node is never taken back to unset. *)
LEMMA MarksKept ==
  ASSUME WalkInv, StepKinds
  PROVE  /\ \A n \in DOMAIN ast : isShared[n] # "unset" => isShared'[n] # "unset"
         /\ \A n \in DOMAIN ast : identType[n] # "unset" => identType'[n] # "unset"
<1>1. /\ isShared \in [DOMAIN ast -> {"unset", "private", "shared"}]
      /\ identType \in [DOMAIN ast -> {"unset"} \cup Types]
  BY DEF WalkInv, IInv, TreeOK
<1>2. CASE UNCHANGED <<isShared, identType>>
  BY <1>2
<1>3. CASE Declare
  <2>1. PICK n, e : isShared' = [isShared EXCEPT ![n] = Mark(e)] /\ identType' = identType
    BY <1>3 DEF Declare
  <2>2. Mark(e) # "unset"
    BY DEF Mark
  <2> QED
    BY <1>1, <2>1, <2>2
<1>4. CASE Update
  <2> DEFINE e(l) == Touch(scopes[l][nd.name])
  <2>1. PICK l \in DOMAIN scopes :
          isShared' = [m \in DOMAIN isShared |->
                         IF m \in {work[1].node, e(l).decl} THEN Mark(e(l)) ELSE isShared[m]]
    BY <1>4 DEF Update
  <2>2. Mark(e(l)) # "unset" /\ identType' = identType
    BY <1>4 DEF Mark, Update
  <2> HIDE DEF e
  <2> QED
    BY <1>1, <2>1, <2>2
<1>5. CASE Identifier
  <2>1. PICK l \in DOMAIN scopes :
          /\ Binds(l, nd.name) /\ UNCHANGED isShared
          /\ identType' = [identType EXCEPT ![work[1].node] = scopes[l][nd.name].type]
    BY <1>5 DEF Identifier
  <2>2. scopes[l][nd.name] \in Entry
    <3>1. nd.name \in Names
      BY <1>5, AtHead, NodeFacts DEF Identifier, nd, At, WalkInv, IInv
    <3> QED
      BY <2>1, <3>1, BoundEntry DEF WalkInv, IInv
  <2>3. scopes[l][nd.name].type # "unset"
    BY <2>2 DEF Entry, Types
  <2> QED
    BY <1>1, <2>1, <2>3
<1>6. CASE QuietStep /\ ~Declare /\ ~Update /\ ~Identifier
  <2>1. UNCHANGED <<isShared, identType>>
    BY <1>6 DEF QuietStep, DeclarationValue, Store, IfStatement, ForLoop, Test, Operands,
       Discard, LaunchUnknown, Literal, Operator, Operate, Negate, CallValue, Yield, tree
  <2> QED
    BY <1>2, <2>1
<1>7. CASE ~QuietStep
  <2>1. UNCHANGED <<isShared, identType>>
    BY <1>7, StopFacts, EnterFacts, ThreadBlockFacts, ThreadedBodyFacts, LaunchFacts,
       ReturnFacts DEF StepKinds, tree
  <2> QED
    BY <1>2, <2>1
<1> QED
  BY <1>3, <1>4, <1>5, <1>6, <1>7

(* The nodes that the item w analyzes. *)
Direct(w) ==
  CASE w.op \in {"stmt", "expr"} -> {w.node}
    [] w.op = "loop" -> {ast[w.node].kids[4]}
    [] OTHER -> {}

HasDirect(items, k) == \E i \in DOMAIN items : k \in Direct(items[i])

LEMMA DirectJoin ==
  ASSUME NEW s \in Seq(Item), NEW t \in Seq(Item), NEW k,
         HasDirect(s, k) \/ HasDirect(t, k)
  PROVE  HasDirect(s \o t, k)
<1>1. ASSUME HasDirect(s, k) PROVE HasDirect(s \o t, k)
  BY <1>1, AppendedItems DEF HasDirect
<1>2. ASSUME HasDirect(t, k) PROVE HasDirect(s \o t, k)
  <2>1. PICK i \in DOMAIN t : k \in Direct(t[i])
    BY <1>2 DEF HasDirect
  <2>2. i + Len(s) \in DOMAIN (s \o t) /\ (s \o t)[i + Len(s)] = t[i]
    BY AppendedItems
  <2> QED
    BY <2>1, <2>2 DEF HasDirect
<1> QED
  BY <1>1, <1>2

LEMMA DirectOne ==
  ASSUME NEW w, NEW k, k \in Direct(w)
  PROVE  HasDirect(<<w>>, k)
BY DEF HasDirect

LEMMA DirectEach ==
  ASSUME NEW op \in {"stmt", "expr"}, NEW ks \in Seq(DOMAIN ast), NEW i \in DOMAIN ks
  PROVE  HasDirect(Each(op, ks), ks[i])
<1>1. i \in DOMAIN Each(op, ks) /\ Each(op, ks)[i] = Do(op, ks[i])
  BY DEF Each
<1>2. ks[i] \in Direct(Do(op, ks[i]))
  BY DoFields DEF Direct
<1> QED
  BY <1>1, <1>2 DEF HasDirect

(* The calls of a quiet step analyze every child of its node. *)
LEMMA KidCalls ==
  ASSUME ast \in Programs, NEW w, QuietItem(w), w.op \in {"stmt", "expr"},
         NEW i \in DOMAIN ast[w.node].kids
  PROVE  HasDirect(Calls(w), ast[w.node].kids[i])
<1> DEFINE n    == w.node
           kids == ast[n].kids
<1>1. /\ n \in DOMAIN ast /\ kids \in Seq(DOMAIN ast)
      /\ \A j \in DOMAIN kids : kids[j] \in DOMAIN ast
  BY NodeFacts DEF QuietItem
<1>2. \A op \in {"stmt", "expr"} : HasDirect(<<Do(op, kids[i])>>, kids[i])
  BY DoFields, DirectOne DEF Direct
<1>3. ASSUME NEW op \in Ops, Len(kids) = 1
      PROVE  HasDirect(Evaluate(n) \o <<Do(op, n)>>, kids[i])
  <2>1. i = 1
    BY <1>1, <1>3
  <2>2. HasDirect(Evaluate(n), kids[i])
    BY <1>2, <2>1 DEF Evaluate
  <2>3. Evaluate(n) \in Seq(Item) /\ <<Do(op, n)>> \in Seq(Item)
    BY <1>1, <2>1, DoType DEF Evaluate, Ops
  <2> QED
    BY <2>2, <2>3, DirectJoin
<1>4. HasDirect(Each("expr", kids), kids[i]) /\ Each("expr", kids) \in Seq(Item)
  BY <1>1, DirectEach, EachType DEF Ops
<1>5. HasDirect(CallItems(n), kids[i])
  <2> DEFINE s == Each("expr", kids)
             t == <<Do("discard", n)>>
             u == IF ast[n].par = "regular" THEN <<>> ELSE <<Do("launch", n)>>
  <2>1. t \in Seq(Item) /\ u \in Seq(Item)
    BY <1>1, DoType, NoItems DEF Ops
  <2>2. s \in Seq(Item) /\ HasDirect(s, kids[i])
    BY <1>4
  <2> HIDE DEF s, t, u
  <2>3. s \o t \in Seq(Item) /\ HasDirect(s \o t, kids[i])
    BY <2>1, <2>2, DirectJoin, ConcatProperties
  <2>4. HasDirect((s \o t) \o u, kids[i])
    BY <2>1, <2>3, DirectJoin
  <2> QED
    BY <2>4 DEF CallItems, s, t, u
<1>6. CASE w.op = "stmt" /\ ast[n].kind = "decl"
  <2>1. Len(kids) = 1 /\ Calls(w) = Evaluate(n) \o <<Do("declare", n)>>
    BY <1>1, <1>6, NodeFacts DEF Calls
  <2> QED
    BY <1>3, <2>1 DEF Ops
<1>7. CASE w.op = "stmt" /\ ast[n].kind = "update"
  <2>1. kids # <<>>
    BY <1>1
  <2>2. Len(kids) = 1 /\ Calls(w) = Evaluate(n) \o <<Do("store", n)>>
    BY <1>1, <1>7, <2>1, NodeFacts DEF Calls
  <2> QED
    BY <1>3, <2>2 DEF Ops
<1>8. CASE w.op = "stmt" /\ ast[n].kind = "if"
  <2> DEFINE s == Evaluate(n) \o <<Do("test", n)>>
             t == Each("stmt", Tail(kids))
  <2>1. Calls(w) = s \o t
    BY <1>8 DEF Calls
  <2>2. kids # <<>> /\ 1 \in DOMAIN kids
    BY <1>1, <1>8, NodeFacts
  <2>3. /\ Tail(kids) \in Seq(DOMAIN ast)
        /\ \A j \in DOMAIN Tail(kids) : Tail(kids)[j] = kids[j + 1]
        /\ \A j \in DOMAIN kids : j # 1 => j - 1 \in DOMAIN Tail(kids)
    BY <1>1, <2>2, TailItems
  <2>4. Evaluate(n) \in Seq(Item) /\ <<Do("test", n)>> \in Seq(Item)
    BY <1>1, <2>2, DoType DEF Evaluate, Ops
  <2>5. s \in Seq(Item) /\ t \in Seq(Item)
    BY <2>3, <2>4, EachType, ConcatProperties DEF Ops
  <2>6. CASE i = 1
    <3>1. HasDirect(Evaluate(n), kids[i])
      BY <1>2, <2>6 DEF Evaluate
    <3>2. HasDirect(s, kids[i])
      BY <2>4, <3>1, DirectJoin
    <3> HIDE DEF s, t
    <3> QED
      BY <2>1, <2>5, <3>2, DirectJoin
  <2>7. CASE i # 1
    <3>1. i - 1 \in DOMAIN Tail(kids) /\ Tail(kids)[i - 1] = kids[i]
      BY <1>1, <2>3, <2>7
    <3>2. HasDirect(t, kids[i])
      BY <2>3, <3>1, DirectEach
    <3> HIDE DEF s, t
    <3> QED
      BY <2>1, <2>5, <3>2, DirectJoin
  <2> QED
    BY <2>6, <2>7
<1>9. CASE w.op = "stmt" /\ ast[n].kind = "for"
  <2> DEFINE last == IF ast[n].par = "thread" THEN Do("loop", n) ELSE Do("stmt", kids[4])
             s == <<Do("stmt", kids[1]), Do("expr", kids[2]), Do("test", n),
                    Do("stmt", kids[3]), last>>
  <2>1. Calls(w) = s
    BY <1>9 DEF Calls
  <2>2. i \in {1, 2, 3, 4}
    BY <1>1, <1>9, NodeFacts
  <2>3. /\ \A op \in {"stmt", "expr"} : \A k : k \in Direct(Do(op, k))
        /\ kids[4] \in Direct(Do("loop", n))
    BY DoFields DEF Direct
  <2>4. kids[4] \in Direct(last)
    BY <2>3
  <2>5. /\ DOMAIN s = {1, 2, 3, 4, 5} /\ s[5] = last
        /\ s[1] = Do("stmt", kids[1]) /\ s[2] = Do("expr", kids[2])
        /\ s[4] = Do("stmt", kids[3])
    OBVIOUS
  <2> HIDE DEF s, last
  <2>6. HasDirect(s, kids[i])
    BY <2>2, <2>3, <2>4, <2>5 DEF HasDirect
  <2> QED
    BY <2>1, <2>6
<1>10. CASE w.op = "stmt" /\ ast[n].kind \in {"print", "return", "await", "call"}
  <2>1. Calls(w) = CallItems(n)
    BY <1>10 DEF Calls
  <2> QED
    BY <1>5, <2>1
<1>11. CASE w.op = "expr" /\ ast[n].kind = "call"
  <2>1. Calls(w) = CallItems(n) \o <<Do("yield", n)>>
    BY <1>11 DEF Calls
  <2>2. CallItems(n) \in Seq(Item) /\ <<Do("yield", n)>> \in Seq(Item)
    BY <1>1, CallItemsType, DoType DEF Ops
  <2> QED
    BY <1>5, <2>1, <2>2, DirectJoin
<1>12. CASE w.op = "expr" /\ ast[n].kind \in {"binop", "unary"}
  <2> DEFINE op == IF ast[n].kind = "binop" THEN "operate" ELSE "negate"
  <2>1. Calls(w) = Each("expr", kids) \o <<Do(op, n)>>
    BY <1>12 DEF Calls
  <2>2. <<Do(op, n)>> \in Seq(Item)
    BY <1>1, DoType DEF Ops
  <2> HIDE DEF op
  <2> QED
    BY <1>4, <2>1, <2>2, DirectJoin
<1>13. CASE w.op = "expr" /\ ast[n].kind \in {"int", "string", "ident"}
  <2>1. kids = <<>>
    BY <1>1, <1>13, KidKinds
  <2> QED
    BY <2>1
<1> QED
  BY <1>6, <1>7, <1>8, <1>9, <1>10, <1>11, <1>12, <1>13 DEF QuietItem, ExprKinds

(* The calls of a quiet step cover what its item covered, but for its own  *)
(* node when that is still to be written by the step itself.               *)
LEMMA CoverCalls ==
  ASSUME ast \in Programs, NEW w, QuietItem(w), NEW x \in DOMAIN ast, Covers(w, x)
  PROVE  \/ HasCover(Calls(w), x)
         \/ x = w.node /\ ~(w.op = "stmt" /\ ast[x].kind = "decl")
<1> DEFINE n    == w.node
           kids == ast[n].kids
<1>1. n \in DOMAIN ast /\ kids \in Seq(DOMAIN ast) /\ w.op # "loop"
  BY NodeFacts DEF QuietItem
<1>2. Calls(w) \in Seq(Item)
  BY PlainCalls DEF Plain
<1>3. CASE w.op \notin {"stmt", "expr"}
  BY <1>1, <1>3 DEF Covers
<1>4. CASE w.op \in {"stmt", "expr"} /\ x # n
  <2>1. x \in Under(n)
    BY <1>1, <1>4 DEF Covers, Subtree
  <2>2. PICK i \in DOMAIN kids : x \in Under(kids[i])
    BY <1>1, <1>4, <2>1, UnderKids
  <2>3. PICK j \in DOMAIN Calls(w) : kids[i] \in Direct(Calls(w)[j])
    BY <1>4, KidCalls DEF HasDirect
  <2>4. Calls(w)[j].node \in DOMAIN ast /\ kids[i] \in DOMAIN ast
    <3>1. Calls(w)[j] \in Item
      BY <1>2
    <3> QED
      BY <1>1, <3>1 DEF Item
  <2>5. Covers(Calls(w)[j], x)
    BY <2>2, <2>3, <2>4 DEF Direct, Covers, Subtree, BodyOf, Body
  <2> QED
    BY <2>5 DEF HasCover
<1>5. CASE w.op = "stmt" /\ ast[n].kind = "decl" /\ x = n
  <2>1. Calls(w) = Evaluate(n) \o <<Do("declare", n)>>
    BY <1>5 DEF Calls
  <2>2. Covers(Do("declare", n), n)
    BY DoFields DEF Covers
  <2>3. 1 \in DOMAIN kids
    BY <1>1, <1>5, NodeFacts
  <2>4. Evaluate(n) \in Seq(Item) /\ <<Do("declare", n)>> \in Seq(Item)
    BY <1>1, <2>3, DoType DEF Evaluate, Ops
  <2> QED
    BY <1>5, <2>1, <2>2, <2>4, CoverOne, CoverJoin
<1> QED
  BY <1>3, <1>4, <1>5

LEMMA PendingStep ==
  ASSUME WalkInv, Pending, StepKinds
  PROVE  Pending'
<1> DEFINE n == work[1].node
<1>1. /\ work \in Seq(Item) /\ ast \in Programs /\ IInv
      /\ isShared \in [DOMAIN ast -> {"unset", "private", "shared"}]
      /\ identType \in [DOMAIN ast -> {"unset"} \cup Types]
  BY DEF WalkInv, IInv, WorkOK, TreeOK
<1>2. /\ \A x \in DOMAIN ast : isShared[x] # "unset" => isShared'[x] # "unset"
      /\ \A x \in DOMAIN ast : identType[x] # "unset" => identType'[x] # "unset"
  BY MarksKept
<1>3. CASE StopStep \/ UNCHANGED vars
  <2>1. UNCHANGED <<ast, work, isShared, identType>>
    BY <1>3, StopFacts
  <2>2. Subtree' = Subtree /\ BodyOf' = BodyOf
    BY <2>1, SubtreeKept
  <2> QED
    BY <2>1, <2>2 DEF Pending, HasCover, Covers, Written
<1>4. CASE QuietStep
  <2>1. /\ work # <<>> /\ QuietItem(work[1]) /\ Continue(Calls(work[1])) /\ ast' = ast
        /\ n \in DOMAIN ast
    BY <1>1, <1>4, QuietCalls DEF QuietItem
  <2>2. Calls(work[1]) \in Seq(Item)
    BY <1>1, <2>1, PlainCalls DEF Plain
  <2>3. ASSUME NEW x \in DOMAIN ast, Covers(work[1], x)
        PROVE  HasCover(Calls(work[1]), x) \/ Written(x)'
    <3>1. CASE HasCover(Calls(work[1]), x)
      BY <3>1
    <3>2. CASE x = n /\ ~(work[1].op = "stmt" /\ ast[x].kind = "decl")
      <4>1. CASE Update
        <5> DEFINE e(l) == Touch(scopes[l][nd.name])
        <5>1. PICK l \in DOMAIN scopes :
                isShared' = [m \in DOMAIN isShared |->
                               IF m \in {n, e(l).decl} THEN Mark(e(l)) ELSE isShared[m]]
          BY <4>1 DEF Update
        <5>2. Mark(e(l)) # "unset"
          BY DEF Mark
        <5>3. isShared'[n] # "unset"
          BY <1>1, <2>1, <5>1, <5>2
        <5>4. ast[n].kind = "update"
          BY <4>1 DEF Update, At, nd
        <5> QED
          BY <2>1, <3>2, <5>3, <5>4 DEF Written
      <4>2. CASE Declare
        <5>1. PICK e : isShared' = [isShared EXCEPT ![n] = Mark(e)]
          BY <4>2 DEF Declare
        <5>2. isShared'[n] # "unset"
          BY <1>1, <2>1, <5>1 DEF Mark
        <5>3. ast[n].kind = "decl"
          BY <4>2 DEF Declare, At, nd
        <5> QED
          BY <2>1, <3>2, <5>2, <5>3 DEF Written
      <4>3. CASE Identifier
        <5>1. PICK l \in DOMAIN scopes :
                /\ Binds(l, nd.name)
                /\ identType' = [identType EXCEPT ![n] = scopes[l][nd.name].type]
          BY <4>3 DEF Identifier
        <5>2. ast[n].kind = "ident"
          BY <4>3 DEF Identifier, At, nd
        <5>3. scopes[l][nd.name] \in Entry
          BY <1>1, <2>1, <5>1, <5>2, NodeFacts, BoundEntry DEF IInv, nd
        <5>4. identType'[n] # "unset"
          BY <1>1, <2>1, <5>1, <5>3 DEF Entry, Types
        <5> QED
          BY <2>1, <3>2, <5>2, <5>4 DEF Written
      <4>4. CASE ~Update /\ ~Declare /\ ~Identifier
        <5>1. /\ work[1].op # "declare"
              /\ work[1].op = "stmt" => ast[n].kind # "update"
              /\ work[1].op = "expr" => ast[n].kind # "ident"
          BY <1>4, <4>4 DEF QuietStep, DeclarationValue, Store, IfStatement, ForLoop, Test,
             Operands, Discard, LaunchUnknown, Literal, Operator, Operate, Negate,
             CallValue, Yield, At, nd
        <5>2. work[1].op \in {"stmt", "expr"}
          BY <2>1, <2>3, <5>1 DEF Covers, QuietItem
        <5>3. ast[n].kind \notin {"decl", "update", "ident"}
          BY <2>1, <3>2, <5>1, <5>2 DEF QuietItem, ExprKinds
        <5> QED
          BY <2>1, <3>2, <5>3 DEF Written
      <4> QED
        BY <4>1, <4>2, <4>3, <4>4
    <3> QED
      BY <1>1, <2>1, <2>3, <3>1, <3>2, CoverCalls
  <2> QED
    BY <1>1, <1>2, <2>1, <2>2, <2>3, PendingContinue
<1>5. ASSUME work # <<>>, n \in DOMAIN ast, work[1].op = "stmt", ast' = ast,
             ast[n].kind \notin {"decl", "update", "ident"}, NEW t \in Seq(Item),
             Continue(Each("stmt", ast[n].kids) \o t)
      PROVE  Pending'
  <2> DEFINE s == Each("stmt", ast[n].kids)
  <2>1. ast[n].kids \in Seq(DOMAIN ast)
    BY <1>1, <1>5, NodeFacts
  <2>2. s \in Seq(Item)
    BY <2>1, EachType DEF Ops
  <2>3. s \o t \in Seq(Item)
    BY <2>2, ConcatProperties
  <2>4. ASSUME NEW x \in DOMAIN ast, Covers(work[1], x)
        PROVE  HasCover(s \o t, x) \/ Written(x)'
    <3>1. x \in Under(n)
      BY <1>5, <2>4 DEF Covers, Subtree
    <3>2. CASE x = n
      BY <1>5, <3>2 DEF Written
    <3>3. CASE x # n
      <4>1. PICK i \in DOMAIN ast[n].kids : x \in Under(ast[n].kids[i])
        BY <1>1, <1>5, <3>1, <3>3, UnderKids
      <4>2. HasCover(s, x)
        BY <2>1, <4>1, CoverEach
      <4> HIDE DEF s
      <4> QED
        BY <2>2, <4>2, CoverJoin
    <3> QED
      BY <3>2, <3>3
  <2> QED
    BY <1>1, <1>2, <1>5, <2>3, <2>4, PendingContinue
<1>6. CASE EnterStep
  <2>1. /\ work # <<>> /\ n \in DOMAIN ast /\ work[1].op = "stmt" /\ ast' = ast
        /\ ast[n].kind \in {"program", "block", "func"}
        /\ Continue(Each("stmt", ast[n].kids) \o <<Do("leave", n)>>)
    BY <1>6, EnterFacts
  <2> QED
    BY <1>1, <1>5, <2>1, LeaveFits
<1>7. CASE ThreadBlock
  <2>1. /\ work # <<>> /\ n \in DOMAIN ast /\ work[1].op = "stmt" /\ ast' = ast
        /\ ast[n].kind = "thread"
        /\ Continue(Each("stmt", ast[n].kids) \o <<Restore("endContext", n)>>)
    BY <1>7, ThreadBlockFacts
  <2> QED
    BY <1>1, <1>5, <2>1, RestoreFacts
<1>8. CASE Launch
  <2>1. /\ work # <<>> /\ n \in DOMAIN ast /\ work[1].op = "launch" /\ ast' = ast
    BY <1>8, LaunchFacts
  <2>2. PICK h \in DOMAIN ast :
          /\ Plain(Each("stmt", ast[h].kids), h)
          /\ Continue(Each("stmt", ast[h].kids) \o <<Do("leave", h), Restore("endContext", n)>>)
    BY <1>8, LaunchFacts
  <2> DEFINE s == Each("stmt", ast[h].kids)
             t == <<Do("leave", h), Restore("endContext", n)>>
  <2>3. t \in Seq(Item)
    BY <1>1, <2>1, <2>2, LeaveFits, RestoreFacts
  <2>4. s \in Seq(Item)
    BY <2>2, PlainFits
  <2> HIDE DEF s, t
  <2>5. s \o t \in Seq(Item) /\ Continue(s \o t)
    BY <2>2, <2>3, <2>4, ConcatProperties DEF s, t
  <2>6. \A x \in DOMAIN ast : ~Covers(work[1], x)
    BY <2>1 DEF Covers
  <2> QED
    BY <1>1, <1>2, <2>1, <2>5, <2>6, PendingContinue
<1>9. CASE ThreadedBody
  <2>1. /\ work # <<>> /\ n \in ThreadedLoops /\ ast[n].kids[4] \in DOMAIN ast
        /\ work[1].op = "loop" /\ ast' = ast
        /\ Continue(<<Do("stmt", ast[n].kids[4]), Restore("endLoop", n)>>)
    BY <1>9, ThreadedBodyFacts
  <2> DEFINE s == Do("stmt", ast[n].kids[4])
             t == Restore("endLoop", n)
  <2>2. n \in DOMAIN ast /\ s \in Item /\ t \in Item
    BY <1>1, <2>1, DoType, RestoreFacts DEF ThreadedLoops, Ops
  <2>3. \A x \in DOMAIN ast : Covers(work[1], x) => Covers(s, x)
    <3> SUFFICES ASSUME NEW x \in DOMAIN ast, Covers(work[1], x) PROVE Covers(s, x)
      OBVIOUS
    <3>1. x \in Under(ast[n].kids[4])
      BY <2>1, <2>2 DEF Covers, BodyOf, Body
    <3> QED
      BY <2>1, <3>1, DoFields DEF Covers, Subtree
  <2> HIDE DEF s, t
  <2>4. <<s, t>> \in Seq(Item) /\ 1 \in DOMAIN <<s, t>> /\ <<s, t>>[1] = s
    BY <2>2
  <2>5. \A x \in DOMAIN ast : Covers(work[1], x) => HasCover(<<s, t>>, x)
    BY <2>3, <2>4 DEF HasCover
  <2>6. Continue(<<s, t>>)
    BY <2>1 DEF s, t
  <2> QED
    BY <1>1, <1>2, <2>1, <2>4, <2>5, <2>6, PendingContinue
<1>10. CASE Leave \/ EndLoop \/ EndContext
  <2>1. /\ work # <<>> /\ Continue(<<>>) /\ ast' = ast
        /\ work[1].op \in {"leave", "endLoop", "endContext"}
    BY <1>10, ReturnFacts
  <2>2. \A x \in DOMAIN ast : ~Covers(work[1], x)
    BY <2>1 DEF Covers
  <2> QED
    BY <1>1, <1>2, <2>1, <2>2, NoItems, PendingContinue
<1> QED
  BY <1>3, <1>4, <1>6, <1>7, <1>8, <1>9, <1>10 DEF StepKinds

LEMMA InitPending == Init => Pending
<1> SUFFICES ASSUME Init, NEW n \in DOMAIN ast PROVE HasCover(work, n)
  BY DEF Pending
<1>1. work = <<Do("stmt", 1)>> /\ ast \in Programs
  BY DEF Init
<1>2. 1 \in DOMAIN ast /\ n \in Under(1)
  BY <1>1, AllUnderProgram
<1>3. Covers(Do("stmt", 1), n)
  BY <1>2, DoFields DEF Covers, Subtree
<1> QED
  BY <1>1, <1>3, CoverOne

-----------------------------------------------------------------------------
(* The walk ends when there is nothing left to do. *)

EndsEmpty == status = "ok" => work = <<>>

LEMMA EndsStep ==
  ASSUME WalkInv, EndsEmpty, [Next]_vars
  PROVE  EndsEmpty'
<1>1. StepKinds
  BY EveryStep
<1>2. CASE Finish \/ UNCHANGED vars
  BY <1>2 DEF Finish, vars, walk, EndsEmpty
<1>3. CASE StopStep /\ ~Finish
  <2>1. status' \in {"error", "overflow"}
    BY <1>3 DEF StopStep, FunctionFails, DeclareFails, UpdateFails, StoreFails, TestFails,
       IdentifierFails, OperateFails, NegateFails, ScopeOverflow, Fail
  <2> QED
    BY <2>1 DEF EndsEmpty
<1>4. CASE QuietStep \/ EnterStep \/ ThreadBlock \/ ThreadedBody \/ Launch \/ Leave \/ EndLoop \/ EndContext
  <2>1. status = "running"
    BY <1>4 DEF QuietStep, DeclarationValue, Declare, Update, Store, IfStatement, ForLoop,
       Test, Operands, Discard, LaunchUnknown, Literal, Identifier, Operator, Operate,
       Negate, CallValue, Yield, EnterStep, Program, Block, Function, ThreadBlock,
       ThreadedBody, Launch, Leave, EndLoop, EndContext, At
  <2>2. status' = status
    BY <1>4, QuietCalls, EnterFacts, ThreadBlockFacts, ThreadedBodyFacts, LaunchFacts,
       ReturnFacts DEF WalkInv
  <2> QED
    BY <2>1, <2>2 DEF EndsEmpty
<1> QED
  BY <1>1, <1>2, <1>3, <1>4 DEF StepKinds

LEMMA AllWritten == Pending /\ EndsEmpty => AnnotationsWritten
<1> SUFFICES ASSUME Pending, EndsEmpty, status = "ok", NEW n \in DOMAIN ast
             PROVE  Written(n)
  BY DEF AnnotationsWritten, Written
<1>1. work = <<>>
  BY DEF EndsEmpty
<1>2. ~HasCover(work, n)
  BY <1>1 DEF HasCover
<1> QED
  BY <1>2 DEF Pending

(* In every accepted tree is_shared of every declaration and update and    *)
(* the type of every identifier have been written: nothing is reached only *)
(* by the code generator.                                                  *)
THEOREM AnnotationsWrittenHolds == Spec => []AnnotationsWritten
<1>1. Init => EndsEmpty
  BY DEF Init, EndsEmpty
<1>2. WalkInv /\ Pending /\ [Next]_vars => Pending'
  BY EveryStep, PendingStep
<1>3. WalkInv /\ EndsEmpty /\ [Next]_vars => EndsEmpty'
  BY EndsStep
<1> QED
  BY <1>1, <1>2, <1>3, AllWritten, InitWalk, InitPending, NextWalk, PTL DEF Spec
===============================================================================

------------------------- MODULE AnalyzerFrameProofs -------------------------
(***************************************************************************)
(* Proofs about the scopes, contexts, loops and marks of SemanticAnalyzer: *)
(* that the walk leaves every scope it enters, that the outer variables    *)
(* the body of a threaded loop reads are captured, that its updates of     *)
(* them are marked as shared, and, in the second part, that what a marked  *)
(* update was resolved to is marked too, so that its mutex is defined.     *)
(*                                                                         *)
(* All of it rests on FramesOK: between any two calls of the stack the     *)
(* walk stands in a frame, whose scopes hold only what was declared under  *)
(* the node it analyzes, and below which every variable has been touched   *)
(* by an earlier context.                                                  *)
(***************************************************************************)
EXTENDS SemanticAnalyzerProofs

-----------------------------------------------------------------------------
(* Frames: where in the scopes and in the contexts the walk stands between *)
(* two items of the stack.  A frame is opened by what becomes a C function *)
(* of its own or is analyzed on its own: the program, a thread call, the   *)
(* body of a threaded loop.  root is the node it analyzes, base the number *)
(* of scopes and ctx the context it began with; depth, thread and loop are *)
(* Len(scopes), curThread and curLoop when the walk gets there.            *)

Frame ==
  [depth : Nat, thread : Nat, loop : {0} \cup DOMAIN ast, root : DOMAIN ast,
   base : Nat, ctx : Nat]

Outermost ==
  [depth |-> 0, thread |-> 0, loop |-> 0, root |-> 1, base |-> 0, ctx |-> 0]

FrameOK(a) ==
  /\ a.base <= a.depth /\ a.ctx <= a.thread
  /\ \/ a.root = 1 \/ ast[a.root].kind = "func"
     \/ a.loop \in ThreadedLoops /\ a.root = ast[a.loop].kids[4]

(* From a to a later b: in the same frame, or in one that was open before. *)
Within(a, b) ==
  /\ b.depth <= a.depth
  /\ (a.root = b.root /\ a.base = b.base) \/ b.depth <= a.base

(* What returning from the call w does to the frame. *)
Moves(w, a, b) ==
  CASE w.op = "leave" -> b = [a EXCEPT !.depth = @ - 1]
    [] w.op = "endLoop" -> b.thread = w.thread /\ b.loop = w.loop /\ b.depth = a.depth
    [] w.op = "endContext" /\ ast[w.node].kind = "thread" ->
         b = [a EXCEPT !.thread = w.thread]
    [] w.op = "endContext" /\ ast[w.node].kind # "thread" ->
         b.thread = w.thread /\ b.loop = a.loop /\ b.depth = a.depth
    [] OTHER -> b = a

(* The node n is analyzed as part of root, also when both are in the body  *)
(* of a threaded loop.                                                     *)
Placed(n, root) ==
  /\ n \in Subtree[root]
  /\ \A f \in ThreadedLoops : n \in BodyOf[f] => root \in BodyOf[f]

Ending(w)  == w.op \in {"endLoop", "endContext"}
Opening(w) == w.op = "stmt" /\ ast[w.node].kind \in {"program", "block"}

Stands(w, a) ==
  ~Ending(w) => Placed(w.node, a.root) /\ (Opening(w) \/ a.depth > a.base)

FrameLink ==
  {p \in Item \X Frame \X Frame :
     /\ FrameOK(p[2]) /\ FrameOK(p[3]) /\ Within(p[2], p[3])
     /\ Moves(p[1], p[2], p[3]) /\ Stands(p[1], p[2])}

(* The nodes of the functions defined under a node. *)
FuncParts ==
  [n \in DOMAIN ast |->
     UNION {Subtree[h] : h \in {m \in Subtree[n] : ast[m].kind = "func"}}]

(* An entry of a scope opened by the frame with this root, seen from the   *)
(* node n: declared under root, or a parameter of a function around n.     *)
Local(e, n, root) ==
  e # NoEntry => IF e.decl = 0 THEN n \in FuncParts[root] ELSE e.decl \in Subtree[root]

View ==
  {p \in Item \X Frame :
     ~Ending(p[1]) =>
       \A l \in p[2].base + 1 .. p[2].depth : \A x \in Names :
         Local(scopes[l][x], p[1].node, p[2].root)}

(* What was declared before the frame, some earlier context has touched. *)
Known ==
  {a \in Frame :
     \A l \in 1 .. a.base : \A x \in Names :
       scopes[l][x].decl # 0 => \E u \in scopes[l][x].users : u < a.ctx}

Stack ==
  {p \in FrameLink : <<p[1], p[2]>> \in View /\ p[2] \in Known /\ p[3] \in Known}

AtTop(a) == a.depth = Len(scopes) /\ a.thread = curThread /\ a.loop = curLoop

FramesOK ==
  \E F \in Values(work, Frame) :
    Links(F, work, Stack) /\ AtTop(F[1]) /\ F[Len(work) + 1] = Outermost

(* Every variable has been touched, by contexts that have begun. *)
EntryUsed(e) ==
  /\ \A u \in e.users : u < nextThread
  /\ e.decl # 0 => e.users # {} /\ e.decl \in DOMAIN ast /\ ast[e.decl].kind = "decl"

UsersOK == \A l \in DOMAIN scopes : \A x \in Names : EntryUsed(scopes[l][x])

(* The items can be strung between the frames a and b. *)
Strung(items, R, a, b) ==
  \E g \in Values(items, Frame) : Links(g, items, R) /\ g[1] = a /\ g[Len(items) + 1] = b

LEMMA StrungEach ==
  ASSUME NEW R, NEW a \in Frame, NEW items \in Seq(Item),
         \A i \in DOMAIN items : <<items[i], a, a>> \in R
  PROVE  Strung(items, R, a, a)
<1> DEFINE g == [i \in 1 .. Len(items) + 1 |-> a]
<1>1. Len(items) \in Nat /\ DOMAIN items = 1 .. Len(items)
  OBVIOUS
<1>2. g \in Values(items, Frame) /\ g[1] = a /\ g[Len(items) + 1] = a
  BY <1>1 DEF Values
<1>3. \A i \in DOMAIN items : g[i] = a /\ g[i + 1] = a
  BY <1>1
<1> HIDE DEF g
<1>4. Links(g, items, R)
  BY <1>3 DEF Links
<1> QED
  BY <1>2, <1>4 DEF Strung

LEMMA StrungOne ==
  ASSUME NEW R, NEW w \in Item, NEW a \in Frame, NEW b \in Frame, <<w, a, b>> \in R
  PROVE  Strung(<<w>>, R, a, b)
<1> DEFINE g == [i \in 1 .. Len(<<w>>) + 1 |-> IF i = 1 THEN a ELSE b]
<1>1. Len(<<w>>) = 1 /\ DOMAIN <<w>> = {1} /\ <<w>>[1] = w
  OBVIOUS
<1>2. g \in Values(<<w>>, Frame) /\ g[1] = a /\ g[2] = b
  BY <1>1 DEF Values
<1> HIDE DEF g
<1>3. Links(g, <<w>>, R)
  BY <1>1, <1>2 DEF Links
<1> QED
  BY <1>1, <1>2, <1>3 DEF Strung

LEMMA StrungTwo ==
  ASSUME NEW R, NEW v \in Item, NEW w \in Item, NEW a \in Frame, NEW b \in Frame,
         NEW c \in Frame, <<v, a, b>> \in R, <<w, b, c>> \in R
  PROVE  Strung(<<v, w>>, R, a, c)
<1> DEFINE g == [i \in 1 .. Len(<<v, w>>) + 1 |-> IF i = 1 THEN a ELSE IF i = 2 THEN b ELSE c]
<1>1. /\ Len(<<v, w>>) = 2 /\ DOMAIN <<v, w>> = {1, 2}
      /\ <<v, w>>[1] = v /\ <<v, w>>[2] = w
  OBVIOUS
<1>2. g \in Values(<<v, w>>, Frame) /\ g[1] = a /\ g[2] = b /\ g[3] = c
  BY <1>1 DEF Values
<1> HIDE DEF g
<1>3. Links(g, <<v, w>>, R)
  BY <1>1, <1>2 DEF Links
<1> QED
  BY <1>1, <1>2, <1>3 DEF Strung

LEMMA StrungJoin ==
  ASSUME NEW R, NEW s \in Seq(Item), NEW t \in Seq(Item), NEW a, NEW b, NEW c,
         Strung(s, R, a, b), Strung(t, R, b, c)
  PROVE  Strung(s \o t, R, a, c)
<1>1. PICK g \in Values(s, Frame) : Links(g, s, R) /\ g[1] = a /\ g[Len(s) + 1] = b
  BY DEF Strung
<1>2. PICK h \in Values(t, Frame) : Links(h, t, R) /\ h[1] = b /\ h[Len(t) + 1] = c
  BY DEF Strung
<1>3. g[Len(s) + 1] = h[1]
  BY <1>1, <1>2
<1>4. PICK k \in Values(s \o t, Frame) : Links(k, s \o t, R) /\ Joined(k, g, h, s, t)
  BY <1>1, <1>2, <1>3, ChainJoin
<1> QED
  BY <1>1, <1>2, <1>4 DEF Strung, Joined

LEMMA FrameContinue ==
  ASSUME IInv, work # <<>>, ast' = ast, NEW F \in Values(work, Frame),
         LinksAfter(F, work, Stack'), F[Len(work) + 1] = Outermost,
         NEW items \in Seq(Item), Continue(items),
         NEW a, Strung(items, Stack', a, F[2]), AtTop(a)'
  PROVE  FramesOK'
<1>1. work \in Seq(Item)
  BY DEF IInv, WorkOK
<1>2. PICK g \in Values(items, Frame) :
        Links(g, items, Stack') /\ g[1] = a /\ g[Len(items) + 1] = F[2]
  BY DEF Strung
<1>3. PICK G \in Values(work', Frame) : Links(G, work', Stack') /\ Spliced(G, g, F, items)
  BY <1>1, <1>2, ChainContinue
<1>4. G[1] = a /\ G[Len(work') + 1] = Outermost
  BY <1>2, <1>3 DEF Spliced
<1>5. Frame' = Frame
  BY DEF Frame
<1> QED
  BY <1>3, <1>4, <1>5 DEF FramesOK, Values, Links, AtTop, Outermost

LEMMA WithinClimbs ==
  ASSUME IInv, work # <<>>, NEW F \in Values(work, Frame), Links(F, work, Stack),
         NEW k \in 1 .. Len(work) + 1
  PROVE  \A i \in k .. Len(work) + 1 : Within(F[k], F[i]) /\ FrameOK(F[i]) /\ F[i] \in Frame
<1> DEFINE T == {p \in Frame \X Frame : Within(p[1], p[2])}
<1>1. work \in Seq(Item) /\ Len(work) \in Nat /\ Len(work) >= 1 /\ DOMAIN work = 1 .. Len(work)
  BY DEF IInv, WorkOK
<1>2. \A i \in DOMAIN work : <<work[i], F[i], F[i + 1]>> \in FrameLink
  BY DEF Links, Stack
<1>3. \A i \in DOMAIN work : /\ <<F[i], F[i + 1]>> \in T /\ FrameOK(F[i]) /\ FrameOK(F[i + 1])
  BY <1>2 DEF FrameLink
<1>4. \A a \in Frame : <<a, a>> \in T
  BY DEF Within, Frame
<1>5. \A a, b, c \in Frame : <<a, b>> \in T /\ <<b, c>> \in T => <<a, c>> \in T
  BY DEF Within, Frame
<1>6. \A i \in k .. Len(work) + 1 : <<F[k], F[i]>> \in T
  <2>1. \A i \in DOMAIN work : <<F[i], F[i + 1]>> \in T
    BY <1>3
  <2> HIDE DEF T
  <2> QED
    BY <1>1, <1>4, <1>5, <2>1, ChainClimb
<1>7. \A i \in k .. Len(work) + 1 : FrameOK(F[i])
  <2> SUFFICES ASSUME NEW i \in k .. Len(work) + 1 PROVE FrameOK(F[i])
    OBVIOUS
  <2>1. i \in 1 .. Len(work) \/ (i - 1 \in 1 .. Len(work) /\ (i - 1) + 1 = i)
    BY <1>1
  <2>2. CASE i \in 1 .. Len(work)
    BY <1>1, <1>3, <2>2
  <2>3. CASE i - 1 \in 1 .. Len(work) /\ (i - 1) + 1 = i
    <3>1. FrameOK(F[(i - 1) + 1])
      BY <1>1, <1>3, <2>3
    <3> QED
      BY <2>3, <3>1
  <2> QED
    BY <2>1, <2>2, <2>3
<1>8. \A i \in k .. Len(work) + 1 : F[i] \in Frame
  BY <1>1 DEF Values
<1> QED
  BY <1>6, <1>7, <1>8

(* What a step leaves of an entry: the declaration, and who touched it.    *)
Carried(l, x) ==
  /\ scopes'[l][x].decl = scopes[l][x].decl
  /\ scopes[l][x].users \subseteq scopes'[l][x].users
  /\ scopes[l][x] = NoEntry => scopes'[l][x] = NoEntry

LEMMA ViewKept ==
  ASSUME ast' = ast, NEW w \in Item, NEW a \in Frame, <<w, a>> \in View,
         \A l \in a.base + 1 .. a.depth : \A x \in Names :
           Carried(l, x) \/ (scopes'[l][x].decl # 0 /\ scopes'[l][x].decl \in Subtree[a.root])
  PROVE  <<w, a>> \in View'
<1>1. Subtree' = Subtree /\ FuncParts' = FuncParts /\ Frame' = Frame /\ Item' = Item
  BY SubtreeKept DEF FuncParts, Frame, Item
<1>2. ASSUME ~Ending(w), NEW l \in a.base + 1 .. a.depth, NEW x \in Names
      PROVE  Local(scopes'[l][x], w.node, a.root)
  <2>1. Local(scopes[l][x], w.node, a.root)
    BY <1>2 DEF View
  <2> QED
    BY <1>2, <2>1 DEF Carried, Local
<1> QED
  BY <1>1, <1>2 DEF View, Local, Ending

LEMMA KnownKept ==
  ASSUME ast' = ast, NEW a \in Known,
         \A l \in 1 .. a.base : \A x \in Names : Carried(l, x)
  PROVE  a \in Known'
<1>1. Frame' = Frame
  BY DEF Frame
<1> QED
  BY <1>1 DEF Known, Carried

LEMMA FrameLinkKept == UNCHANGED ast => FrameLink' = FrameLink /\ Subtree' = Subtree
BY SubtreeKept DEF FrameLink, Frame, Item, FrameOK, Within, Moves, Stands, Placed, Ending,
   Opening, ThreadedLoops

(* The rest of the stack still stands when the step changes no entry that  *)
(* is open below it but by a declaration in the innermost scope.           *)
LEMMA AfterKept ==
  ASSUME IInv, ast' = ast, work # <<>>, NEW F \in Values(work, Frame), Links(F, work, Stack),
         \A l \in 1 .. F[2].depth : \A x \in Names :
           \/ Carried(l, x)
           \/ /\ l > F[2].base /\ scopes'[l][x].decl # 0
              /\ scopes'[l][x].decl \in Subtree[F[2].root]
  PROVE  LinksAfter(F, work, Stack') /\ F[2] \in Known'
<1>1. work \in Seq(Item) /\ Len(work) \in Nat /\ Len(work) >= 1 /\ DOMAIN work = 1 .. Len(work)
  BY DEF IInv, WorkOK
<1>2. \A i \in 2 .. Len(work) + 1 : Within(F[2], F[i]) /\ FrameOK(F[i]) /\ F[i] \in Frame
  BY <1>1, WithinClimbs
<1>3. \A i \in DOMAIN work : <<work[i], F[i], F[i + 1]>> \in Stack
  BY DEF Links
<1>4. F[2] \in Frame
  BY <1>1, <1>2
<1>5. ASSUME NEW i \in 2 .. Len(work) + 1, F[i] \in Known PROVE F[i] \in Known'
  <2>1. Within(F[2], F[i]) /\ FrameOK(F[i]) /\ F[i] \in Frame
    BY <1>2
  <2>2. \A l \in 1 .. F[i].base : l \in 1 .. F[2].depth /\ ~(l > F[2].base)
    <3>1. /\ F[i].base \in Nat /\ F[i].depth \in Nat /\ F[2].base \in Nat /\ F[2].depth \in Nat
      BY <1>4, <2>1 DEF Frame
    <3>2. /\ F[i].depth <= F[2].depth /\ F[i].base <= F[i].depth
          /\ F[2].base = F[i].base \/ F[i].depth <= F[2].base
      BY <2>1 DEF Within, FrameOK
    <3> QED
      BY <3>1, <3>2
  <2> QED
    BY <1>5, <2>2, KnownKept
<1>6. ASSUME NEW i \in DOMAIN work, i # 1 PROVE <<work[i], F[i]>> \in View'
  <2>1. Within(F[2], F[i]) /\ FrameOK(F[i]) /\ F[i] \in Frame /\ work[i] \in Item
    BY <1>1, <1>2, <1>6
  <2>2. \A l \in F[i].base + 1 .. F[i].depth :
          l \in 1 .. F[2].depth /\ (l > F[2].base => F[i].root = F[2].root)
    BY <1>4, <2>1 DEF Within, FrameOK, Frame
  <2>3. <<work[i], F[i]>> \in View
    BY <1>3 DEF Stack
  <2>4. \A l \in F[i].base + 1 .. F[i].depth : \A x \in Names :
          Carried(l, x) \/ (scopes'[l][x].decl # 0 /\ scopes'[l][x].decl \in Subtree[F[i].root])
    BY <2>2
  <2> QED
    BY <2>1, <2>3, <2>4, ViewKept
<1>7. LinksAfter(F, work, Stack')
  <2> SUFFICES ASSUME NEW i \in DOMAIN work, i # 1
               PROVE  <<work[i], F[i], F[i + 1]>> \in Stack'
    BY DEF LinksAfter
  <2>1. i \in 2 .. Len(work) + 1 /\ i + 1 \in 2 .. Len(work) + 1
    BY <1>1
  <2>2. <<work[i], F[i], F[i + 1]>> \in FrameLink /\ F[i] \in Known /\ F[i + 1] \in Known
    BY <1>3 DEF Stack
  <2> QED
    BY <1>5, <1>6, <2>1, <2>2, FrameLinkKept DEF Stack
<1>8. F[2] \in Known
  <2>1. <<work[1], F[1], F[1 + 1]>> \in Stack
    BY <1>1, <1>3
  <2> QED
    BY <2>1 DEF Stack
<1> QED
  BY <1>1, <1>5, <1>7, <1>8

(* What the body of a threaded loop is to its loop. *)
LEMMA BodyFacts ==
  ASSUME ast \in Programs, NEW f \in ThreadedLoops
  PROVE  /\ f \in DOMAIN ast /\ 4 \in DOMAIN ast[f].kids
         /\ ast[f].kids[4] \in DOMAIN ast /\ IsKid(ast[f].kids[4], f)
         /\ BodyOf[f] = Subtree[ast[f].kids[4]]
<1>1. f \in DOMAIN ast /\ ast[f].kids \in Seq(DOMAIN ast) /\ Len(ast[f].kids) = 4
  BY NodeFacts DEF ThreadedLoops
<1> QED
  BY <1>1 DEF IsKid, BodyOf, Body, Subtree

LEMMA SubtreeFacts ==
  ASSUME ast \in Programs, NEW n \in DOMAIN ast
  PROVE  /\ n \in Subtree[n] /\ Subtree[n] \subseteq DOMAIN ast
         /\ \A m \in Subtree[n] : Subtree[m] \subseteq Subtree[n]
         /\ \A m \in Subtree[n] : \A k \in DOMAIN ast : IsKid(k, m) => k \in Subtree[n]
BY UnderFacts DEF Subtree

LEMMA KidPlaced ==
  ASSUME ast \in Programs, NEW root \in DOMAIN ast, NEW n, Placed(n, root),
         NEW k \in DOMAIN ast, IsKid(k, n), ~(n \in ThreadedLoops /\ k = ast[n].kids[4])
  PROVE  Placed(k, root) /\ (n \in FuncParts[root] => k \in FuncParts[root])
<1>1. n \in DOMAIN ast /\ k \in Subtree[root]
  BY SubtreeFacts DEF Placed
<1>2. ASSUME NEW f \in ThreadedLoops, k \in BodyOf[f] PROVE root \in BodyOf[f]
  <2>1. k # ast[f].kids[4]
    BY <1>1, BodyFacts, OneParent
  <2>2. n \in Under(ast[f].kids[4])
    BY <1>1, <1>2, <2>1, BodyFacts, ParentUnder DEF Subtree
  <2>3. n \in BodyOf[f]
    BY <2>2, BodyFacts DEF Subtree
  <2> QED
    BY <2>3 DEF Placed
<1>3. ASSUME n \in FuncParts[root] PROVE k \in FuncParts[root]
  <2>1. PICK h \in Subtree[root] : ast[h].kind = "func" /\ n \in Subtree[h]
    BY <1>3 DEF FuncParts
  <2>2. h \in DOMAIN ast
    BY SubtreeFacts
  <2>3. k \in Subtree[h]
    BY <2>1, <2>2, SubtreeFacts
  <2> QED
    BY <2>1, <2>3 DEF FuncParts
<1> QED
  BY <1>1, <1>2, <1>3 DEF Placed

LEMMA ViewAt ==
  ASSUME ast' = ast, NEW w \in Item, NEW a \in Frame,
         ~Ending(w) => \A l \in a.base + 1 .. a.depth : \A x \in Names :
                         Local(scopes'[l][x], w.node, a.root)
  PROVE  <<w, a>> \in View'
<1>1. Subtree' = Subtree /\ FuncParts' = FuncParts /\ Frame' = Frame /\ Item' = Item
  BY SubtreeKept DEF FuncParts, Frame, Item
<1> QED
  BY <1>1 DEF View, Local, Ending

LEMMA PlainStrung ==
  ASSUME ast \in Programs, ast' = ast, NEW a \in Frame, FrameOK(a), a.depth > a.base,
         NEW n, Placed(n, a.root), a \in Known',
         \A l \in a.base + 1 .. a.depth : \A x \in Names : Local(scopes'[l][x], n, a.root),
         NEW items, Plain(items, n)
  PROVE  Strung(items, Stack', a, a)
<1>1. items \in Seq(Item) /\ \A i \in DOMAIN items : PlainItem(items[i], n)
  BY DEF Plain
<1>2. a.root \in DOMAIN ast
  BY DEF Frame
<1>3. ASSUME NEW w \in Item, PlainItem(w, n) PROVE <<w, a, a>> \in Stack'
  <2>1. /\ w.op \in PlainOps /\ w.node \in DOMAIN ast
        /\ \/ w.node = n
           \/ IsKid(w.node, n) /\ ~(n \in ThreadedLoops /\ w.node = ast[n].kids[4])
    BY <1>3 DEF PlainItem, Item
  <2>2. Placed(w.node, a.root) /\ (n \in FuncParts[a.root] => w.node \in FuncParts[a.root])
    BY <1>2, <2>1, KidPlaced
  <2>3. Moves(w, a, a)
    BY <2>1 DEF Moves, PlainOps
  <2>4. Within(a, a)
    BY DEF Within, Frame
  <2>5. <<w, a, a>> \in FrameLink
    BY <2>2, <2>3, <2>4 DEF FrameLink, Stands
  <2>6. \A l \in a.base + 1 .. a.depth : \A x \in Names : Local(scopes'[l][x], w.node, a.root)
    BY <2>2 DEF Local
  <2>7. <<w, a>> \in View'
    BY <2>6, ViewAt
  <2> QED
    BY <2>5, <2>7, FrameLinkKept DEF Stack
<1> QED
  BY <1>1, <1>3, StrungEach

LEMMA HeadFrame ==
  ASSUME IInv, work # <<>>, NEW F \in Values(work, Frame), Links(F, work, Stack)
  PROVE  /\ F[1] \in Frame /\ F[2] \in Frame /\ FrameOK(F[1]) /\ FrameOK(F[2])
         /\ Within(F[1], F[2]) /\ Moves(work[1], F[1], F[2]) /\ Stands(work[1], F[1])
         /\ <<work[1], F[1]>> \in View /\ F[1] \in Known /\ F[2] \in Known
         /\ work[1].op \in PlainOps => F[2] = F[1]
<1>1. work \in Seq(Item) /\ 1 \in DOMAIN work
  BY DEF IInv, WorkOK
<1>2. <<work[1], F[1], F[1 + 1]>> \in Stack
  BY <1>1 DEF Links
<1>3. <<work[1], F[1], F[2]>> \in FrameLink /\ <<work[1], F[1]>> \in View
      /\ F[1] \in Known /\ F[2] \in Known
  BY <1>2 DEF Stack
<1>4. work[1].op \in PlainOps => F[2] = F[1]
  BY <1>3 DEF FrameLink, Moves, PlainOps
<1> QED
  BY <1>3, <1>4 DEF FrameLink

(* What the quiet steps do to the scopes. *)
Touches ==
  \E l \in DOMAIN scopes : \E x \in Names :
    /\ scopes[l][x] \in Entry
    /\ scopes' = [scopes EXCEPT ![l][x] = Touch(scopes[l][x])]

Declares ==
  /\ ast[work[1].node].kind = "decl" /\ work[1].op = "declare"
  /\ \E x \in Names : \E type \in Types :
       scopes' = [scopes EXCEPT ![Len(scopes)][x] = Touch(NewEntry(type, work[1].node))]

LEMMA QuietScopes ==
  ASSUME WalkInv, QuietStep
  PROVE  scopes' = scopes \/ Touches \/ Declares
<1>1. /\ work # <<>> /\ work[1].node \in DOMAIN ast /\ ast \in Programs /\ ScopesOK
  BY QuietCalls DEF QuietItem, WalkInv, IInv
<1>2. CASE Update \/ Identifier
  <2>1. nd.kind \in {"update", "ident"}
    BY <1>2 DEF Update, Identifier, At
  <2>2. nd.name \in Names
    BY <1>1, <2>1, NodeFacts DEF nd
  <2>3. PICK l \in DOMAIN scopes :
          /\ Binds(l, nd.name)
          /\ scopes' = [scopes EXCEPT ![l][nd.name] = Touch(scopes[l][nd.name])]
    BY <1>2 DEF Update, Identifier
  <2>4. scopes[l][nd.name] \in Entry
    BY <1>1, <2>2, <2>3, BoundEntry DEF WalkInv, IInv
  <2> QED
    BY <2>2, <2>3, <2>4 DEF Touches
<1>3. CASE Declare
  <2>1. nd.kind = "decl" /\ work[1].op = "declare"
    BY <1>3 DEF Declare, At
  <2>2. nd.name \in Names /\ nd.type \in Types
    BY <1>1, <2>1, NodeFacts DEF nd
  <2>3. scopes' = [scopes EXCEPT ![Len(scopes)][nd.name] = Touch(NewEntry(nd.type, work[1].node))]
    BY <1>3 DEF Declare
  <2> QED
    BY <2>1, <2>2, <2>3 DEF Declares, nd
<1>4. CASE ~Update /\ ~Identifier /\ ~Declare
  BY <1>4 DEF QuietStep, DeclarationValue, Store, IfStatement, ForLoop, Test, Operands,
     Discard, LaunchUnknown, Literal, Operator, Operate, Negate, CallValue, Yield
<1> QED
  BY <1>2, <1>3, <1>4

Replaces(l, x, e) == scopes' = [scopes EXCEPT ![l][x] = e]

LEMMA BindAt ==
  ASSUME ScopesOK, ScopesOK', NEW l \in DOMAIN scopes, NEW x \in Names, NEW e,
         Replaces(l, x, e)
  PROVE  /\ Len(scopes') = Len(scopes)
         /\ \A m \in DOMAIN scopes : \A y \in Names :
              scopes'[m][y] = IF m = l /\ y = x THEN e ELSE scopes[m][y]
<1>1. /\ scopes \in Seq(Scope) /\ scopes' \in Seq(Scope) /\ DOMAIN scopes' = DOMAIN scopes
  BY DEF ScopesOK, Replaces
<1>2. Len(scopes') = Len(scopes)
  <2>1. /\ DOMAIN scopes = 1 .. Len(scopes) /\ DOMAIN scopes' = 1 .. Len(scopes')
        /\ Len(scopes) \in Nat /\ Len(scopes') \in Nat
    BY <1>1
  <2>2. 1 .. Len(scopes) = 1 .. Len(scopes')
    BY <1>1, <2>1
  <2>3. \A i, j \in Nat : 1 .. i = 1 .. j => i = j
    <3> SUFFICES ASSUME NEW i \in Nat, NEW j \in Nat, 1 .. i = 1 .. j, i # j PROVE FALSE
      OBVIOUS
    <3>1. (i >= 1 => i \in 1 .. j) /\ (j >= 1 => j \in 1 .. i)
      OBVIOUS
    <3> QED
      BY <3>1
  <2> QED
    BY <2>1, <2>2, <2>3
<1>3. \A m \in DOMAIN scopes : DOMAIN scopes[m] = Names
  BY <1>1 DEF Scope
<1>4. ASSUME NEW m \in DOMAIN scopes, NEW y \in Names
      PROVE  scopes'[m][y] = IF m = l /\ y = x THEN e ELSE scopes[m][y]
  <2>1. scopes'[m] = IF m = l THEN [scopes[l] EXCEPT ![x] = e] ELSE scopes[m]
    BY DEF Replaces
  <2> QED
    BY <1>3, <2>1
<1> QED
  BY <1>2, <1>4

LEMMA NewEntryFields ==
  ASSUME NEW type, NEW decl
  PROVE  /\ NewEntry(type, decl).decl = decl /\ NewEntry(type, decl).users = {}
         /\ NoEntry.decl = 0 /\ NoEntry.users = {}
BY DEF NewEntry, NoEntry

LEMMA TouchesKeep ==
  ASSUME IInv, ScopesOK', Touches
  PROVE  /\ Len(scopes') = Len(scopes)
         /\ \A l \in DOMAIN scopes : \A x \in Names :
              Carried(l, x) /\ scopes'[l][x].users \subseteq scopes[l][x].users \cup {curThread}
<1>1. PICK k \in DOMAIN scopes, y \in Names :
        /\ scopes[k][y] \in Entry
        /\ scopes' = [scopes EXCEPT ![k][y] = Touch(scopes[k][y])]
  BY DEF Touches
<1> DEFINE e == Touch(scopes[k][y])
<1>2. e.decl = scopes[k][y].decl /\ e.users = scopes[k][y].users \cup {curThread}
  BY <1>1, TouchFields DEF IInv
<1>3. scopes[k][y] # NoEntry
  BY <1>1 DEF Entry, NoEntry, Types
<1> HIDE DEF e
<1>4. /\ Len(scopes') = Len(scopes)
      /\ \A l \in DOMAIN scopes : \A x \in Names :
           scopes'[l][x] = IF l = k /\ x = y THEN e ELSE scopes[l][x]
  <2>1. ScopesOK /\ Replaces(k, y, e)
    BY <1>1 DEF IInv, e, Replaces
  <2> QED
    BY <2>1, BindAt
<1> QED
  BY <1>2, <1>3, <1>4 DEF Carried

LEMMA DeclaresKeep ==
  ASSUME IInv, ScopesOK', Declares, work # <<>>, scopes # <<>>
  PROVE  /\ Len(scopes') = Len(scopes)
         /\ \A l \in DOMAIN scopes : \A x \in Names :
              \/ scopes'[l][x] = scopes[l][x]
              \/ /\ l = Len(scopes) /\ scopes'[l][x].decl = work[1].node
                 /\ scopes'[l][x].users = {curThread}
<1> DEFINE n == work[1].node
<1>1. PICK y \in Names, type \in Types :
        scopes' = [scopes EXCEPT ![Len(scopes)][y] = Touch(NewEntry(type, n))]
  BY DEF Declares
<1>2. n \in Nat /\ Len(scopes) \in DOMAIN scopes
  <2>1. 1 \in DOMAIN work /\ work \in Seq(Item) /\ scopes \in Seq(Scope)
    BY DEF IInv, WorkOK, ScopesOK
  <2>2. work[1] \in Item /\ WellFormed(ast)
    BY <2>1, ProgramsAssumption DEF IInv
  <2>3. n \in DOMAIN ast /\ ast \in Seq(Node)
    BY <2>2 DEF Item, WellFormed
  <2> QED
    BY <2>1, <2>3
<1> DEFINE e == Touch(NewEntry(type, n))
<1>3. NewEntry(type, n) \in Entry
  BY <1>2, NewEntryInv
<1>4. e.decl = n /\ e.users = {curThread}
  BY <1>3, TouchFields, NewEntryFields DEF IInv
<1> HIDE DEF e
<1>5. /\ Len(scopes') = Len(scopes)
      /\ \A l \in DOMAIN scopes : \A x \in Names :
           scopes'[l][x] = IF l = Len(scopes) /\ x = y THEN e ELSE scopes[l][x]
  <2>1. ScopesOK /\ Replaces(Len(scopes), y, e)
    BY <1>1 DEF IInv, e, Replaces
  <2> QED
    BY <1>2, <2>1, BindAt
<1> QED
  BY <1>4, <1>5

LEMMA SameCarried ==
  ASSUME NEW l, NEW x, scopes'[l][x] = scopes[l][x]
  PROVE  Carried(l, x)
BY DEF Carried

LEMMA QuietFrames ==
  ASSUME WalkInv, ScopesOK', FramesOK, QuietStep
  PROVE  FramesOK'
<1> DEFINE n == work[1].node
<1>1. /\ work # <<>> /\ QuietItem(work[1]) /\ Continue(Calls(work[1])) /\ ast' = ast
      /\ work[1].op = "stmt" => ast[n].kind # "program"
      /\ UNCHANGED <<curThread, nextThread, curLoop>> /\ IInv /\ ast \in Programs
  BY QuietCalls DEF WalkInv, IInv, context
<1>2. PICK F \in Values(work, Frame) :
        Links(F, work, Stack) /\ AtTop(F[1]) /\ F[Len(work) + 1] = Outermost
  BY DEF FramesOK
<1> DEFINE a == F[1]
<1>3. /\ a \in Frame /\ FrameOK(a) /\ Stands(work[1], a)
      /\ <<work[1], a>> \in View /\ a \in Known /\ F[2] = a
  BY <1>1, <1>2, HeadFrame DEF QuietItem
<1>4. Placed(n, a.root) /\ a.depth > a.base /\ a.depth = Len(scopes)
  <2>1. ~Ending(work[1]) /\ ~Opening(work[1])
    BY <1>1 DEF Ending, Opening, QuietItem, PlainOps
  <2> QED
    BY <1>2, <1>3, <2>1 DEF Stands, AtTop
<1>5. scopes \in Seq(Scope) /\ Len(scopes) \in Nat /\ DOMAIN scopes = 1 .. Len(scopes)
      /\ a.depth \in Nat /\ a.base \in Nat /\ a.root \in DOMAIN ast
  BY <1>1, <1>3 DEF IInv, ScopesOK, Frame
<1>6. n \in Subtree[a.root] /\ n # 0 /\ Subtree[a.root] \subseteq DOMAIN ast
  <2>1. n \in Subtree[a.root] /\ Subtree[a.root] \subseteq DOMAIN ast
    BY <1>1, <1>4, <1>5, SubtreeFacts DEF Placed
  <2>2. ast \in Seq(Node)
    BY <1>1, ProgramsAssumption DEF WellFormed
  <2>3. 0 \notin DOMAIN ast
    BY <2>2
  <2> QED
    BY <2>1, <2>3
<1>7. /\ Len(scopes') = Len(scopes)
      /\ \A l \in DOMAIN scopes : \A x \in Names :
           \/ Carried(l, x)
           \/ l = Len(scopes) /\ scopes'[l][x].decl = n
  <2>1. CASE scopes' = scopes
    BY <2>1, SameCarried
  <2>2. CASE Touches
    BY <1>1, <2>2, TouchesKeep
  <2>3. CASE Declares
    <3>1. scopes # <<>>
      BY <1>4, <1>5
    <3> QED
      BY <1>1, <2>3, <3>1, DeclaresKeep, SameCarried
  <2> QED
    BY <2>1, <2>2, <2>3, QuietScopes
<1>8. \A l \in 1 .. a.depth : \A x \in Names :
        \/ Carried(l, x)
        \/ l > a.base /\ scopes'[l][x].decl # 0 /\ scopes'[l][x].decl \in Subtree[a.root]
  BY <1>4, <1>5, <1>6, <1>7
<1> HIDE DEF a
<1>9. LinksAfter(F, work, Stack') /\ a \in Known'
  <2>1. \A l \in 1 .. F[2].depth : \A x \in Names :
        \/ Carried(l, x)
        \/ /\ l > F[2].base /\ scopes'[l][x].decl # 0
           /\ scopes'[l][x].decl \in Subtree[F[2].root]
    BY <1>3, <1>8
  <2> QED
    BY <1>1, <1>2, <1>3, <2>1, AfterKept
<1>10. \A l \in a.base + 1 .. a.depth : \A x \in Names : Local(scopes'[l][x], n, a.root)
  <2> SUFFICES ASSUME NEW l \in a.base + 1 .. a.depth, NEW x \in Names
               PROVE  Local(scopes'[l][x], n, a.root)
    OBVIOUS
  <2>1. Local(scopes[l][x], n, a.root)
    BY <1>1, <1>3 DEF View, Ending, QuietItem, PlainOps
  <2>2. l \in 1 .. a.depth
    BY <1>5
  <2> QED
    BY <1>8, <2>1, <2>2 DEF Local, Carried
<1>11. Plain(Calls(work[1]), n)
  BY <1>1, PlainCalls
<1>12. Strung(Calls(work[1]), Stack', a, a)
  BY <1>1, <1>3, <1>4, <1>9, <1>10, <1>11, PlainStrung
<1>13. AtTop(F[1])'
  <2>1. AtTop(F[1])
    BY <1>2
  <2> QED
    BY <1>1, <1>7, <2>1 DEF AtTop
<1>14. Calls(work[1]) \in Seq(Item)
  BY <1>11 DEF Plain
<1> QED
  BY <1>1, <1>2, <1>3, <1>9, <1>12, <1>13, <1>14, FrameContinue DEF a

LEMMA PushKeep ==
  ASSUME scopes \in Seq(Scope), NEW s \in Scope, scopes' = Append(scopes, s)
  PROVE  /\ Len(scopes') = Len(scopes) + 1 /\ scopes'[Len(scopes) + 1] = s
         /\ \A l \in 1 .. Len(scopes) : scopes'[l] = scopes[l]
         /\ \A l \in 1 .. Len(scopes) : \A x \in Names : Carried(l, x)
<1>1. /\ Len(scopes') = Len(scopes) + 1 /\ scopes'[Len(scopes) + 1] = s
      /\ \A l \in 1 .. Len(scopes) : scopes'[l] = scopes[l]
  OBVIOUS
<1>2. \A l \in 1 .. Len(scopes) : \A x \in Names : Carried(l, x)
  <2> SUFFICES ASSUME NEW l \in 1 .. Len(scopes), NEW x \in Names PROVE Carried(l, x)
    OBVIOUS
  <2>1. scopes'[l][x] = scopes[l][x]
    BY <1>1
  <2> QED
    BY <2>1, SameCarried
<1> QED
  BY <1>1, <1>2

LEMMA ScopeEntries ==
  ASSUME NEW x \in Names, NEW h
  PROVE  /\ EmptyScope[x] = NoEntry
         /\ ParamScope(h)[x].decl = 0 /\ ParamScope(h)[x].users = {}
BY NewEntryFields DEF EmptyScope, ParamScope

(* A frame, field by field. *)
IsFrame(D, d, t, f, r, b, c) ==
  D.depth = d /\ D.thread = t /\ D.loop = f /\ D.root = r /\ D.base = b /\ D.ctx = c

LEMMA MakeFrame ==
  ASSUME NEW d \in Nat, NEW t \in Nat, NEW f \in {0} \cup DOMAIN ast,
         NEW r \in DOMAIN ast, NEW b \in Nat, NEW c \in Nat
  PROVE  \E D \in Frame : IsFrame(D, d, t, f, r, b, c)
<1> DEFINE D == [depth |-> d, thread |-> t, loop |-> f, root |-> r, base |-> b, ctx |-> c]
<1>1. D \in Frame
  BY DEF Frame
<1>2. IsFrame(D, d, t, f, r, b, c)
  BY DEF IsFrame
<1> QED
  BY <1>1, <1>2

LEMMA FrameFields ==
  ASSUME NEW a \in Frame
  PROVE  /\ a.depth \in Nat /\ a.thread \in Nat /\ a.loop \in {0} \cup DOMAIN ast
         /\ a.root \in DOMAIN ast /\ a.base \in Nat /\ a.ctx \in Nat
         /\ a = [depth |-> a.depth, thread |-> a.thread, loop |-> a.loop,
                 root |-> a.root, base |-> a.base, ctx |-> a.ctx]
BY DEF Frame

(* A frame that another one becomes when one of its fields changes. *)
LEMMA FrameExcept ==
  ASSUME NEW a \in Frame, NEW b \in Frame, a.loop = b.loop, a.root = b.root,
         a.base = b.base, a.ctx = b.ctx
  PROVE  /\ a.thread = b.thread => b = [a EXCEPT !.depth = b.depth]
         /\ a.depth = b.depth => b = [a EXCEPT !.thread = b.thread]
<1>1. a = [depth |-> a.depth, thread |-> a.thread, loop |-> a.loop,
           root |-> a.root, base |-> a.base, ctx |-> a.ctx]
  BY FrameFields
<1>2. b = [depth |-> b.depth, thread |-> b.thread, loop |-> b.loop,
           root |-> b.root, base |-> b.base, ctx |-> b.ctx]
  BY FrameFields
<1>3. [a EXCEPT !.depth = b.depth] =
        [depth |-> b.depth, thread |-> a.thread, loop |-> a.loop,
         root |-> a.root, base |-> a.base, ctx |-> a.ctx]
  BY <1>1
<1>4. [a EXCEPT !.thread = b.thread] =
        [depth |-> a.depth, thread |-> b.thread, loop |-> a.loop,
         root |-> a.root, base |-> a.base, ctx |-> a.ctx]
  BY <1>1
<1> QED
  BY <1>2, <1>3, <1>4

(* A scope is opened in the frame at hand. *)
LEMMA EnterFrames ==
  ASSUME WalkInv, FramesOK, EnterStep
  PROVE  FramesOK'
<1> DEFINE n == work[1].node
           kids == Each("stmt", ast[n].kids)
<1>1. /\ work # <<>> /\ n \in DOMAIN ast /\ work[1].op = "stmt"
      /\ Plain(kids, n) /\ Continue(kids \o <<Do("leave", n)>>)
      /\ \/ scopes' = Append(scopes, EmptyScope)
         \/ scopes' = Append(scopes, ParamScope(n)) /\ ast[n].kind = "func"
      /\ ast' = ast /\ IInv /\ ast \in Programs
      /\ curThread' = curThread /\ curLoop' = curLoop
  BY EnterFacts DEF WalkInv, IInv, context
<1>2. PICK F \in Values(work, Frame) :
        Links(F, work, Stack) /\ AtTop(F[1]) /\ F[Len(work) + 1] = Outermost
  BY DEF FramesOK
<1>3. /\ F[1] \in Frame /\ FrameOK(F[1]) /\ Stands(work[1], F[1])
      /\ <<work[1], F[1]>> \in View /\ F[1] \in Known /\ F[2] = F[1]
  BY <1>1, <1>2, HeadFrame DEF PlainOps, Ops
<1>4. Placed(n, F[1].root) /\ F[1].depth = Len(scopes) /\ ~Ending(work[1])
  BY <1>1, <1>2, <1>3 DEF Stands, AtTop, Ending
<1>5. scopes \in Seq(Scope) /\ Len(scopes) \in Nat /\ F[1].depth \in Nat /\ F[1].base \in Nat
      /\ F[1].root \in DOMAIN ast /\ F[1].base <= F[1].depth
  BY <1>1, <1>3 DEF IInv, ScopesOK, Frame, FrameOK
<1>6. /\ Len(scopes') = Len(scopes) + 1
      /\ \A l \in 1 .. Len(scopes) : scopes'[l] = scopes[l]
      /\ \A l \in 1 .. Len(scopes) : \A x \in Names : Carried(l, x)
      /\ \A x \in Names : Local(scopes'[Len(scopes) + 1][x], n, F[1].root)
  <2>1. CASE scopes' = Append(scopes, EmptyScope)
    <3>1. EmptyScope \in Scope
      BY EmptyScopeOK
    <3> QED
      BY <1>5, <2>1, <3>1, PushKeep, ScopeEntries DEF Local
  <2>2. CASE scopes' = Append(scopes, ParamScope(n)) /\ ast[n].kind = "func"
    <3>1. ParamScope(n) \in Scope
      BY <1>1, ParamScopeOK
    <3>2. n \in FuncParts[F[1].root]
      <4>1. n \in Subtree[F[1].root] /\ n \in Subtree[n]
        BY <1>1, <1>4, SubtreeFacts DEF Placed
      <4> QED
        BY <1>5, <2>2, <4>1 DEF FuncParts
    <3> QED
      BY <1>5, <2>2, <3>1, <3>2, PushKeep, ScopeEntries DEF Local
  <2> QED
    BY <1>1, <2>1, <2>2
<1>7. F[1].depth + 1 \in Nat /\ F[1].thread \in Nat /\ F[1].loop \in {0} \cup DOMAIN ast
      /\ F[1].root \in DOMAIN ast /\ F[1].base \in Nat /\ F[1].ctx \in Nat
  BY <1>3, <1>5, FrameFields
<1>8. PICK D \in Frame : IsFrame(D, F[1].depth + 1, F[1].thread, F[1].loop,
                                 F[1].root, F[1].base, F[1].ctx)
  BY <1>7, MakeFrame
<1>9. /\ D.depth = F[1].depth + 1 /\ D.root = F[1].root /\ D.base = F[1].base
      /\ D.thread = F[1].thread /\ D.loop = F[1].loop /\ D.ctx = F[1].ctx
      /\ F[1] = [D EXCEPT !.depth = @ - 1]
  <2>1. /\ D.depth = F[1].depth + 1 /\ D.root = F[1].root /\ D.base = F[1].base
        /\ D.thread = F[1].thread /\ D.loop = F[1].loop /\ D.ctx = F[1].ctx
    BY <1>8 DEF IsFrame
  <2>2. D.depth - 1 = F[1].depth
    BY <1>5, <2>1
  <2>3. F[1] = [D EXCEPT !.depth = F[1].depth]
    BY <1>3, <2>1, FrameExcept
  <2> QED
    BY <2>1, <2>2, <2>3
<1>10. FrameOK(D) /\ D.depth > D.base /\ Placed(n, D.root)
  BY <1>3, <1>4, <1>5, <1>9 DEF FrameOK
<1>11. LinksAfter(F, work, Stack') /\ F[1] \in Known'
  <2>1. \A l \in 1 .. F[2].depth : \A x \in Names : Carried(l, x)
    BY <1>3, <1>4, <1>6
  <2> QED
    BY <1>1, <1>2, <1>3, <2>1, AfterKept
<1>12. D \in Known'
  <2>1. Frame' = Frame
    BY <1>1 DEF Frame
  <2> QED
    BY <1>9, <1>11, <2>1 DEF Known
<1>13. \A l \in D.base + 1 .. D.depth : \A x \in Names : Local(scopes'[l][x], n, D.root)
  <2> SUFFICES ASSUME NEW l \in D.base + 1 .. D.depth, NEW x \in Names
               PROVE  Local(scopes'[l][x], n, D.root)
    OBVIOUS
  <2>1. CASE l = Len(scopes) + 1
    BY <1>6, <1>9, <2>1
  <2>2. CASE l # Len(scopes) + 1
    <3>1. l \in F[1].base + 1 .. F[1].depth /\ l \in 1 .. Len(scopes)
      BY <1>4, <1>5, <1>9, <2>2
    <3>2. Local(scopes[l][x], n, F[1].root)
      BY <1>3, <1>4, <3>1 DEF View
    <3> QED
      BY <1>6, <1>9, <3>1, <3>2
  <2> QED
    BY <2>1, <2>2
<1>14. Strung(kids, Stack', D, D)
  BY <1>1, <1>10, <1>12, <1>13, PlainStrung
<1>15. Do("leave", n) \in Item /\ Do("leave", n).op = "leave" /\ Do("leave", n).node = n
  BY <1>1, LeaveFits, DoFields
<1>16. <<Do("leave", n), D, F[1]>> \in Stack'
  <2>1. Moves(Do("leave", n), D, F[1])
    BY <1>9, <1>15 DEF Moves
  <2>2. Within(D, F[1]) /\ Stands(Do("leave", n), D)
    BY <1>5, <1>9, <1>10, <1>15 DEF Within, Stands
  <2>3. <<Do("leave", n), D, F[1]>> \in FrameLink
    BY <1>3, <1>10, <1>15, <2>1, <2>2 DEF FrameLink
  <2>4. <<Do("leave", n), D>> \in View'
    BY <1>1, <1>13, <1>15, ViewAt
  <2> QED
    BY <1>1, <1>11, <1>12, <2>3, <2>4, FrameLinkKept DEF Stack
<1> DEFINE last == <<Do("leave", n)>>
<1>17. Strung(last, Stack', D, F[1])
  BY <1>3, <1>15, <1>16, StrungOne
<1>18. kids \in Seq(Item) /\ last \in Seq(Item) /\ kids \o last \in Seq(Item)
  <2>1. kids \in Seq(Item) /\ last \in Seq(Item)
    BY <1>1, <1>15 DEF Plain
  <2> HIDE DEF kids, last
  <2> QED
    BY <2>1, ConcatProperties
<1> HIDE DEF kids, last
<1>19. Strung(kids \o last, Stack', D, F[2])
  BY <1>3, <1>14, <1>17, <1>18, StrungJoin
<1>20. AtTop(D)'
  <2>1. AtTop(F[1])
    BY <1>2
  <2> QED
    BY <1>1, <1>6, <1>9, <2>1 DEF AtTop
<1>21. Continue(kids \o last)
  BY <1>1 DEF last, kids
<1> QED
  BY <1>1, <1>2, <1>11, <1>18, <1>19, <1>20, <1>21, FrameContinue

(* The statements of a thread block run in a context of their own. *)
LEMMA ThreadBlockFrames ==
  ASSUME WalkInv, ContextsOrdered, FramesOK, ThreadBlock
  PROVE  FramesOK'
<1> DEFINE n == work[1].node
           kids == Each("stmt", ast[n].kids)
           w == Restore("endContext", n)
<1>1. /\ work # <<>> /\ n \in DOMAIN ast /\ work[1].op = "stmt" /\ ast[n].kind = "thread"
      /\ Plain(kids, n) /\ Continue(kids \o <<w>>) /\ ast' = ast /\ scopes' = scopes
      /\ IInv /\ ast \in Programs /\ curThread' = nextThread /\ curLoop' = curLoop
  BY ThreadBlockFacts DEF WalkInv, IInv, NewContext
<1>2. PICK F \in Values(work, Frame) :
        Links(F, work, Stack) /\ AtTop(F[1]) /\ F[Len(work) + 1] = Outermost
  BY DEF FramesOK
<1>3. /\ F[1] \in Frame /\ FrameOK(F[1]) /\ Stands(work[1], F[1])
      /\ <<work[1], F[1]>> \in View /\ F[1] \in Known /\ F[2] = F[1]
  BY <1>1, <1>2, HeadFrame DEF PlainOps, Ops
<1>4. /\ Placed(n, F[1].root) /\ F[1].depth > F[1].base /\ ~Ending(work[1])
  BY <1>1, <1>3 DEF Stands, Ending, Opening
<1>5. /\ F[1].depth = Len(scopes) /\ F[1].thread = curThread /\ F[1].loop = curLoop
      /\ curThread < nextThread /\ curThread \in Nat /\ nextThread \in Nat
  BY <1>1, <1>2 DEF AtTop, ContextsOrdered, IInv, ContextOK
<1>6. /\ F[1].depth \in Nat /\ F[1].thread \in Nat /\ F[1].loop \in {0} \cup DOMAIN ast
      /\ F[1].root \in DOMAIN ast /\ F[1].base \in Nat /\ F[1].ctx \in Nat
  BY <1>3, FrameFields
<1>7. PICK D \in Frame : IsFrame(D, F[1].depth, nextThread, F[1].loop,
                                 F[1].root, F[1].base, F[1].ctx)
  BY <1>5, <1>6, MakeFrame
<1>8. /\ D.depth = F[1].depth /\ D.thread = nextThread /\ D.loop = F[1].loop
      /\ D.root = F[1].root /\ D.base = F[1].base /\ D.ctx = F[1].ctx
  BY <1>7 DEF IsFrame
<1>9. F[1] = [D EXCEPT !.thread = F[1].thread]
  BY <1>3, <1>8, FrameExcept
<1>10. FrameOK(D) /\ D.depth > D.base /\ Placed(n, D.root) /\ Within(D, F[1])
  BY <1>3, <1>4, <1>5, <1>6, <1>8 DEF FrameOK, Within
<1>11. LinksAfter(F, work, Stack') /\ F[1] \in Known'
  <2>1. \A l \in 1 .. F[2].depth : \A x \in Names : Carried(l, x)
    BY <1>1, SameCarried
  <2> QED
    BY <1>1, <1>2, <1>3, <2>1, AfterKept
<1>12. D \in Known'
  <2>1. Frame' = Frame
    BY <1>1 DEF Frame
  <2> QED
    BY <1>8, <1>11, <2>1 DEF Known
<1>13. \A l \in D.base + 1 .. D.depth : \A x \in Names : Local(scopes'[l][x], n, D.root)
  BY <1>1, <1>3, <1>4, <1>8 DEF View
<1>14. Strung(kids, Stack', D, D)
  BY <1>1, <1>10, <1>12, <1>13, PlainStrung
<1>15. /\ w \in Item /\ w.op = "endContext" /\ w.node = n
       /\ w.thread = curThread /\ w.loop = curLoop
  BY <1>1, RestoreFacts
<1> HIDE DEF w
<1>16. <<w, D, F[1]>> \in Stack'
  <2>1. Moves(w, D, F[1])
    BY <1>1, <1>5, <1>9, <1>15 DEF Moves
  <2>2. Ending(w)
    BY <1>15 DEF Ending
  <2>3. <<w, D, F[1]>> \in FrameLink
    BY <1>3, <1>10, <1>15, <2>1, <2>2 DEF FrameLink, Stands
  <2>4. <<w, D>> \in View'
    BY <1>1, <1>15, <2>2, ViewAt
  <2> QED
    BY <1>1, <1>11, <1>12, <2>3, <2>4, FrameLinkKept DEF Stack
<1>17. Strung(<<w>>, Stack', D, F[1])
  BY <1>3, <1>15, <1>16, StrungOne
<1>18. kids \in Seq(Item) /\ <<w>> \in Seq(Item) /\ kids \o <<w>> \in Seq(Item)
  <2>1. kids \in Seq(Item) /\ <<w>> \in Seq(Item)
    BY <1>1, <1>15 DEF Plain
  <2> HIDE DEF kids
  <2> QED
    BY <2>1, ConcatProperties
<1> HIDE DEF kids
<1>19. Strung(kids \o <<w>>, Stack', D, F[2])
  BY <1>3, <1>14, <1>17, <1>18, StrungJoin
<1>20. AtTop(D)'
  BY <1>1, <1>5, <1>8 DEF AtTop
<1> QED
  BY <1>1, <1>2, <1>11, <1>18, <1>19, <1>20, FrameContinue

(* What is declared when a frame begins has been touched before. *)
LEMMA NewFrameKnown ==
  ASSUME IInv, UsersOK, ast' = ast, NEW D \in Frame, D.base = Len(scopes), D.ctx = nextThread,
         \A l \in 1 .. Len(scopes) : scopes'[l] = scopes[l]
  PROVE  D \in Known'
<1>1. Frame' = Frame
  BY DEF Frame
<1>2. scopes \in Seq(Scope) /\ DOMAIN scopes = 1 .. Len(scopes)
  BY DEF IInv, ScopesOK
<1>3. ASSUME NEW l \in 1 .. D.base, NEW x \in Names, scopes'[l][x].decl # 0
      PROVE  \E u \in scopes'[l][x].users : u < D.ctx
  <2>1. scopes'[l][x] = scopes[l][x] /\ EntryUsed(scopes[l][x])
    BY <1>2 DEF UsersOK
  <2>2. scopes[l][x].decl # 0
    BY <1>3, <2>1
  <2>3. PICK u \in scopes[l][x].users : u < nextThread
    BY <2>1, <2>2 DEF EntryUsed
  <2> QED
    BY <2>1, <2>3
<1> QED
  BY <1>1, <1>3 DEF Known

(* The body of a threaded loop is a frame. *)
LEMMA ThreadedBodyFrames ==
  ASSUME WalkInv, ContextsOrdered, UsersOK, FramesOK, ThreadedBody
  PROVE  FramesOK'
<1> DEFINE n == work[1].node
           k == ast[n].kids[4]
           v == Do("stmt", k)
           w == Restore("endLoop", n)
<1>1. /\ work # <<>> /\ n \in ThreadedLoops /\ work[1].op = "loop"
      /\ k \in DOMAIN ast /\ ast[k].kind = "block"
      /\ Continue(<<v, w>>) /\ ast' = ast /\ scopes' = scopes
      /\ IInv /\ ast \in Programs /\ curThread' = nextThread /\ curLoop' = n
  BY ThreadedBodyFacts DEF WalkInv, IInv, NewContext
<1>2. PICK F \in Values(work, Frame) :
        Links(F, work, Stack) /\ AtTop(F[1]) /\ F[Len(work) + 1] = Outermost
  BY DEF FramesOK
<1>3. F[1] \in Frame /\ FrameOK(F[1]) /\ F[1] \in Known /\ F[2] = F[1]
  BY <1>1, <1>2, HeadFrame DEF PlainOps, Ops
<1>4. /\ F[1].depth = Len(scopes) /\ F[1].thread = curThread /\ F[1].loop = curLoop
      /\ curThread \in Nat /\ nextThread \in Nat /\ Len(scopes) \in Nat /\ n \in DOMAIN ast
  BY <1>1, <1>2 DEF AtTop, IInv, ContextOK, ScopesOK, ThreadedLoops
<1>5. PICK D \in Frame : IsFrame(D, Len(scopes), nextThread, n, k, Len(scopes), nextThread)
  BY <1>1, <1>4, MakeFrame
<1>6. /\ D.depth = Len(scopes) /\ D.thread = nextThread /\ D.loop = n
      /\ D.root = k /\ D.base = Len(scopes) /\ D.ctx = nextThread
  BY <1>5 DEF IsFrame
<1>7. FrameOK(D) /\ Within(D, D) /\ Within(D, F[1])
  BY <1>1, <1>4, <1>6 DEF FrameOK, Within
<1>8. LinksAfter(F, work, Stack') /\ F[1] \in Known'
  <2>1. \A l \in 1 .. F[2].depth : \A x \in Names : Carried(l, x)
    BY <1>1, SameCarried
  <2> QED
    BY <1>1, <1>2, <1>3, <2>1, AfterKept
<1>9. D \in Known'
  BY <1>1, <1>6, NewFrameKnown
<1>10. /\ w \in Item /\ w.op = "endLoop" /\ w.node = n
       /\ w.thread = curThread /\ w.loop = curLoop
       /\ v \in Item /\ v.op = "stmt" /\ v.node = k
  BY <1>1, <1>4, RestoreFacts, DoType, DoFields DEF Ops
<1> HIDE DEF v, w
<1>11. <<w, D, F[1]>> \in Stack'
  <2>1. Moves(w, D, F[1])
    BY <1>4, <1>6, <1>10 DEF Moves
  <2>2. Ending(w)
    BY <1>10 DEF Ending
  <2>3. <<w, D, F[1]>> \in FrameLink
    BY <1>3, <1>7, <1>10, <2>1, <2>2 DEF FrameLink, Stands
  <2>4. <<w, D>> \in View'
    BY <1>1, <1>10, <2>2, ViewAt
  <2> QED
    BY <1>1, <1>8, <1>9, <2>3, <2>4, FrameLinkKept DEF Stack
<1>12. <<v, D, D>> \in Stack'
  <2>1. Moves(v, D, D)
    BY <1>10 DEF Moves
  <2>2. Stands(v, D)
    <3>1. Placed(k, k)
      BY <1>1, SubtreeFacts DEF Placed
    <3> QED
      BY <1>1, <1>6, <1>10, <3>1 DEF Stands, Opening
  <2>3. <<v, D, D>> \in FrameLink
    BY <1>7, <1>10, <2>1, <2>2 DEF FrameLink
  <2>4. <<v, D>> \in View'
    <3>1. D.base + 1 .. D.depth = {}
      BY <1>4, <1>6
    <3> QED
      BY <1>1, <1>10, <3>1, ViewAt
  <2> QED
    BY <1>1, <1>9, <2>3, <2>4, FrameLinkKept DEF Stack
<1>13. <<v, w>> \in Seq(Item)
  BY <1>10
<1>14. Strung(<<v, w>>, Stack', D, F[2])
  BY <1>3, <1>10, <1>11, <1>12, StrungTwo
<1>15. AtTop(D)'
  BY <1>1, <1>6 DEF AtTop
<1> QED
  BY <1>1, <1>2, <1>8, <1>13, <1>14, <1>15, FrameContinue

(* The function of a thread call is analyzed in a frame of its own. *)
LEMMA LaunchFrames ==
  ASSUME WalkInv, ContextsOrdered, UsersOK, FramesOK, Launch
  PROVE  FramesOK'
<1> DEFINE n == work[1].node
           w == Restore("endContext", n)
<1>1. /\ work # <<>> /\ n \in DOMAIN ast /\ work[1].op = "launch" /\ ast[n].kind = "call"
      /\ ast' = ast /\ curThread' = nextThread /\ curLoop' = curLoop
      /\ IInv /\ ast \in Programs
  BY LaunchFacts DEF WalkInv, IInv, NewContext
<1>2. PICK h \in DOMAIN ast :
        /\ ast[h].kind = "func" /\ scopes' = Append(scopes, ParamScope(h))
        /\ Plain(Each("stmt", ast[h].kids), h)
        /\ Continue(Each("stmt", ast[h].kids) \o <<Do("leave", h), Restore("endContext", n)>>)
  BY LaunchFacts
<1> DEFINE kids == Each("stmt", ast[h].kids)
           v == Do("leave", h)
<1>3. PICK F \in Values(work, Frame) :
        Links(F, work, Stack) /\ AtTop(F[1]) /\ F[Len(work) + 1] = Outermost
  BY DEF FramesOK
<1>4. F[1] \in Frame /\ FrameOK(F[1]) /\ F[1] \in Known /\ F[2] = F[1]
  BY <1>1, <1>3, HeadFrame DEF PlainOps, Ops
<1>5. /\ F[1].depth = Len(scopes) /\ F[1].thread = curThread /\ F[1].loop = curLoop
      /\ curThread \in Nat /\ nextThread \in Nat /\ Len(scopes) \in Nat
      /\ curLoop \in {0} \cup DOMAIN ast /\ scopes \in Seq(Scope) /\ Len(scopes) + 1 \in Nat
  BY <1>1, <1>3 DEF AtTop, IInv, ContextOK, ScopesOK
<1>6. PICK D \in Frame : IsFrame(D, Len(scopes) + 1, nextThread, curLoop, h, Len(scopes), nextThread)
  BY <1>5, MakeFrame
<1>7. PICK E \in Frame : IsFrame(E, Len(scopes), nextThread, curLoop, h, Len(scopes), nextThread)
  BY <1>5, MakeFrame
<1>8. /\ D.depth = Len(scopes) + 1 /\ D.thread = nextThread /\ D.loop = curLoop
      /\ D.root = h /\ D.base = Len(scopes) /\ D.ctx = nextThread
      /\ E.depth = Len(scopes) /\ E.thread = nextThread /\ E.loop = curLoop
      /\ E.root = h /\ E.base = Len(scopes) /\ E.ctx = nextThread
  BY <1>6, <1>7 DEF IsFrame
<1>9. E = [D EXCEPT !.depth = @ - 1]
  <2>1. E = [D EXCEPT !.depth = E.depth]
    BY <1>8, FrameExcept
  <2>2. D.depth - 1 = E.depth
    BY <1>5, <1>8
  <2> QED
    BY <2>1, <2>2
<1>10. /\ FrameOK(D) /\ FrameOK(E) /\ Within(D, E) /\ Within(E, F[1]) /\ D.depth > D.base
  BY <1>2, <1>5, <1>8 DEF FrameOK, Within
<1>11. /\ scopes'[Len(scopes) + 1] = ParamScope(h) /\ Len(scopes') = Len(scopes) + 1
       /\ \A l \in 1 .. Len(scopes) : scopes'[l] = scopes[l]
       /\ \A l \in 1 .. Len(scopes) : \A x \in Names : Carried(l, x)
  <2>1. ParamScope(h) \in Scope
    BY <1>1, <1>2, ParamScopeOK
  <2> QED
    BY <1>2, <1>5, <2>1, PushKeep
<1>12. LinksAfter(F, work, Stack') /\ F[1] \in Known'
  <2>1. \A l \in 1 .. F[2].depth : \A x \in Names : Carried(l, x)
    BY <1>4, <1>5, <1>11
  <2> QED
    BY <1>1, <1>3, <1>4, <2>1, AfterKept
<1>13. D \in Known' /\ E \in Known'
  BY <1>1, <1>8, <1>11, NewFrameKnown
<1>14. Placed(h, h) /\ h \in FuncParts[h]
  <2>1. h \in Subtree[h]
    BY <1>1, SubtreeFacts
  <2> QED
    BY <1>2, <2>1 DEF Placed, FuncParts
<1>15. \A l \in D.base + 1 .. D.depth : \A x \in Names : Local(scopes'[l][x], h, D.root)
  <2> SUFFICES ASSUME NEW l \in D.base + 1 .. D.depth, NEW x \in Names
               PROVE  Local(scopes'[l][x], h, D.root)
    OBVIOUS
  <2>1. l = Len(scopes) + 1
    BY <1>5, <1>8
  <2> QED
    BY <1>8, <1>11, <1>14, <2>1, ScopeEntries DEF Local
<1>16. Strung(kids, Stack', D, D)
  BY <1>1, <1>2, <1>8, <1>10, <1>13, <1>14, <1>15, PlainStrung
<1>17. /\ w \in Item /\ w.op = "endContext" /\ w.node = n
       /\ w.thread = curThread /\ w.loop = curLoop
       /\ v \in Item /\ v.op = "leave" /\ v.node = h
  BY <1>1, <1>2, RestoreFacts, LeaveFits, DoFields
<1>18. Continue(kids \o <<v, w>>)
  BY <1>2
<1> HIDE DEF v, w
<1>19. <<v, D, E>> \in Stack'
  <2>1. Moves(v, D, E)
    BY <1>9, <1>17 DEF Moves
  <2>2. Stands(v, D)
    BY <1>8, <1>10, <1>14, <1>17 DEF Stands
  <2>3. <<v, D, E>> \in FrameLink
    BY <1>10, <1>17, <2>1, <2>2 DEF FrameLink
  <2>4. <<v, D>> \in View'
    BY <1>1, <1>15, <1>17, ViewAt
  <2> QED
    BY <1>1, <1>13, <2>3, <2>4, FrameLinkKept DEF Stack
<1>20. <<w, E, F[1]>> \in Stack'
  <2>1. Moves(w, E, F[1])
    BY <1>1, <1>5, <1>8, <1>17 DEF Moves
  <2>2. Ending(w)
    BY <1>17 DEF Ending
  <2>3. <<w, E, F[1]>> \in FrameLink
    BY <1>4, <1>10, <1>17, <2>1, <2>2 DEF FrameLink, Stands
  <2>4. <<w, E>> \in View'
    BY <1>1, <1>17, <2>2, ViewAt
  <2> QED
    BY <1>1, <1>12, <1>13, <2>3, <2>4, FrameLinkKept DEF Stack
<1>21. Strung(<<v, w>>, Stack', D, F[1])
  BY <1>4, <1>17, <1>19, <1>20, StrungTwo
<1>22. kids \in Seq(Item) /\ <<v, w>> \in Seq(Item) /\ kids \o <<v, w>> \in Seq(Item)
  <2>1. kids \in Seq(Item) /\ <<v, w>> \in Seq(Item)
    BY <1>2, <1>17 DEF Plain
  <2> HIDE DEF kids
  <2> QED
    BY <2>1, ConcatProperties
<1> HIDE DEF kids
<1>23. Strung(kids \o <<v, w>>, Stack', D, F[2])
  BY <1>4, <1>16, <1>21, <1>22, StrungJoin
<1>24. AtTop(D)'
  BY <1>1, <1>8, <1>11 DEF AtTop
<1> QED
  BY <1>1, <1>3, <1>12, <1>18, <1>22, <1>23, <1>24, FrameContinue

LEMMA ReturnFrames ==
  ASSUME WalkInv, FramesOK, Leave \/ EndLoop \/ EndContext
  PROVE  FramesOK'
<1> DEFINE n == work[1].node
<1>1. /\ work # <<>> /\ n \in DOMAIN ast /\ Fits(work[1]) /\ Continue(<<>>)
      /\ ast' = ast /\ IInv /\ ast \in Programs /\ scopes \in Seq(Scope) /\ Len(scopes) \in Nat
  <2>1. 1 \in DOMAIN work \/ work = <<>>
    BY DEF WalkInv, IInv, WorkOK
  <2> QED
    BY <2>1, ReturnFacts DEF WalkInv, IInv, ScopesOK
<1>2. PICK F \in Values(work, Frame) :
        Links(F, work, Stack) /\ AtTop(F[1]) /\ F[Len(work) + 1] = Outermost
  BY DEF FramesOK
<1>3. /\ F[1] \in Frame /\ F[2] \in Frame /\ Moves(work[1], F[1], F[2])
      /\ Within(F[1], F[2]) /\ F[2] \in Known
  BY <1>1, <1>2, HeadFrame
<1>4. /\ F[1].depth = Len(scopes) /\ F[1].thread = curThread /\ F[1].loop = curLoop
      /\ F[2].depth \in Nat
  BY <1>2, <1>3, FrameFields DEF AtTop
<1>5. AtTop(F[2])' /\ \A l \in 1 .. F[2].depth : scopes'[l] = scopes[l]
  <2>1. CASE Leave
    <3>1. /\ work[1].op = "leave" /\ curThread' = curThread /\ curLoop' = curLoop
          /\ scopes' = SubSeq(scopes, 1, Len(scopes) - 1)
      BY <2>1, ReturnFacts DEF context
    <3>2. F[2] = [F[1] EXCEPT !.depth = @ - 1]
      BY <1>3, <3>1 DEF Moves
    <3>3. F[2].depth = Len(scopes) - 1 /\ F[2].thread = curThread /\ F[2].loop = curLoop
      BY <1>3, <1>4, <3>2 DEF Frame
    <3>4. \A i \in 1 .. Len(scopes) - 1 : scopes[i] \in Scope
      BY <1>1
    <3>5. /\ Len(scopes') = IF 1 <= Len(scopes) - 1 THEN Len(scopes) - 1 ELSE 0
          /\ \A l \in 1 .. Len(scopes) - 1 : scopes'[l] = scopes[l]
      BY <1>1, <3>1, <3>4, SubSeqProperties
    <3>6. Len(scopes') = Len(scopes) - 1
      <4>1. Len(scopes) - 1 \in Nat
        BY <1>4, <3>3
      <4>2. \A k \in Nat : k - 1 \in Nat => 1 <= k - 1 \/ k - 1 = 0
        OBVIOUS
      <4> QED
        BY <1>1, <3>5, <4>1, <4>2
    <3> QED
      BY <3>1, <3>3, <3>5, <3>6 DEF AtTop
  <2>2. CASE EndLoop
    <3>1. /\ work[1].op = "endLoop" /\ scopes' = scopes
          /\ curThread' = work[1].thread /\ curLoop' = work[1].loop
      BY <2>2, ReturnFacts
    <3>2. F[2].thread = work[1].thread /\ F[2].loop = work[1].loop /\ F[2].depth = F[1].depth
      BY <1>3, <3>1 DEF Moves
    <3> QED
      BY <1>4, <3>1, <3>2 DEF AtTop
  <2>3. CASE EndContext
    <3>1. /\ work[1].op = "endContext" /\ scopes' = scopes
          /\ curThread' = work[1].thread /\ curLoop' = curLoop
      BY <2>3, ReturnFacts
    <3>2. F[2].thread = work[1].thread /\ F[2].loop = F[1].loop /\ F[2].depth = F[1].depth
      <4>1. CASE ast[n].kind = "thread"
        <5>1. F[2] = [F[1] EXCEPT !.thread = work[1].thread]
          BY <1>3, <3>1, <4>1 DEF Moves
        <5> QED
          BY <1>3, <5>1 DEF Frame
      <4>2. CASE ast[n].kind # "thread"
        BY <1>3, <3>1, <4>2 DEF Moves
      <4> QED
        BY <4>1, <4>2
    <3> QED
      BY <1>4, <3>1, <3>2 DEF AtTop
  <2> QED
    BY <2>1, <2>2, <2>3
<1>6. LinksAfter(F, work, Stack') /\ F[2] \in Known'
  <2>1. \A l \in 1 .. F[2].depth : \A x \in Names : Carried(l, x)
    BY <1>5, SameCarried
  <2> QED
    BY <1>1, <1>2, <2>1, AfterKept
<1>7. Strung(<<>>, Stack', F[2], F[2])
  <2>1. \A i \in DOMAIN <<>> : <<<<>>[i], F[2], F[2]>> \in Stack'
    OBVIOUS
  <2> QED
    BY <1>3, <2>1, NoItems, StrungEach
<1> QED
  BY <1>1, <1>2, <1>5, <1>6, <1>7, NoItems, FrameContinue

LEMMA StopFrames ==
  ASSUME FramesOK, StopStep \/ UNCHANGED vars
  PROVE  FramesOK'
<1>1. UNCHANGED <<ast, work, scopes, curThread, curLoop>>
  BY StopFacts
<1>2. FrameLink' = FrameLink /\ Subtree' = Subtree /\ Frame' = Frame /\ Item' = Item
  BY <1>1, FrameLinkKept DEF Frame, Item
<1>3. FuncParts' = FuncParts
  BY <1>1, <1>2 DEF FuncParts
<1>4. View' = View
  BY <1>1, <1>2, <1>3 DEF View, Local, Ending
<1>5. Known' = Known
  BY <1>1, <1>2 DEF Known
<1>6. Stack' = Stack
  BY <1>2, <1>4, <1>5 DEF Stack
<1>7. PICK F \in Values(work, Frame) :
        Links(F, work, Stack) /\ AtTop(F[1]) /\ F[Len(work) + 1] = Outermost
  BY DEF FramesOK
<1>8. F \in Values(work', Frame') /\ Links(F, work', Stack') /\ F[Len(work') + 1] = Outermost
  BY <1>1, <1>2, <1>6, <1>7
<1>9. AtTop(F[1])'
  <2>1. AtTop(F[1])
    BY <1>7
  <2> QED
    BY <1>1, <2>1 DEF AtTop
<1> QED
  BY <1>8, <1>9 DEF FramesOK, Values, Links, Outermost

(* A step in between is never the first: a scope is open. *)
LEMMA QuietDepth ==
  ASSUME WalkInv, FramesOK, QuietStep
  PROVE  scopes # <<>>
<1>1. work # <<>> /\ QuietItem(work[1]) /\ IInv
      /\ (work[1].op = "stmt" => ast[work[1].node].kind # "program")
  BY QuietCalls DEF WalkInv
<1>2. PICK F \in Values(work, Frame) :
        Links(F, work, Stack) /\ AtTop(F[1]) /\ F[Len(work) + 1] = Outermost
  BY DEF FramesOK
<1>3. F[1] \in Frame /\ Stands(work[1], F[1])
  BY <1>1, <1>2, HeadFrame
<1>4. ~Ending(work[1]) /\ ~Opening(work[1])
  BY <1>1 DEF Ending, Opening, QuietItem, PlainOps
<1>5. F[1].depth > F[1].base /\ F[1].depth = Len(scopes) /\ F[1].base \in Nat
  BY <1>2, <1>3, <1>4, FrameFields DEF Stands, AtTop
<1> QED
  BY <1>5

LEMMA FrameStep ==
  ASSUME WalkInv, WalkInv', ContextsOrdered, UsersOK, FramesOK, StepKinds
  PROVE  FramesOK'
<1>1. ScopesOK'
  BY DEF WalkInv, IInv
<1> QED
  BY <1>1, StopFrames, QuietFrames, EnterFrames, ThreadBlockFrames, ThreadedBodyFrames,
     LaunchFrames, ReturnFrames DEF StepKinds

LEMMA InitFrames == Init => FramesOK
<1> SUFFICES ASSUME Init PROVE FramesOK
  OBVIOUS
<1>1. /\ work = <<Do("stmt", 1)>> /\ scopes = <<>> /\ curThread = 0 /\ curLoop = 0
      /\ ast \in Programs
  BY DEF Init
<1>2. 1 \in DOMAIN ast /\ ast[1].kind = "program"
  <2>1. ast \in Seq(Node) /\ ast # <<>> /\ ast[1].kind = "program"
    BY <1>1, ProgramsAssumption DEF WellFormed
  <2> QED
    BY <2>1
<1> DEFINE w == Do("stmt", 1)
<1>3. w \in Item /\ w.op = "stmt" /\ w.node = 1
  BY <1>2, DoType, DoFields DEF Ops
<1> HIDE DEF w
<1>4. /\ Outermost \in Frame /\ Outermost.base = 0 /\ Outermost.depth = 0
      /\ Outermost.root = 1 /\ Outermost.thread = 0 /\ Outermost.loop = 0 /\ Outermost.ctx = 0
  BY <1>2 DEF Outermost, Frame
<1>5. 1 \in Subtree[1]
  BY <1>1, <1>2, SubtreeFacts
<1>6. <<w, Outermost, Outermost>> \in FrameLink
  BY <1>2, <1>3, <1>4, <1>5
     DEF FrameLink, FrameOK, Within, Moves, Stands, Placed, Opening
<1>7. 0 + 1 .. 0 = {} /\ 1 .. 0 = {}
  OBVIOUS
<1>8. <<w, Outermost>> \in View /\ Outermost \in Known
  BY <1>3, <1>4, <1>7 DEF View, Known
<1>9. Strung(work, Stack, Outermost, Outermost)
  <2>1. <<w, Outermost, Outermost>> \in Stack
    BY <1>6, <1>8 DEF Stack
  <2>2. Strung(<<w>>, Stack, Outermost, Outermost)
    BY <1>3, <1>4, <2>1, StrungOne
  <2> QED
    BY <1>1, <2>2 DEF w
<1>10. AtTop(Outermost)
  BY <1>1, <1>4 DEF AtTop
<1> QED
  BY <1>9, <1>10 DEF Strung, FramesOK

-----------------------------------------------------------------------------
(* Who has touched what is in scope *)

LEMMA UsersNat ==
  ASSUME ScopesOK, NEW l \in DOMAIN scopes, NEW x \in Names
  PROVE  scopes[l][x].users \subseteq Nat
<1>1. scopes[l] \in Scope
  BY DEF ScopesOK
<1>2. scopes[l][x] \in Entry \/ scopes[l][x] = NoEntry
  BY <1>1 DEF Scope
<1> QED
  BY <1>2, NewEntryFields DEF Entry

LEMMA UsersStep ==
  ASSUME WalkInv, WalkInv', ContextsOrdered, UsersOK, FramesOK, StepKinds
  PROVE  UsersOK'
<1>1. /\ IInv /\ ScopesOK /\ ScopesOK' /\ curThread \in Nat /\ nextThread \in Nat
      /\ scopes \in Seq(Scope) /\ curThread < nextThread /\ ast \in Programs
      /\ Len(scopes) \in Nat /\ DOMAIN scopes = 1 .. Len(scopes)
      /\ scopes' \in Seq(Scope) /\ DOMAIN scopes' = 1 .. Len(scopes') /\ Len(scopes') \in Nat
  BY DEF WalkInv, IInv, ScopesOK, ContextOK, ContextsOrdered
<1>2. ASSUME NEW l \in DOMAIN scopes, NEW x \in Names
      PROVE  /\ scopes[l][x].users \subseteq Nat
             /\ \A u \in scopes[l][x].users : u < nextThread
             /\ scopes[l][x].decl # 0 =>
                  /\ scopes[l][x].users # {} /\ scopes[l][x].decl \in DOMAIN ast
                  /\ ast[scopes[l][x].decl].kind = "decl"
  BY <1>1, UsersNat DEF UsersOK, EntryUsed
<1>3. ast' = ast /\ (nextThread' = nextThread \/ nextThread' = nextThread + 1)
  <2>1. CASE StopStep \/ UNCHANGED vars
    BY <2>1, StopFacts
  <2>2. CASE QuietStep
    BY <1>1, <2>2, QuietCalls DEF context
  <2>3. CASE EnterStep
    BY <2>3, EnterFacts DEF context
  <2>4. CASE ThreadBlock
    BY <2>4, ThreadBlockFacts DEF NewContext
  <2>5. CASE ThreadedBody
    BY <2>5, ThreadedBodyFacts DEF NewContext
  <2>6. CASE Launch
    BY <2>6, LaunchFacts DEF NewContext
  <2>7. CASE Leave \/ EndLoop \/ EndContext
    BY <2>7, ReturnFacts
  <2> QED
    BY <2>1, <2>2, <2>3, <2>4, <2>5, <2>6, <2>7 DEF StepKinds
<1>4. ASSUME NEW l \in DOMAIN scopes', NEW x \in Names
      PROVE  \/ l \in DOMAIN scopes /\ scopes'[l][x] = scopes[l][x]
             \/ scopes'[l][x].decl = 0 /\ scopes'[l][x].users = {}
             \/ /\ l \in DOMAIN scopes /\ Carried(l, x)
                /\ scopes'[l][x].users \subseteq scopes[l][x].users \cup {curThread}
             \/ /\ scopes'[l][x].users = {curThread} /\ scopes'[l][x].decl \in DOMAIN ast
                /\ ast[scopes'[l][x].decl].kind = "decl"
  <2>1. CASE scopes' = scopes
    BY <2>1
  <2>2. CASE QuietStep
    <3>1. CASE Touches
      BY <1>1, <3>1, TouchesKeep
    <3>2. CASE Declares
      <4>1. work[1].node \in DOMAIN ast /\ ast[work[1].node].kind = "decl" /\ work # <<>>
        BY <1>1, <2>2, <3>2, QuietCalls DEF Declares, QuietItem
      <4>2. scopes # <<>>
        BY <2>2, QuietDepth
      <4> QED
        BY <1>1, <3>2, <4>1, <4>2, DeclaresKeep
    <3> QED
      BY <2>1, <2>2, <3>1, <3>2, QuietScopes
  <2>3. CASE EnterStep \/ Launch
    <3>1. \/ scopes' = Append(scopes, EmptyScope)
          \/ \E h \in DOMAIN ast : scopes' = Append(scopes, ParamScope(h))
      BY <2>3, EnterFacts, LaunchFacts
    <3>2. CASE scopes' = Append(scopes, EmptyScope)
      <4>1. EmptyScope \in Scope
        BY EmptyScopeOK
      <4>2. l = Len(scopes) + 1 \/ l \in 1 .. Len(scopes)
        BY <1>1, <3>2, <4>1, PushKeep
      <4> QED
        BY <1>1, <3>2, <4>1, <4>2, PushKeep, ScopeEntries, NewEntryFields
    <3>3. CASE \E h \in DOMAIN ast : scopes' = Append(scopes, ParamScope(h))
      <4>1. PICK h \in DOMAIN ast : scopes' = Append(scopes, ParamScope(h))
        BY <3>3
      <4>2. ParamScope(h) \in Scope
        BY <1>1, ParamScopeOK
      <4>3. l = Len(scopes) + 1 \/ l \in 1 .. Len(scopes)
        BY <1>1, <4>1, <4>2, PushKeep
      <4> QED
        BY <1>1, <4>1, <4>2, <4>3, PushKeep, ScopeEntries
    <3> QED
      BY <3>1, <3>2, <3>3
  <2>4. CASE Leave
    <3>1. scopes' = SubSeq(scopes, 1, Len(scopes) - 1)
      BY <2>4, ReturnFacts
    <3>2. l \in DOMAIN scopes /\ scopes'[l] = scopes[l]
      <4>1. \A i \in 1 .. Len(scopes) - 1 : scopes[i] \in Scope
        BY <1>1
      <4>2. /\ Len(scopes') = IF 1 <= Len(scopes) - 1 THEN Len(scopes) - 1 ELSE 0
            /\ \A i \in 1 .. Len(scopes) - 1 : scopes'[i] = scopes[i]
        BY <1>1, <3>1, <4>1, SubSeqProperties
      <4>3. \A k, m, j \in Nat :
              j \in 1 .. m /\ m = (IF 1 <= k - 1 THEN k - 1 ELSE 0) => j \in 1 .. k - 1 /\ j \in 1 .. k
        OBVIOUS
      <4>4. l \in Nat
        BY <1>1
      <4>5. l \in 1 .. Len(scopes) - 1 /\ l \in 1 .. Len(scopes)
        BY <1>1, <4>2, <4>3, <4>4
      <4> QED
        BY <1>1, <4>2, <4>5
    <3> QED
      BY <3>2
  <2>5. CASE (StopStep \/ UNCHANGED vars) \/ ThreadBlock \/ ThreadedBody \/ EndLoop \/ EndContext
    BY <2>1, <2>5, StopFacts, ThreadBlockFacts, ThreadedBodyFacts, ReturnFacts
  <2> QED
    BY <2>2, <2>3, <2>4, <2>5 DEF StepKinds
<1>5. ASSUME NEW l \in DOMAIN scopes', NEW x \in Names
      PROVE  /\ \A u \in scopes'[l][x].users : u < nextThread'
             /\ scopes'[l][x].decl # 0 =>
                  /\ scopes'[l][x].users # {} /\ scopes'[l][x].decl \in DOMAIN ast'
                  /\ ast'[scopes'[l][x].decl].kind = "decl"
  <2>1. CASE scopes'[l][x].decl = 0 /\ scopes'[l][x].users = {}
    BY <2>1
  <2>2. CASE /\ scopes'[l][x].users = {curThread} /\ scopes'[l][x].decl \in DOMAIN ast
             /\ ast[scopes'[l][x].decl].kind = "decl"
    BY <1>1, <1>3, <2>2
  <2>3. CASE l \in DOMAIN scopes /\ scopes'[l][x] = scopes[l][x]
    BY <1>1, <1>2, <1>3, <2>3
  <2>4. CASE /\ l \in DOMAIN scopes /\ Carried(l, x)
             /\ scopes'[l][x].users \subseteq scopes[l][x].users \cup {curThread}
    BY <1>1, <1>2, <1>3, <2>4 DEF Carried
  <2> QED
    BY <1>4, <2>1, <2>2, <2>3, <2>4
<1> QED
  BY <1>5 DEF UsersOK, EntryUsed

FrameInv == WalkInv /\ ContextsOrdered /\ UsersOK /\ FramesOK

LEMMA NextFrames == FrameInv /\ [Next]_vars => FrameInv'
BY EveryStep, NextWalk, NestStep, UsersStep, FrameStep DEF FrameInv

LEMMA InitFrameInv == Init => FrameInv
<1>1. Init => ContextsOrdered
  BY InitNest
<1>2. Init => UsersOK
  BY DEF Init, UsersOK
<1> QED
  BY <1>1, <1>2, InitWalk, InitFrames DEF FrameInv

-----------------------------------------------------------------------------
(* As many scopes are open as calls have one to close. *)

(* The elements of L below i are counted by what D has lost there. *)
Counted(L, D, i) ==
  LET below == {j \in L : j < i}
  IN  IsFiniteSet(below) /\ Cardinality(below) = D[1] - D[i]

LEMMA CountDrops ==
  ASSUME NEW n \in Nat, NEW L \in SUBSET (1 .. n), NEW D \in [1 .. n + 1 -> Nat],
         \A i \in 1 .. n : D[i + 1] = IF i \in L THEN D[i] - 1 ELSE D[i]
  PROVE  IsFiniteSet(L) /\ Cardinality(L) = D[1] - D[n + 1]
<1> DEFINE Bad == {i \in 1 .. n + 1 : ~Counted(L, D, i)}
<1>0. \A j \in L : j \in Int /\ 1 <= j /\ j <= n /\ ~(j < 1) /\ j < n + 1
  OBVIOUS
<1>1. Counted(L, D, 1)
  <2>1. {j \in L : j < 1} = {}
    BY <1>0
  <2>2. D[1] - D[1] = 0
    OBVIOUS
  <2> QED
    BY <2>1, <2>2, FS_EmptySet DEF Counted
<1>2. ASSUME NEW i \in 1 .. n, Counted(L, D, i) PROVE Counted(L, D, i + 1)
  <2> DEFINE B == {j \in L : j < i}
             C == {j \in L : j < i + 1}
  <2>1. IsFiniteSet(B) /\ Cardinality(B) = D[1] - D[i]
    BY <1>2 DEF Counted
  <2>2. D[1] \in Nat /\ D[i] \in Nat /\ D[i + 1] \in Nat
    OBVIOUS
  <2>3. CASE i \in L
    <3>1. C = B \cup {i} /\ i \notin B
      <4>1. \A j \in L : j < i + 1 <=> j < i \/ j = i
        BY <1>0
      <4>2. ~(i < i)
        OBVIOUS
      <4> QED
        BY <2>3, <4>1, <4>2
    <3> HIDE DEF B, C
    <3>2. IsFiniteSet(C) /\ Cardinality(C) = Cardinality(B) + 1
      BY <2>1, <3>1, FS_AddElement
    <3>3. D[i + 1] = D[i] - 1
      BY <2>3
    <3>4. Cardinality(C) = D[1] - D[i + 1]
      BY <2>1, <2>2, <3>2, <3>3
    <3> QED
      BY <3>2, <3>4 DEF Counted, C
  <2>4. CASE i \notin L
    <3>1. C = B
      <4>1. \A j \in L : j # i => (j < i + 1 <=> j < i)
        BY <1>0
      <4> QED
        BY <2>4, <4>1
    <3>2. D[i + 1] = D[i]
      BY <2>4
    <3> QED
      BY <2>1, <3>1, <3>2 DEF Counted
  <2> QED
    BY <2>3, <2>4
<1>3. Bad = {}
  <2> SUFFICES ASSUME Bad # {} PROVE FALSE
    OBVIOUS
  <2>1. PICK i \in Bad : \A j \in Bad : i <= j
    <3>1. Bad \in SUBSET Nat
      OBVIOUS
    <3> HIDE DEF Bad
    <3> QED
      BY <3>1, LeastElement
  <2>2. i # 1 /\ i \in 1 .. n + 1
    BY <1>1
  <2>3. i - 1 \in 1 .. n /\ i - 1 \in 1 .. n + 1 /\ ~(i <= i - 1) /\ (i - 1) + 1 = i
    BY <2>2
  <2>4. Counted(L, D, i - 1)
    BY <2>1, <2>3
  <2>5. Counted(L, D, (i - 1) + 1)
    BY <1>2, <2>3, <2>4
  <2> QED
    BY <2>3, <2>5
<1>4. n + 1 \in 1 .. n + 1 /\ {j \in L : j < n + 1} = L
  <2>1. {j \in L : j < n + 1} = L
    BY <1>0, Zenon
  <2>2. n + 1 \in 1 .. n + 1
    OBVIOUS
  <2> QED
    BY <2>1, <2>2
<1>5. Counted(L, D, n + 1)
  BY <1>3, <1>4
<1> QED
  BY <1>4, <1>5 DEF Counted

(* Only returning from a scope changes the depth. *)
LEMMA DepthDrops ==
  ASSUME NEW w \in Item, NEW a \in Frame, NEW b \in Frame, <<w, a, b>> \in FrameLink
  PROVE  b.depth = IF w.op = "leave" THEN a.depth - 1 ELSE a.depth
<1>1. Moves(w, a, b)
  BY DEF FrameLink
<1>2. CASE w.op = "leave"
  <2>1. b = [a EXCEPT !.depth = @ - 1]
    BY <1>1, <1>2 DEF Moves
  <2> QED
    BY <1>2, <2>1 DEF Frame
<1>3. CASE w.op = "endContext" /\ ast[w.node].kind = "thread"
  <2>1. b = [a EXCEPT !.thread = w.thread]
    BY <1>1, <1>3 DEF Moves
  <2> QED
    BY <1>3, <2>1 DEF Frame
<1>4. CASE w.op # "leave" /\ ~(w.op = "endContext" /\ ast[w.node].kind = "thread")
  BY <1>1, <1>4 DEF Moves
<1> QED
  BY <1>2, <1>3, <1>4

LEMMA OpenScopes ==
  ASSUME FrameInv
  PROVE  Len(scopes) = Cardinality(Leaves(work))
<1>1. PICK F \in Values(work, Frame) :
        Links(F, work, Stack) /\ AtTop(F[1]) /\ F[Len(work) + 1] = Outermost
  BY DEF FrameInv, FramesOK
<1>2. work \in Seq(Item) /\ Len(work) \in Nat /\ DOMAIN work = 1 .. Len(work)
  BY DEF FrameInv, WalkInv, IInv, WorkOK
<1> DEFINE D == [i \in 1 .. Len(work) + 1 |-> F[i].depth]
<1>3. \A i \in 1 .. Len(work) + 1 : F[i] \in Frame
  BY <1>2 DEF Values
<1>4. D \in [1 .. Len(work) + 1 -> Nat]
  BY <1>3, FrameFields
<1>5. ASSUME NEW i \in 1 .. Len(work)
      PROVE  D[i + 1] = IF i \in Leaves(work) THEN D[i] - 1 ELSE D[i]
  <2>1. <<work[i], F[i], F[i + 1]>> \in FrameLink /\ work[i] \in Item
    <3>1. <<work[i], F[i], F[i + 1]>> \in Stack
      BY <1>1, <1>2 DEF Links
    <3>2. work[i] \in Item
      BY <1>2
    <3> QED
      BY <3>1, <3>2 DEF Stack
  <2>2. i \in 1 .. Len(work) + 1 /\ i + 1 \in 1 .. Len(work) + 1
    BY <1>2
  <2>3. F[i + 1].depth = IF work[i].op = "leave" THEN F[i].depth - 1 ELSE F[i].depth
    BY <1>3, <2>1, <2>2, DepthDrops
  <2> QED
    BY <1>2, <2>2, <2>3 DEF Leaves
<1>6. Leaves(work) \in SUBSET (1 .. Len(work))
  BY <1>2 DEF Leaves
<1>7. D[1] = Len(scopes) /\ D[Len(work) + 1] = 0 /\ Len(scopes) \in Nat
  <2>1. 1 \in 1 .. Len(work) + 1 /\ Len(work) + 1 \in 1 .. Len(work) + 1
    BY <1>2
  <2>2. F[1].depth = Len(scopes) /\ F[Len(work) + 1].depth = 0 /\ F[1].depth \in Nat
    BY <1>1, <1>3, <2>1, FrameFields DEF AtTop, Outermost
  <2> QED
    BY <2>1, <2>2
<1> HIDE DEF D
<1>8. Cardinality(Leaves(work)) = D[1] - D[Len(work) + 1]
  BY <1>2, <1>4, <1>5, <1>6, CountDrops
<1> QED
  BY <1>7, <1>8

LEMMA ScopesBalance ==
  ASSUME FrameInv, TypesPriced, EndsEmpty
  PROVE  Balanced
<1>1. ASSUME status = "ok"
      PROVE  scopes = <<>> /\ types = <<>> /\ curThread = 0 /\ curLoop = 0
  <2>1. work = <<>> /\ Len(work) + 1 = 1
    BY <1>1 DEF EndsEmpty
  <2>2. PICK F \in Values(work, Frame) : AtTop(F[1]) /\ F[Len(work) + 1] = Outermost
    BY DEF FrameInv, FramesOK
  <2>3. AtTop(Outermost)
    BY <2>1, <2>2
  <2>4. PICK g \in Values(work, Nat) : g[1] = Len(types) /\ g[Len(work) + 1] = 0
    BY DEF TypesPriced, Priced
  <2>5. Len(types) = 0
    BY <2>1, <2>4
  <2>6. scopes \in Seq(Scope) /\ types \in Seq(Types)
    BY DEF FrameInv, WalkInv, IInv, ScopesOK, TypeStackOK
  <2> QED
    BY <2>3, <2>5, <2>6 DEF AtTop, Outermost
<1> QED
  BY <1>1, OpenScopes DEF Balanced

(* On every path through every tree, each scope is left by the call that   *)
(* entered it, and an accepted tree leaves nothing behind: no scope, no    *)
(* type of an expression, no context, no loop.                             *)
THEOREM BalancedHolds == Spec => []Balanced
<1>1. FrameInv /\ TypesPriced /\ EndsEmpty => Balanced
  BY ScopesBalance
<1>2. Init => EndsEmpty
  BY DEF Init, EndsEmpty
<1>3. FrameInv /\ TypesPriced /\ [Next]_vars => TypesPriced'
  BY EveryStep, PriceStep DEF FrameInv
<1>4. FrameInv /\ EndsEmpty /\ [Next]_vars => EndsEmpty'
  BY EndsStep DEF FrameInv
<1> QED
  BY <1>1, <1>2, <1>3, <1>4, InitFrameInv, NextFrames, InitPrice, PTL DEF Spec

-----------------------------------------------------------------------------
(* What the body of a threaded loop reads *)

(* The frame of a read or an update in the body of the threaded loop f.    *)
LEMMA FrameInBody ==
  ASSUME FrameInv, work # <<>>, ~Ending(work[1]), ~Opening(work[1]),
         NEW f \in ThreadedLoops, work[1].node \in BodyOf[f]
  PROVE  \E a \in Frame :
           /\ AtTop(a) /\ FrameOK(a) /\ a \in Known /\ Placed(work[1].node, a.root)
           /\ a.root \in BodyOf[f] /\ a.depth > a.base
           /\ \A l \in a.base + 1 .. a.depth : \A x \in Names :
                Local(scopes[l][x], work[1].node, a.root)
<1>1. PICK F \in Values(work, Frame) :
        Links(F, work, Stack) /\ AtTop(F[1]) /\ F[Len(work) + 1] = Outermost
  BY DEF FrameInv, FramesOK
<1>2. /\ F[1] \in Frame /\ FrameOK(F[1]) /\ Stands(work[1], F[1])
      /\ <<work[1], F[1]>> \in View /\ F[1] \in Known
  BY <1>1, HeadFrame DEF FrameInv, WalkInv
<1>3. Placed(work[1].node, F[1].root) /\ F[1].depth > F[1].base
  BY <1>2 DEF Stands
<1>4. F[1].root \in BodyOf[f]
  BY <1>3 DEF Placed
<1>5. \A l \in F[1].base + 1 .. F[1].depth : \A x \in Names :
        Local(scopes[l][x], work[1].node, F[1].root)
  BY <1>2 DEF View
<1> QED
  BY <1>1, <1>2, <1>3, <1>4, <1>5

(* u stands in a function or a threaded loop inside the body of f. *)
Inner(f, u) == \E g \in Owners : g \in Body(f) /\ u \in Owned(g)

LEMMA LoopAround ==
  ASSUME ast \in Programs, NEW f \in ThreadedLoops, NEW a \in Frame, FrameOK(a),
         a.root \in BodyOf[f], NEW n \in Subtree[a.root], ~Inner(f, n)
  PROVE  /\ a.loop = f /\ Subtree[a.root] = BodyOf[f] /\ n \notin FuncParts[a.root]
<1>1. /\ f \in DOMAIN ast /\ ast[f].kids[4] \in DOMAIN ast /\ IsKid(ast[f].kids[4], f)
      /\ BodyOf[f] = Subtree[ast[f].kids[4]]
  BY BodyFacts
<1>2. BodyOf[f] = Body(f) /\ BodyOf[f] \subseteq DOMAIN ast
  BY <1>1, SubtreeFacts DEF BodyOf
<1>3. \A g \in DOMAIN ast : Subtree[g] = Under(g)
  BY DEF Subtree
<1>4. ASSUME NEW g \in BodyOf[f], ast[g].kind = "func" PROVE n \notin Subtree[g]
  BY <1>2, <1>3, <1>4 DEF Inner, Owners, Owned
<1>5. ASSUME NEW g \in BodyOf[f], g \in ThreadedLoops PROVE n \notin BodyOf[g]
  <2>1. BodyOf[g] = Body(g) /\ ast[g].kind # "func"
    BY <1>5 DEF BodyOf, ThreadedLoops
  <2> QED
    BY <1>2, <1>5, <2>1 DEF Inner, Owners, Owned
<1>6. a.root # 1
  <2>1. ast[f].kids[4] # 1 /\ ast[f].kids[4] > f
    BY <1>1, OneParent
  <2>2. a.root >= ast[f].kids[4]
    BY <1>1, <1>3, UnderFacts
  <2>3. \A m \in DOMAIN ast : m \in Nat /\ m >= 1
    BY ProgramsAssumption DEF WellFormed
  <2> QED
    BY <1>1, <2>1, <2>2, <2>3
<1>7. ast[a.root].kind # "func"
  BY <1>4
<1>8. a.loop \in ThreadedLoops /\ a.root = ast[a.loop].kids[4]
  BY <1>6, <1>7 DEF FrameOK
<1>9. /\ a.loop \in DOMAIN ast /\ IsKid(a.root, a.loop) /\ BodyOf[a.loop] = Subtree[a.root]
      /\ a.root \in DOMAIN ast
  BY <1>8, BodyFacts
<1>10. a.loop = f
  <2> SUFFICES ASSUME a.loop # f PROVE FALSE
    OBVIOUS
  <2>1. a.root # ast[f].kids[4]
    BY <1>1, <1>9, OneParent
  <2>2. a.loop \in Under(ast[f].kids[4])
    BY <1>1, <1>3, <1>9, <2>1, ParentUnder
  <2>3. a.loop \in BodyOf[f]
    BY <1>1, <1>3, <2>2
  <2> QED
    BY <1>5, <1>8, <1>9, <2>3
<1>11. Subtree[a.root] = BodyOf[f]
  BY <1>9, <1>10
<1>12. n \notin FuncParts[a.root]
  BY <1>4, <1>9, <1>11 DEF FuncParts
<1> QED
  BY <1>10, <1>11, <1>12

Reaches(f, u) ==
  \/ ast[u].name = LoopVar(f)
  \/ \E i \in DOMAIN captured[f] : captured[f][i].name = ast[u].name
  \/ Len(captured[f]) = MaxCaptured

ReadsCaptured ==
  \A f \in ThreadedLoops : \A u \in Body(f) :
    ast[u].kind = "ident" /\ bound[u] # -1 /\ bound[u] \notin Body(f) /\ ~Inner(f, u)
      => Reaches(f, u)

CapturedFits == \A n \in DOMAIN ast : Len(captured[n]) <= MaxCaptured

(* What a step does to the captured names of f. *)
Longer(f, x) ==
  /\ f = curLoop /\ Len(captured[f]) < MaxCaptured
  /\ \E type \in Types : captured'[f] = Append(captured[f], [name |-> x, type |-> type])

LEMMA ReadsKept ==
  ASSUME WalkInv, StepKinds
  PROVE  /\ ast' = ast
         /\ Identifier \/ /\ captured' = captured
                          /\ \A u \in DOMAIN ast : ast[u].kind = "ident" => bound'[u] = bound[u]
<1>1. CASE QuietStep
  <2>1. ast' = ast /\ work[1].node \in DOMAIN ast /\ bound \in [DOMAIN ast -> Nat \cup {-1}]
    BY <1>1, QuietCalls DEF QuietItem, WalkInv, IInv, TreeOK
  <2>2. CASE Update
    <3>1. captured' = captured /\ ast[work[1].node].kind = "update"
      BY <2>2 DEF Update, At, nd
    <3>2. \E l \in DOMAIN scopes :
            bound' = [bound EXCEPT ![work[1].node] = Touch(scopes[l][nd.name]).decl]
      BY <2>2 DEF Update
    <3> QED
      BY <2>1, <3>1, <3>2
  <2>3. CASE ~Update /\ ~Identifier
    BY <1>1, <2>1, <2>3 DEF QuietStep, DeclarationValue, Declare, Store, IfStatement, ForLoop,
       Test, Operands, Discard, LaunchUnknown, Literal, Operator, Operate, Negate, CallValue,
       Yield, tree
  <2> QED
    BY <2>1, <2>2, <2>3
<1>2. CASE StopStep \/ UNCHANGED vars
  BY <1>2, StopFacts
<1>3. CASE EnterStep
  BY <1>3, EnterFacts DEF tree
<1>4. CASE ThreadBlock \/ ThreadedBody \/ Launch
  BY <1>4, ThreadBlockFacts, ThreadedBodyFacts, LaunchFacts DEF tree
<1>5. CASE Leave \/ EndLoop \/ EndContext
  BY <1>5, ReturnFacts DEF tree
<1> QED
  BY <1>1, <1>2, <1>3, <1>4, <1>5 DEF StepKinds

(* An identifier, whatever it is bound to. *)
LEMMA IdentifierFacts ==
  ASSUME WalkInv, Identifier
  PROVE  LET n == work[1].node
             x == ast[n].name
         IN  /\ work # <<>> /\ n \in DOMAIN ast /\ work[1].op = "expr" /\ ast[n].kind = "ident"
             /\ x \in Names /\ ast' = ast
             /\ \E l \in DOMAIN scopes :
                  /\ scopes[l][x] # NoEntry /\ scopes[l][x] \in Entry
                  /\ bound' = [bound EXCEPT ![n] = scopes[l][x].decl]
                  /\ Captures(l, x) => Longer(curLoop, x)
                  /\ \A f \in DOMAIN ast : captured'[f] = captured[f] \/ Longer(f, x)
<1> DEFINE n == work[1].node
           x == ast[n].name
<1>1. /\ work # <<>> /\ n \in DOMAIN ast /\ work[1].op = "expr" /\ ast[n].kind = "ident"
  BY HeadFacts DEF Identifier
<1>2. x \in Names /\ x = nd.name
  BY <1>1, NodeFacts DEF WalkInv, IInv, nd
<1>3. PICK l \in DOMAIN scopes :
        /\ Binds(l, x)
        /\ bound' = [bound EXCEPT ![n] = scopes[l][x].decl]
        /\ captured' = IF Captures(l, x)
                       THEN [captured EXCEPT ![curLoop] =
                               Append(@, [name |-> x, type |-> scopes[l][x].type])]
                       ELSE captured
  BY <1>2 DEF Identifier
<1>4. scopes[l][x] \in Entry /\ scopes[l][x] # NoEntry
  BY <1>2, <1>3, BoundEntry DEF WalkInv, IInv, Binds
<1>5. scopes[l][x].type \in Types
  BY <1>4 DEF Entry
<1>6. /\ captured \in [DOMAIN ast -> Seq(Params)] /\ curLoop \in {0} \cup DOMAIN ast
  BY DEF WalkInv, IInv, TreeOK, ContextOK
<1>7. CASE Captures(l, x)
  <2>1. curLoop \in DOMAIN ast /\ Len(captured[curLoop]) < MaxCaptured
    BY <1>6, <1>7 DEF Captures
  <2>2. captured'[curLoop] = Append(captured[curLoop], [name |-> x, type |-> scopes[l][x].type])
    BY <1>3, <1>6, <1>7, <2>1
  <2>3. Longer(curLoop, x)
    BY <1>5, <2>1, <2>2 DEF Longer
  <2>4. \A f \in DOMAIN ast : f # curLoop => captured'[f] = captured[f]
    BY <1>3, <1>6, <1>7
  <2> QED
    BY <1>1, <1>2, <1>3, <1>4, <2>3, <2>4 DEF Identifier
<1>8. CASE ~Captures(l, x)
  BY <1>1, <1>2, <1>3, <1>4, <1>8 DEF Identifier
<1> QED
  BY <1>7, <1>8

LEMMA LongerList ==
  ASSUME NEW f \in DOMAIN ast, NEW x \in Names, WalkInv, Longer(f, x)
  PROVE  /\ Len(captured'[f]) = Len(captured[f]) + 1
         /\ \E i \in DOMAIN captured'[f] : captured'[f][i].name = x
         /\ \A i \in DOMAIN captured[f] :
              i \in DOMAIN captured'[f] /\ captured'[f][i] = captured[f][i]
<1>1. PICK type \in Types : captured'[f] = Append(captured[f], [name |-> x, type |-> type])
  BY DEF Longer
<1>2. captured[f] \in Seq(Params) /\ Len(captured[f]) \in Nat
  BY DEF WalkInv, IInv, TreeOK
<1> DEFINE c == [name |-> x, type |-> type]
<1>3. c \in Params /\ c.name = x
  BY DEF Params
<1> HIDE DEF c
<1>4. /\ captured'[f] \in Seq(Params) /\ Len(captured'[f]) = Len(captured[f]) + 1
      /\ captured'[f][Len(captured[f]) + 1] = c
      /\ \A i \in 1 .. Len(captured[f]) : captured'[f][i] = captured[f][i]
  BY <1>1, <1>2, <1>3 DEF c
<1>5. DOMAIN captured[f] = 1 .. Len(captured[f]) /\ DOMAIN captured'[f] = 1 .. Len(captured[f]) + 1
  BY <1>2, <1>4
<1>6. Len(captured[f]) + 1 \in DOMAIN captured'[f]
  BY <1>2, <1>5
<1> QED
  BY <1>2, <1>3, <1>4, <1>5, <1>6

LEMMA CapturedFitsStep ==
  ASSUME WalkInv, CapturedFits, StepKinds
  PROVE  CapturedFits'
<1>1. CASE captured' = captured
  <2>1. ast' = ast
    BY ReadsKept
  <2> QED
    BY <1>1, <2>1 DEF CapturedFits
<1>2. CASE Identifier
  <2> DEFINE x == ast[work[1].node].name
  <2>1. x \in Names /\ ast' = ast /\ \A f \in DOMAIN ast : captured'[f] = captured[f] \/ Longer(f, x)
    BY <1>2, IdentifierFacts
  <2>2. MaxCaptured \in Nat
    BY LimitsAssumption
  <2>3. ASSUME NEW f \in DOMAIN ast PROVE Len(captured'[f]) <= MaxCaptured
    <3>1. CASE captured'[f] = captured[f]
      BY <3>1 DEF CapturedFits
    <3>2. CASE Longer(f, x)
      <4>1. Len(captured'[f]) = Len(captured[f]) + 1
        BY <2>1, <3>2, LongerList
      <4>2. captured[f] \in Seq(Params)
        BY DEF WalkInv, IInv, TreeOK
      <4>3. Len(captured[f]) \in Nat /\ Len(captured[f]) < MaxCaptured
        BY <3>2, <4>2 DEF Longer
      <4> QED
        BY <2>2, <4>1, <4>3
    <3> QED
      BY <2>1, <3>1, <3>2
  <2> QED
    BY <2>1, <2>3 DEF CapturedFits
<1> QED
  BY <1>1, <1>2, ReadsKept

(* What reaches the workers of f still does after the step. *)
LEMMA ReachesKept ==
  ASSUME WalkInv, ast' = ast, NEW f \in ThreadedLoops, NEW u, Reaches(f, u),
         captured'[f] = captured[f] \/ \E x \in Names : Longer(f, x)
  PROVE  Reaches(f, u)'
<1>1. f \in DOMAIN ast
  BY DEF ThreadedLoops
<1>2. CASE captured'[f] = captured[f]
  BY <1>2 DEF Reaches, LoopVar
<1>3. CASE \E x \in Names : Longer(f, x)
  <2>1. PICK x \in Names : Longer(f, x)
    BY <1>3
  <2>2. captured[f] \in Seq(Params) /\ MaxCaptured \in Nat
    BY <1>1, LimitsAssumption DEF WalkInv, IInv, TreeOK
  <2>3. Len(captured[f]) # MaxCaptured
    BY <2>1, <2>2 DEF Longer
  <2>4. \A i \in DOMAIN captured[f] :
          i \in DOMAIN captured'[f] /\ captured'[f][i] = captured[f][i]
    BY <1>1, <2>1, LongerList
  <2> QED
    BY <2>3, <2>4 DEF Reaches, LoopVar
<1> QED
  BY <1>2, <1>3

(* An identifier in the body of f that is bound outside of it is reached.  *)
LEMMA ReadReaches ==
  ASSUME FrameInv, CapturedFits, Identifier, NEW f \in ThreadedLoops,
         NEW n, n = work[1].node, n \in Body(f), ~Inner(f, n), bound'[n] \notin Body(f)
  PROVE  Reaches(f, n)'
<1> DEFINE x == ast[n].name
<1>1. /\ work # <<>> /\ n \in DOMAIN ast /\ work[1].op = "expr" /\ ast[n].kind = "ident"
      /\ x \in Names /\ ast' = ast /\ f \in DOMAIN ast /\ ast \in Programs
      /\ bound \in [DOMAIN ast -> Nat \cup {-1}] /\ Body(f) = BodyOf[f]
      /\ scopes \in Seq(Scope) /\ captured[f] \in Seq(Params) /\ MaxCaptured \in Nat
      /\ WalkInv
  BY IdentifierFacts, LimitsAssumption
     DEF FrameInv, WalkInv, IInv, TreeOK, ScopesOK, ThreadedLoops, BodyOf
<1>2. PICK l \in DOMAIN scopes :
        /\ scopes[l][x] # NoEntry
        /\ bound' = [bound EXCEPT ![n] = scopes[l][x].decl]
        /\ Captures(l, x) => Longer(curLoop, x)
        /\ captured'[f] = captured[f] \/ Longer(f, x)
  BY <1>1, IdentifierFacts
<1>3. scopes[l][x].decl \notin BodyOf[f]
  BY <1>1, <1>2
<1>4. ~Ending(work[1]) /\ ~Opening(work[1])
  BY <1>1 DEF Ending, Opening
<1>5. PICK a \in Frame :
        /\ AtTop(a) /\ FrameOK(a) /\ a \in Known /\ Placed(n, a.root)
        /\ a.root \in BodyOf[f] /\ a.depth > a.base
        /\ \A m \in a.base + 1 .. a.depth : \A y \in Names : Local(scopes[m][y], n, a.root)
  BY <1>1, <1>4, FrameInBody
<1>6. /\ a.loop = f /\ Subtree[a.root] = BodyOf[f] /\ n \notin FuncParts[a.root]
  BY <1>1, <1>5, LoopAround DEF Placed
<1>7. curLoop = f /\ f # 0
  <2>1. ast \in Seq(Node)
    BY <1>1, ProgramsAssumption DEF WellFormed
  <2>2. 0 \notin DOMAIN ast
    BY <2>1
  <2> QED
    BY <1>1, <1>5, <1>6, <2>2 DEF AtTop
<1>8. l < Len(scopes)
  <2>1. /\ l \in Nat /\ l >= 1 /\ l <= Len(scopes) /\ Len(scopes) \in Nat /\ a.base \in Nat
        /\ a.depth = Len(scopes)
    BY <1>1, <1>5, FrameFields DEF AtTop
  <2>2. l \notin a.base + 1 .. a.depth
    <3> SUFFICES ASSUME l \in a.base + 1 .. a.depth PROVE FALSE
      OBVIOUS
    <3>1. Local(scopes[l][x], n, a.root)
      BY <1>1, <1>5
    <3> QED
      BY <1>2, <1>3, <1>6, <3>1 DEF Local
  <2> QED
    BY <1>5, <2>1, <2>2
<1>9. CASE Captures(l, x)
  <2>1. \E i \in DOMAIN captured'[f] : captured'[f][i].name = x
    BY <1>1, <1>2, <1>7, <1>9, LongerList
  <2> QED
    BY <1>1, <2>1 DEF Reaches
<1>10. CASE ~Captures(l, x)
  <2>1. \/ x = LoopVar(f)
        \/ \E i \in DOMAIN captured[f] : captured[f][i].name = x
        \/ ~(Len(captured[f]) < MaxCaptured)
    BY <1>7, <1>8, <1>10 DEF Captures
  <2>2. Len(captured[f]) \in Nat /\ Len(captured[f]) <= MaxCaptured
    BY <1>1 DEF CapturedFits
  <2>3. Reaches(f, n)
    BY <1>1, <2>1, <2>2 DEF Reaches
  <2> QED
    BY <1>1, <1>2, <2>3, ReachesKept
<1> QED
  BY <1>9, <1>10

LEMMA ReadsStep ==
  ASSUME FrameInv, CapturedFits, ReadsCaptured, StepKinds
  PROVE  ReadsCaptured'
<1>1. ast' = ast /\ WalkInv
  BY ReadsKept DEF FrameInv
<1>2. /\ ThreadedLoops' = ThreadedLoops /\ \A f \in ThreadedLoops : Body(f)' = Body(f)
      /\ \A f \in ThreadedLoops : \A u : Inner(f, u)' = Inner(f, u)
  BY <1>1 DEF ThreadedLoops, Body, Under, Inner, Owners, Owned
<1> SUFFICES ASSUME NEW f \in ThreadedLoops, NEW u \in Body(f),
                    ast[u].kind = "ident", bound'[u] # -1, bound'[u] \notin Body(f), ~Inner(f, u)
             PROVE  Reaches(f, u)'
  BY <1>1, <1>2 DEF ReadsCaptured
<1>3. u \in DOMAIN ast /\ f \in DOMAIN ast
  <2>1. BodyOf[f] \subseteq DOMAIN ast /\ f \in DOMAIN ast /\ Body(f) = BodyOf[f]
    BY <1>1, BodyFacts, SubtreeFacts DEF WalkInv, IInv, BodyOf
  <2> QED
    BY <2>1
<1>4. CASE ~Identifier
  <2>1. captured' = captured /\ bound'[u] = bound[u]
    BY <1>1, <1>3, <1>4, ReadsKept
  <2>2. Reaches(f, u)
    BY <2>1 DEF ReadsCaptured
  <2> QED
    BY <1>1, <2>1, <2>2, ReachesKept
<1>5. CASE Identifier /\ u # work[1].node
  <2> DEFINE x == ast[work[1].node].name
  <2>1. x \in Names /\ (captured'[f] = captured[f] \/ Longer(f, x))
    BY <1>1, <1>3, <1>5, IdentifierFacts
  <2>2. bound'[u] = bound[u]
    <3>1. PICK l \in DOMAIN scopes :
            bound' = [bound EXCEPT ![work[1].node] = scopes[l][x].decl]
      BY <1>1, <1>5, IdentifierFacts
    <3> QED
      BY <1>1, <1>3, <1>5, <3>1 DEF WalkInv, IInv, TreeOK
  <2>3. Reaches(f, u)
    BY <2>2 DEF ReadsCaptured
  <2> QED
    BY <1>1, <2>1, <2>3, ReachesKept
<1>6. CASE Identifier /\ u = work[1].node
  BY <1>6, ReadReaches
<1> QED
  BY <1>4, <1>5, <1>6

LEMMA InitCapturedFits == Init => CapturedFits
<1>1. Init => \A n \in DOMAIN ast : captured[n] = <<>>
  BY DEF Init
<1> QED
  BY <1>1, LimitsAssumption DEF CapturedFits

LEMMA CapturedFitsAlways == Spec => []CapturedFits
<1>1. FrameInv /\ CapturedFits /\ [Next]_vars => CapturedFits'
  BY EveryStep, CapturedFitsStep DEF FrameInv
<1> QED
  BY <1>1, InitCapturedFits, InitFrameInv, NextFrames, PTL DEF Spec

LEMMA LeftAnnotated ==
  FrameInv /\ CapturedFits => Annotated(ast, isShared, captured, MaxCaptured)
BY ProgramsAssumption DEF FrameInv, WalkInv, IInv, TreeOK, CapturedFits, Annotated

(* What semantic_analyze leaves in the tree is what emit_program takes for *)
(* granted: a well-formed tree, and no more captured names in a for node   *)
(* than captured_names[] of the generator has room for.                    *)
THEOREM AnnotatedHolds == Spec => []Annotated(ast, isShared, captured, MaxCaptured)
  BY LeftAnnotated, CapturedFitsAlways, InitFrameInv, NextFrames, PTL DEF Spec

LEMMA InitReads == Init => ReadsCaptured
<1> SUFFICES ASSUME Init, NEW f \in ThreadedLoops, NEW u \in Body(f) PROVE bound[u] = -1
  BY DEF ReadsCaptured
<1>1. ast \in Programs /\ \A n \in DOMAIN ast : bound[n] = -1
  BY DEF Init
<1>2. BodyOf[f] \subseteq DOMAIN ast /\ Body(f) = BodyOf[f]
  BY <1>1, BodyFacts, SubtreeFacts DEF BodyOf
<1> QED
  BY <1>1, <1>2

LEMMA ReadsReach == ReadsCaptured => OuterReadsCaptured
BY DEF ReadsCaptured, OuterReadsCaptured, Reaches, Inner

(* Whatever the program, the limits and the order in which functions are   *)
(* analyzed again: an accepted tree passes every outer variable that the   *)
(* body of a threaded loop reads to its workers, while there is room.      *)
THEOREM OuterReadsCapturedHolds == Spec => []OuterReadsCaptured
<1>1. FrameInv /\ CapturedFits /\ ReadsCaptured /\ [Next]_vars => ReadsCaptured'
  BY EveryStep, ReadsStep
<1> QED
  BY <1>1, InitReads, ReadsReach, CapturedFitsAlways, InitFrameInv, NextFrames, PTL DEF Spec

-----------------------------------------------------------------------------
(* What the body of a threaded loop updates *)

UpdatesMarked ==
  \A f \in ThreadedLoops : \A u \in Body(f) :
    ast[u].kind = "update" /\ bound[u] > 0 /\ bound[u] \notin Body(f) => isShared[u] = "shared"

LEMMA UpdateFacts ==
  ASSUME WalkInv, UsersOK, Update
  PROVE  LET n == work[1].node
             x == ast[n].name
         IN  /\ work # <<>> /\ n \in DOMAIN ast /\ work[1].op = "stmt" /\ ast[n].kind = "update"
             /\ x \in Names /\ ast' = ast
             /\ \E l \in DOMAIN scopes :
                  /\ scopes[l][x] # NoEntry /\ scopes[l][x] \in Entry
                  /\ bound' = [bound EXCEPT ![n] = scopes[l][x].decl]
                  /\ isShared'[n] = Mark(Touch(scopes[l][x]))
                  /\ EntryInv(Touch(scopes[l][x]))
                  /\ \A u \in DOMAIN ast :
                       ast[u].kind = "update" /\ u # n => isShared'[u] = isShared[u]
<1> DEFINE n == work[1].node
           x == ast[n].name
<1>1. /\ work # <<>> /\ n \in DOMAIN ast /\ work[1].op = "stmt" /\ ast[n].kind = "update"
  BY HeadFacts DEF Update
<1>2. x \in Names /\ x = nd.name /\ ast' = ast
  BY <1>1, NodeFacts DEF WalkInv, IInv, nd, Update
<1>3. PICK l \in DOMAIN scopes :
        /\ Binds(l, x)
        /\ isShared' = [m \in DOMAIN isShared |->
                          IF m \in {n, Touch(scopes[l][x]).decl} THEN Mark(Touch(scopes[l][x]))
                          ELSE isShared[m]]
        /\ bound' = [bound EXCEPT ![n] = Touch(scopes[l][x]).decl]
  BY <1>2 DEF Update
<1>4. /\ scopes[l][x] \in Entry /\ scopes[l][x] # NoEntry /\ EntryInv(Touch(scopes[l][x]))
  BY <1>2, <1>3, BoundEntry DEF WalkInv, IInv, Binds
<1>5. Touch(scopes[l][x]).decl = scopes[l][x].decl
  BY <1>4, TouchFields DEF WalkInv, IInv
<1>6. DOMAIN isShared = DOMAIN ast
  BY DEF WalkInv, IInv, TreeOK
<1>7. isShared'[n] = Mark(Touch(scopes[l][x]))
  BY <1>1, <1>3, <1>6
<1>8. scopes[l][x].decl \in DOMAIN ast => ast[scopes[l][x].decl].kind = "decl"
  <2>1. scopes[l][x].decl # 0 => ast[scopes[l][x].decl].kind = "decl"
    BY <1>2 DEF UsersOK, EntryUsed
  <2>2. ast \in Seq(Node)
    BY ProgramsAssumption DEF WalkInv, IInv, WellFormed
  <2>3. 0 \notin DOMAIN ast
    BY <2>2
  <2> QED
    BY <2>1, <2>3
<1>9. ASSUME NEW u \in DOMAIN ast, ast[u].kind = "update", u # n
      PROVE  isShared'[u] = isShared[u]
  BY <1>3, <1>5, <1>6, <1>8, <1>9
<1> QED
  BY <1>1, <1>2, <1>3, <1>4, <1>5, <1>7, <1>9

LEMMA UpdatesKept ==
  ASSUME WalkInv, StepKinds, ~Update
  PROVE  \A u \in DOMAIN ast :
           ast[u].kind = "update" => bound'[u] = bound[u] /\ isShared'[u] = isShared[u]
<1>1. CASE QuietStep
  <2>1. ast' = ast /\ work[1].node \in DOMAIN ast /\ bound \in [DOMAIN ast -> Nat \cup {-1}]
        /\ DOMAIN isShared = DOMAIN ast
    BY <1>1, QuietCalls DEF QuietItem, WalkInv, IInv, TreeOK
  <2>2. CASE Identifier
    <3>1. isShared' = isShared /\ ast[work[1].node].kind = "ident"
      BY <2>2 DEF Identifier, At, nd
    <3>2. \E l \in DOMAIN scopes : bound' = [bound EXCEPT ![work[1].node] = scopes[l][nd.name].decl]
      BY <2>2 DEF Identifier
    <3> QED
      BY <2>1, <3>1, <3>2
  <2>3. CASE Declare
    <3>1. bound' = bound /\ ast[work[1].node].kind = "decl"
      BY <2>3 DEF Declare, At, nd
    <3>2. isShared' = [isShared EXCEPT ![work[1].node] = Mark(Touch(NewEntry(nd.type, work[1].node)))]
      BY <2>3 DEF Declare
    <3> QED
      BY <2>1, <3>1, <3>2
  <2>4. CASE ~Update /\ ~Identifier /\ ~Declare
    BY <1>1, <2>1, <2>4 DEF QuietStep, DeclarationValue, Store, IfStatement, ForLoop,
       Test, Operands, Discard, LaunchUnknown, Literal, Operator, Operate, Negate, CallValue,
       Yield, tree
  <2> QED
    BY <2>2, <2>3, <2>4
<1>2. CASE StopStep \/ UNCHANGED vars
  BY <1>2, StopFacts
<1>3. CASE EnterStep
  BY <1>3, EnterFacts DEF tree
<1>4. CASE ThreadBlock \/ ThreadedBody \/ Launch
  BY <1>4, ThreadBlockFacts, ThreadedBodyFacts, LaunchFacts DEF tree
<1>5. CASE Leave \/ EndLoop \/ EndContext
  BY <1>5, ReturnFacts DEF tree
<1> QED
  BY <1>1, <1>2, <1>3, <1>4, <1>5 DEF StepKinds

(* An update in the body of f of a variable declared outside of it: some   *)
(* earlier context has touched the variable, so it is shared now.          *)
LEMMA UpdateMarks ==
  ASSUME FrameInv, Update, NEW f \in ThreadedLoops, NEW n, n = work[1].node,
         n \in Body(f), bound'[n] > 0, bound'[n] \notin Body(f)
  PROVE  isShared'[n] = "shared"
<1> DEFINE x == ast[n].name
<1>1. /\ work # <<>> /\ n \in DOMAIN ast /\ work[1].op = "stmt" /\ ast[n].kind = "update"
      /\ x \in Names /\ ast \in Programs /\ f \in DOMAIN ast
      /\ bound \in [DOMAIN ast -> Nat \cup {-1}] /\ Body(f) = BodyOf[f]
      /\ scopes \in Seq(Scope) /\ ScopesOK /\ ContextOK
  BY UpdateFacts DEF FrameInv, WalkInv, IInv, TreeOK, ScopesOK, ThreadedLoops, BodyOf
<1>2. PICK l \in DOMAIN scopes :
        /\ scopes[l][x] # NoEntry /\ scopes[l][x] \in Entry
        /\ bound' = [bound EXCEPT ![n] = scopes[l][x].decl]
        /\ isShared'[n] = Mark(Touch(scopes[l][x]))
        /\ EntryInv(Touch(scopes[l][x]))
  BY <1>1, UpdateFacts DEF FrameInv
<1>3. scopes[l][x].decl \notin BodyOf[f] /\ scopes[l][x].decl # 0
  <2>1. bound'[n] = scopes[l][x].decl
    BY <1>1, <1>2
  <2> QED
    BY <1>1, <2>1
<1>4. ~Ending(work[1]) /\ ~Opening(work[1])
  BY <1>1 DEF Ending, Opening
<1>5. PICK a \in Frame :
        /\ AtTop(a) /\ FrameOK(a) /\ a \in Known /\ Placed(n, a.root)
        /\ a.root \in BodyOf[f] /\ a.depth > a.base
        /\ \A m \in a.base + 1 .. a.depth : \A y \in Names : Local(scopes[m][y], n, a.root)
  BY <1>1, <1>4, FrameInBody
<1>6. Subtree[a.root] \subseteq BodyOf[f]
  <2>1. BodyOf[f] = Subtree[ast[f].kids[4]] /\ ast[f].kids[4] \in DOMAIN ast
    BY <1>1, BodyFacts
  <2> QED
    BY <1>1, <1>5, <2>1, SubtreeFacts
<1>7. l \in 1 .. a.base
  <2>1. /\ l \in Nat /\ l >= 1 /\ l <= Len(scopes) /\ Len(scopes) \in Nat /\ a.base \in Nat
        /\ a.depth = Len(scopes)
    BY <1>1, <1>5, FrameFields DEF AtTop
  <2>2. l \notin a.base + 1 .. a.depth
    <3> SUFFICES ASSUME l \in a.base + 1 .. a.depth PROVE FALSE
      OBVIOUS
    <3>1. Local(scopes[l][x], n, a.root)
      BY <1>1, <1>5
    <3> QED
      BY <1>2, <1>3, <1>6, <3>1 DEF Local
  <2> QED
    BY <2>1, <2>2
<1>8. PICK v \in scopes[l][x].users : v < a.ctx
  BY <1>1, <1>3, <1>5, <1>7 DEF Known
<1>9. v # curThread
  <2>1. a.ctx \in Nat /\ a.thread \in Nat /\ a.ctx <= a.thread /\ a.thread = curThread
    BY <1>5, FrameFields DEF FrameOK, AtTop
  <2>2. v \in Nat
    BY <1>1, <1>8, UsersNat
  <2> QED
    BY <1>8, <2>1, <2>2
<1> DEFINE e == Touch(scopes[l][x])
<1>10. e \in Entry /\ v \in e.users /\ curThread \in e.users
  BY <1>1, <1>2, <1>8, TouchFields
<1>11. EntryInv(e)
  BY <1>2
<1>12. isShared'[n] = Mark(e)
  BY <1>2
<1> HIDE DEF e
<1>13. e.shared
  BY <1>9, <1>10, <1>11, EntryShared
<1> QED
  BY <1>12, <1>13 DEF Mark

LEMMA MarkedStep ==
  ASSUME FrameInv, UpdatesMarked, StepKinds
  PROVE  UpdatesMarked'
<1>1. ast' = ast /\ WalkInv /\ UsersOK
  BY ReadsKept DEF FrameInv
<1>2. ThreadedLoops' = ThreadedLoops /\ \A f \in ThreadedLoops : Body(f)' = Body(f)
  BY <1>1 DEF ThreadedLoops, Body, Under
<1> SUFFICES ASSUME NEW f \in ThreadedLoops, NEW u \in Body(f), ast[u].kind = "update",
                    bound'[u] > 0, bound'[u] \notin Body(f)
             PROVE  isShared'[u] = "shared"
  BY <1>1, <1>2 DEF UpdatesMarked
<1>3. u \in DOMAIN ast
  <2>1. BodyOf[f] \subseteq DOMAIN ast /\ f \in DOMAIN ast /\ Body(f) = BodyOf[f]
    BY <1>1, BodyFacts, SubtreeFacts DEF WalkInv, IInv, BodyOf
  <2> QED
    BY <2>1
<1>4. CASE ~Update
  BY <1>1, <1>3, <1>4, UpdatesKept DEF UpdatesMarked
<1>5. CASE Update /\ u # work[1].node
  <2>1. PICK l \in DOMAIN scopes :
          /\ bound' = [bound EXCEPT ![work[1].node] = scopes[l][ast[work[1].node].name].decl]
          /\ isShared'[u] = isShared[u]
    BY <1>1, <1>3, <1>5, UpdateFacts
  <2>2. bound'[u] = bound[u]
    BY <1>1, <1>3, <1>5, <2>1 DEF WalkInv, IInv, TreeOK
  <2> QED
    BY <2>1, <2>2 DEF UpdatesMarked
<1>6. CASE Update /\ u = work[1].node
  BY <1>6, UpdateMarks
<1> QED
  BY <1>4, <1>5, <1>6

LEMMA InitUpdates == Init => UpdatesMarked
<1> SUFFICES ASSUME Init, NEW f \in ThreadedLoops, NEW u \in Body(f) PROVE ~(bound[u] > 0)
  BY DEF UpdatesMarked
<1>1. \A n \in DOMAIN ast : bound[n] = -1
  BY DEF Init
<1>2. BodyOf[f] \subseteq DOMAIN ast /\ Body(f) = BodyOf[f]
  BY BodyFacts, SubtreeFacts DEF BodyOf, Init
<1> QED
  BY <1>1, <1>2

LEMMA MarkedProtected == UpdatesMarked => LoopsProtected
BY DEF UpdatesMarked, LoopsProtected

(* In every accepted tree the updates, in the body of a threaded loop, of  *)
(* a variable of its surroundings are marked as shared, wherever the loop  *)
(* stands and however often its function is analyzed again.  What is       *)
(* marked and stands as a statement is written inside its lock; nothing is *)
(* said of the updater of a for loop, which is written without one.        *)
THEOREM LoopsProtectedHolds == Spec => []LoopsProtected
<1>1. FrameInv /\ UpdatesMarked /\ [Next]_vars => UpdatesMarked'
  BY EveryStep, MarkedStep
<1> QED
  BY <1>1, InitUpdates, MarkedProtected, InitFrameInv, NextFrames, PTL DEF Spec

-----------------------------------------------------------------------------
(***************************************************************************)
(* A locked update has its mutex: in an accepted tree the declaration that *)
(* an update marked shared was resolved to is marked too.                  *)
(*                                                                         *)
(* A function that is analyzed again resets the marks of its declarations. *)
(* What is then out of date is written again before the walk ends: from    *)
(* every update, the walk can be traced back to what follows the           *)
(* declaration in its scope, and all of that is still to be done.          *)
(***************************************************************************)

(* What follows a node in the scope it stands in. *)

Opens(n) == ast[n].kind \in {"program", "block", "func"}

(* y is put after a node around n that is in the same scope, or after n. *)
Follows(n, y, p, i, j) ==
  /\ i < j /\ y = ast[p].kids[j] /\ n \in Under(ast[p].kids[i])
  /\ \A s \in Under(ast[p].kids[i]) : Opens(s) /\ n \in Under(s) => s = n

After ==
  [n \in DOMAIN ast |->
     {y \in DOMAIN ast :
        \E p \in DOMAIN ast : \E i, j \in DOMAIN ast[p].kids : Follows(n, y, p, i, j)}]

Rest(n) == IF Opens(n) THEN {} ELSE After[n]

LEMMA KidFacts ==
  ASSUME ast \in Programs, NEW p \in DOMAIN ast, NEW i \in DOMAIN ast[p].kids
  PROVE  /\ ast[p].kids[i] \in DOMAIN ast /\ IsKid(ast[p].kids[i], p)
         /\ ast[p].kids[i] > p
         /\ \A j \in DOMAIN ast[p].kids : ast[p].kids[i] = ast[p].kids[j] => i = j
<1>1. WellFormed(ast)
  BY ProgramsAssumption
<1>2. ast[p].kids[i] \in DOMAIN ast /\ ast[p].kids[i] > p
  BY <1>1 DEF WellFormed
<1>3. ASSUME NEW j \in DOMAIN ast[p].kids, ast[p].kids[i] = ast[p].kids[j], i # j
      PROVE  FALSE
  <2>1. /\ i < j => ast[p].kids[i] < ast[p].kids[j]
        /\ j < i => ast[p].kids[j] < ast[p].kids[i]
    BY <1>1 DEF WellFormed
  <2>2. i \in Nat /\ j \in Nat /\ ast[p].kids[i] \in Nat
    <3>1. ast[p] \in Node
      BY <1>1 DEF WellFormed
    <3>2. ast[p].kids \in Seq(Nat)
      BY <3>1 DEF Node
    <3> QED
      BY <3>2
  <2> QED
    BY <1>3, <2>1, <2>2
<1> QED
  BY <1>2, <1>3 DEF IsKid

LEMMA AfterKid ==
  ASSUME ast \in Programs, NEW p \in DOMAIN ast, NEW i \in DOMAIN ast[p].kids
  PROVE  After[ast[p].kids[i]] =
           {y \in DOMAIN ast : \E j \in DOMAIN ast[p].kids : i < j /\ y = ast[p].kids[j]}
             \cup Rest(p)
<1> DEFINE k == ast[p].kids[i]
<1>1. k \in DOMAIN ast /\ IsKid(k, p) /\ p < k /\ k \in Under(k)
  BY KidFacts, UnderFacts
<1>2. DOMAIN ast \subseteq Nat
  <2>1. WellFormed(ast)
    BY ProgramsAssumption
  <2> QED
    BY <2>1 DEF WellFormed
<1>3. ASSUME NEW s \in DOMAIN ast, p \in Under(s) PROVE k \in Under(s)
  BY <1>1, <1>3, UnderFacts
<1>4. ASSUME NEW s \in DOMAIN ast, k \in Under(s), s # k PROVE p \in Under(s)
  BY <1>1, <1>4, ParentUnder
<1>5. p \notin Under(k) /\ k \in Under(p)
  <2>1. p \in Under(k) => p >= k
    BY <1>1, UnderFacts
  <2> QED
    BY <1>1, <1>2, <1>3, <2>1, UnderFacts
<1>6. ASSUME NEW y \in After[k], ~(\E j \in DOMAIN ast[p].kids : i < j /\ y = ast[p].kids[j])
      PROVE  ~Opens(p) /\ y \in After[p]
  <2>9. PICK q \in DOMAIN ast : \E a, b \in DOMAIN ast[q].kids : Follows(k, y, q, a, b)
    BY <1>1, <1>6 DEF After
  <2>1. PICK a \in DOMAIN ast[q].kids, b \in DOMAIN ast[q].kids : Follows(k, y, q, a, b)
    BY <2>9
  <2> DEFINE top == ast[q].kids[a]
  <2>2. top \in DOMAIN ast /\ IsKid(top, q) /\ k \in Under(top) /\ y = ast[q].kids[b] /\ a < b
    BY <2>1, KidFacts DEF Follows
  <2>3. top # k
    <3> SUFFICES ASSUME top = k PROVE FALSE
      OBVIOUS
    <3>1. q = p
      BY <1>1, <2>2, OneParent
    <3>2. a = i
      BY <1>1, <3>1, KidFacts
    <3> QED
      BY <1>6, <2>2, <3>1, <3>2
  <2>4. p \in Under(top) /\ Under(top) \subseteq DOMAIN ast
    BY <1>4, <2>2, <2>3, UnderFacts
  <2>5. ~Opens(p)
    BY <1>1, <1>5, <2>1, <2>4 DEF Follows
  <2>6. ASSUME NEW s \in Under(top), Opens(s), p \in Under(s) PROVE FALSE
    <3>1. k \in Under(s)
      BY <1>3, <2>4, <2>6
    <3>2. s = k
      BY <2>1, <2>6, <3>1 DEF Follows
    <3> QED
      BY <1>5, <2>6, <3>2
  <2>7. Follows(p, y, q, a, b)
    BY <2>2, <2>4, <2>6 DEF Follows
  <2> HIDE DEF top
  <2> QED
    BY <1>1, <1>6, <2>5, <2>7 DEF After
<1>7. ASSUME NEW j \in DOMAIN ast[p].kids, i < j PROVE ast[p].kids[j] \in After[k]
  <2>1. \A s \in Under(k) : k \in Under(s) => s = k
    <3> SUFFICES ASSUME NEW s \in Under(k), k \in Under(s) PROVE s = k
      OBVIOUS
    <3>1. s \in DOMAIN ast /\ s >= k
      BY <1>1, UnderFacts
    <3>2. k >= s
      BY <3>1, UnderFacts
    <3> QED
      BY <1>1, <1>2, <3>1, <3>2
  <2>2. Follows(k, ast[p].kids[j], p, i, j)
    BY <1>1, <1>7, <2>1 DEF Follows
  <2>3. ast[p].kids[j] \in DOMAIN ast
    BY KidFacts
  <2> HIDE DEF k
  <2> QED
    BY <1>1, <2>2, <2>3 DEF After
<1>8. ASSUME ~Opens(p), NEW y \in After[p] PROVE y \in After[k]
  <2>9. PICK q \in DOMAIN ast : \E a, b \in DOMAIN ast[q].kids : Follows(p, y, q, a, b)
    BY <1>8 DEF After
  <2>1. PICK a \in DOMAIN ast[q].kids, b \in DOMAIN ast[q].kids : Follows(p, y, q, a, b)
    BY <2>9
  <2> DEFINE top == ast[q].kids[a]
  <2>2. top \in DOMAIN ast /\ p \in Under(top) /\ k \in Under(top) /\ Under(top) \subseteq DOMAIN ast
    BY <1>3, <2>1, KidFacts, UnderFacts DEF Follows
  <2>3. \A s \in Under(top) : Opens(s) /\ k \in Under(s) => s = k
    <3> SUFFICES ASSUME NEW s \in Under(top), Opens(s), k \in Under(s), s # k PROVE FALSE
      OBVIOUS
    <3>1. p \in Under(s)
      BY <1>4, <2>2
    <3>2. s = p
      BY <2>1, <3>1 DEF Follows
    <3> QED
      BY <1>8, <3>2
  <2>4. Follows(k, y, q, a, b)
    BY <2>1, <2>2, <2>3 DEF Follows
  <2>5. y \in DOMAIN ast
    BY <1>8 DEF After
  <2> HIDE DEF k, top
  <2> QED
    BY <1>1, <2>4, <2>5 DEF After
<1>9. After[k] \subseteq DOMAIN ast
  BY <1>1 DEF After
<1> HIDE DEF k
<1> QED
  BY <1>6, <1>7, <1>8, <1>9 DEF Rest, k

LEMMA AfterProgram == ast \in Programs => 1 \in DOMAIN ast /\ After[1] = {}
<1> SUFFICES ASSUME ast \in Programs PROVE 1 \in DOMAIN ast /\ After[1] = {}
  OBVIOUS
<1>1. 1 \in DOMAIN ast /\ DOMAIN ast \subseteq Nat \ {0}
  <2>1. WellFormed(ast)
    BY ProgramsAssumption
  <2> QED
    BY <2>1 DEF WellFormed
<1>2. ASSUME NEW p \in DOMAIN ast, NEW i \in DOMAIN ast[p].kids PROVE 1 \notin Under(ast[p].kids[i])
  <2>1. ast[p].kids[i] \in DOMAIN ast /\ ast[p].kids[i] > p
    BY KidFacts
  <2>2. \A m \in Under(ast[p].kids[i]) : m >= ast[p].kids[i]
    BY <2>1, UnderFacts
  <2> QED
    BY <1>1, <2>1, <2>2
<1> QED
  BY <1>1, <1>2 DEF After, Follows

-----------------------------------------------------------------------------
(* Where the walk can get to from a node, with the functions known so far. *)

Entered(m) == {k \in DOMAIN ast : \E f \in DOMAIN ast : Callee(f, ast[m].name) /\ IsKid(k, f)}

Succs ==
  [m \in DOMAIN ast |->
     {k \in DOMAIN ast :
        \/ IsKid(k, m)
        \/ ast[m].kind = "call" /\ ast[m].par # "regular" /\ k \in Entered(m)}]

Shut(C) == \A m \in C : Succs[m] \subseteq C

Leads ==
  [n \in DOMAIN ast |->
     {x \in DOMAIN ast : \A C \in SUBSET DOMAIN ast : n \in C /\ Shut(C) => x \in C}]

(* Where it can get to from what follows a declaration. *)
Region == [d \in DOMAIN ast |-> UNION {Leads[t] : t \in After[d]}]

LEMMA LeadsFacts ==
  ASSUME NEW n \in DOMAIN ast
  PROVE  /\ n \in Leads[n] /\ Leads[n] \subseteq DOMAIN ast
         /\ \A m \in Leads[n] : Succs[m] \subseteq Leads[n] /\ Leads[m] \subseteq Leads[n]
         /\ \A x \in Leads[n] : x = n \/ \E k \in Succs[n] : x \in Leads[k]
<1>1. \A m \in DOMAIN ast : Succs[m] \subseteq DOMAIN ast
  BY DEF Succs
<1>2. \A m \in DOMAIN ast : m \in Leads[m] /\ Leads[m] \subseteq DOMAIN ast
  BY DEF Leads
<1>3. \A m \in DOMAIN ast : \A x \in Leads[m] : Succs[x] \subseteq Leads[m]
  BY <1>1 DEF Leads, Shut
<1>4. \A m \in DOMAIN ast : Shut(Leads[m])
  BY <1>3 DEF Shut
<1>5. \A m \in Leads[n] : Leads[m] \subseteq Leads[n]
  <2> SUFFICES ASSUME NEW m \in Leads[n], NEW x \in Leads[m] PROVE x \in Leads[n]
    OBVIOUS
  <2>1. m \in DOMAIN ast /\ Leads[n] \in SUBSET DOMAIN ast /\ Shut(Leads[n])
    BY <1>2, <1>4
  <2> QED
    BY <2>1 DEF Leads
<1> DEFINE U == {n} \cup UNION {Leads[k] : k \in Succs[n]}
<1>6. U \in SUBSET DOMAIN ast /\ n \in U
  BY <1>1, <1>2
<1>7. Shut(U)
  <2> SUFFICES ASSUME NEW m \in U, NEW k \in Succs[m] PROVE k \in U
    BY DEF Shut
  <2>1. CASE m = n
    BY <1>1, <1>2, <2>1
  <2>2. ASSUME NEW j \in Succs[n], m \in Leads[j] PROVE k \in Leads[j]
    BY <1>1, <1>3, <2>2
  <2> QED
    BY <2>1, <2>2
<1>8. \A x \in Leads[n] : x \in U
  <2> HIDE DEF U
  <2> QED
    BY <1>6, <1>7 DEF Leads
<1> QED
  BY <1>2, <1>3, <1>5, <1>8

LEMMA RegionFacts ==
  ASSUME ast \in Programs, NEW d \in DOMAIN ast
  PROVE  /\ Region[d] \subseteq DOMAIN ast /\ After[d] \subseteq Region[d]
         /\ After[d] \subseteq DOMAIN ast
         /\ \A m \in Region[d] : Leads[m] \subseteq Region[d] /\ Succs[m] \subseteq Region[d]
         /\ \A x \in Region[d] : \E t \in After[d] : x \in Leads[t]
<1>1. After[d] \subseteq DOMAIN ast
  BY DEF After
<1>2. \A x : x \in Region[d] <=> \E t \in After[d] : x \in Leads[t]
  BY DEF Region
<1> QED
  BY <1>1, <1>2, LeadsFacts

(* A step makes no node lead to less. *)
LEMMA SuccsGrow ==
  ASSUME WalkInv, StepKinds
  PROVE  /\ ast' = ast /\ After' = After
         /\ \A m \in DOMAIN ast : Entered(m) \subseteq Entered(m)' /\ Succs[m] \subseteq Succs'[m]
<1>1. ast' = ast
  BY ReadsKept
<1>2. After' = After
  BY <1>1 DEF After, Follows, Under, Opens
<1>3. functions' = functions \/ \E n \in DOMAIN ast : functions' = Append(functions, n)
  <2>1. CASE Function
    <3>1. work[1].node \in DOMAIN ast
      BY <2>1, EnterFacts DEF EnterStep
    <3> QED
      BY <2>1, <3>1 DEF Function
  <2>2. CASE Program \/ Block
    BY <2>2 DEF Program, Block
  <2>3. CASE ~EnterStep
    BY <2>3, QuietCalls, StopFacts, ThreadBlockFacts, ThreadedBodyFacts, LaunchFacts,
       ReturnFacts DEF StepKinds, WalkInv
  <2> QED
    BY <2>1, <2>2, <2>3 DEF EnterStep
<1>4. /\ DOMAIN functions \subseteq DOMAIN functions'
      /\ \A i \in DOMAIN functions : functions'[i] = functions[i]
      /\ \A i \in DOMAIN functions : \A j \in DOMAIN functions' : j < i => j \in DOMAIN functions
  <2>1. functions \in Seq(DOMAIN ast)
    BY DEF WalkInv, IInv, FunctionsOK
  <2> QED
    BY <1>3, <2>1
<1>5. ASSUME NEW f, NEW x, Callee(f, x) PROVE Callee(f, x)'
  BY <1>1, <1>4, <1>5 DEF Callee
<1>6. \A m \in DOMAIN ast : Entered(m) \subseteq Entered(m)'
  BY <1>1, <1>5 DEF Entered, IsKid
<1> QED
  BY <1>1, <1>2, <1>6 DEF Succs, IsKid

LEMMA RegionGrows ==
  ASSUME WalkInv, StepKinds, NEW n \in DOMAIN ast
  PROVE  Leads[n] \subseteq Leads'[n] /\ Region[n] \subseteq Region'[n]
<1>1. ast' = ast /\ After' = After /\ \A m \in DOMAIN ast : Succs[m] \subseteq Succs'[m]
  BY SuccsGrow
<1>2. ASSUME NEW C \in SUBSET DOMAIN ast, Shut(C)' PROVE Shut(C)
  BY <1>1, <1>2 DEF Shut
<1>3. \A m \in DOMAIN ast : Leads[m] \subseteq Leads'[m]
  BY <1>1, <1>2 DEF Leads
<1>4. After[n] \subseteq DOMAIN ast
  BY DEF After
<1> QED
  BY <1>1, <1>3, <1>4 DEF Region

-----------------------------------------------------------------------------
(* What the stack still leads to. *)

Targets(w) == Direct(w) \cup (IF w.op = "launch" THEN Entered(w.node) ELSE {})

Aims(w, n) == \E t \in Targets(w) : n \in Leads[t]

Leading(items, n) == \E i \in DOMAIN items : Aims(items[i], n)

Behind(n) == \E i \in DOMAIN work : i # 1 /\ Aims(work[i], n)

LEMMA TargetsInTree ==
  ASSUME WalkInv, NEW i \in DOMAIN work
  PROVE  Targets(work[i]) \subseteq DOMAIN ast /\ work[i] \in Item
<1>1. work[i] \in Item /\ ast \in Programs
  BY DEF WalkInv, IInv, WorkOK
<1>2. work[i].op = "loop" => ast[work[i].node].kind = "for"
  <2>1. CASE First
    <3>1. i = 1 /\ work[i].op = "stmt"
      BY <2>1, DoFields DEF First
    <3> QED
      BY <3>1
  <2>2. CASE ~First
    BY <2>2 DEF WalkInv, ShapeOK, Fits, Place
  <2> QED
    BY <2>1, <2>2
<1>3. work[i].op = "loop" => ast[work[i].node].kids[4] \in DOMAIN ast
  <2> SUFFICES ASSUME work[i].op = "loop" PROVE ast[work[i].node].kids[4] \in DOMAIN ast
    OBVIOUS
  <2>1. work[i].node \in DOMAIN ast
    BY <1>1 DEF Item
  <2>2. ast[work[i].node].kids \in Seq(DOMAIN ast) /\ Len(ast[work[i].node].kids) = 4
    BY <1>1, <1>2, <2>1, NodeFacts
  <2> QED
    BY <2>2
<1>4. Direct(work[i]) \subseteq DOMAIN ast
  BY <1>1, <1>3 DEF Direct, Item
<1> QED
  BY <1>1, <1>4 DEF Targets, Entered

LEMMA AimsGrow ==
  ASSUME WalkInv, StepKinds, NEW w, Targets(w) \subseteq DOMAIN ast, w.node \in DOMAIN ast, NEW n, Aims(w, n)
  PROVE  Aims(w, n)'
<1>1. ast' = ast /\ Entered(w.node) \subseteq Entered(w.node)'
  BY SuccsGrow
<1>2. Targets(w) \subseteq Targets(w)'
  BY <1>1 DEF Targets, Direct
<1> QED
  BY <1>2, RegionGrows DEF Aims

LEMMA StepContinues ==
  ASSUME WalkInv, StepKinds
  PROVE  \/ work' = work
         \/ work # <<>> /\ \E items \in Seq(Item) : Continue(items)
<1>1. ast \in Programs /\ IInv
  BY DEF WalkInv, IInv
<1>2. CASE StopStep \/ UNCHANGED vars
  BY <1>2, StopFacts
<1>3. CASE QuietStep
  <2>1. Calls(work[1]) \in Seq(Item) /\ work # <<>> /\ Continue(Calls(work[1]))
    BY <1>1, <1>3, QuietCalls, PlainCalls DEF Plain
  <2> QED
    BY <2>1
<1>4. CASE EnterStep
  <2>1. /\ work # <<>> /\ work[1].node \in DOMAIN ast
        /\ Continue(Each("stmt", ast[work[1].node].kids) \o <<Do("leave", work[1].node)>>)
    BY <1>4, EnterFacts
  <2> QED
    BY <1>1, <2>1, BodyItems
<1>5. CASE ThreadBlock
  <2> DEFINE s == Each("stmt", ast[work[1].node].kids)
             t == <<Restore("endContext", work[1].node)>>
  <2>1. /\ work # <<>> /\ work[1].node \in DOMAIN ast /\ Plain(s, work[1].node) /\ Continue(s \o t)
    BY <1>5, ThreadBlockFacts
  <2>2. s \in Seq(Item) /\ t \in Seq(Item)
    BY <1>1, <2>1, RestoreFacts DEF Plain
  <2> HIDE DEF s, t
  <2> QED
    BY <2>1, <2>2, AppendedItems
<1>6. CASE ThreadedBody
  <2> DEFINE v == Do("stmt", ast[work[1].node].kids[4])
             w == Restore("endLoop", work[1].node)
  <2>1. /\ work # <<>> /\ work[1].node \in DOMAIN ast /\ ast[work[1].node].kids[4] \in DOMAIN ast
        /\ Continue(<<v, w>>)
    BY <1>6, ThreadedBodyFacts DEF ThreadedLoops
  <2>2. v \in Item /\ w \in Item
    BY <1>1, <2>1, DoType, RestoreFacts DEF Ops
  <2>3. <<v, w>> \in Seq(Item)
    BY <2>2
  <2> HIDE DEF v, w
  <2> QED
    BY <2>1, <2>3
<1>7. CASE Launch
  <2>1. work # <<>> /\ work[1].node \in DOMAIN ast
    BY <1>7, LaunchFacts
  <2>2. PICK h \in DOMAIN ast :
          /\ Plain(Each("stmt", ast[h].kids), h)
          /\ Continue(Each("stmt", ast[h].kids)
                        \o <<Do("leave", h), Restore("endContext", work[1].node)>>)
    BY <1>7, LaunchFacts
  <2> DEFINE s == Each("stmt", ast[h].kids)
             t == <<Do("leave", h), Restore("endContext", work[1].node)>>
  <2>3. s \in Seq(Item) /\ t \in Seq(Item)
    BY <1>1, <2>1, <2>2, LeaveFits, RestoreFacts DEF Plain
  <2> HIDE DEF s, t
  <2>4. Continue(s \o t)
    BY <2>2 DEF s, t
  <2> QED
    BY <2>1, <2>3, <2>4, AppendedItems
<1>8. CASE Leave \/ EndLoop \/ EndContext
  BY <1>8, ReturnFacts, NoItems
<1> QED
  BY <1>2, <1>3, <1>4, <1>5, <1>6, <1>7, <1>8 DEF StepKinds

(* What stands behind the head of the stack stays there. *)
LEMMA BehindKept ==
  ASSUME WalkInv, StepKinds, NEW n, Behind(n)
  PROVE  Leading(work, n)'
<1>1. PICK i \in DOMAIN work : i # 1 /\ Aims(work[i], n)
  BY DEF Behind
<1>2. PICK w : w = work[i]
  OBVIOUS
<1>3. work \in Seq(Item) /\ w \in Item /\ Targets(w) \subseteq DOMAIN ast
  BY <1>2, TargetsInTree DEF WalkInv, IInv, WorkOK
<1>4. Aims(w, n)'
  BY <1>1, <1>2, <1>3, AimsGrow DEF Item
<1>5. \E j \in DOMAIN work' : work'[j] = w
  <2>1. CASE work' = work
    BY <1>2, <2>1
  <2>2. CASE work # <<>> /\ \E items \in Seq(Item) : Continue(items)
    BY <1>1, <1>2, <1>3, <2>2, ContinueAt
  <2> QED
    BY <2>1, <2>2, StepContinues
<1> QED
  BY <1>4, <1>5 DEF Leading

(* And what a new item analyzes is led to. *)
LEMMA DirectLeads ==
  ASSUME WalkInv, StepKinds, work # <<>>, NEW items \in Seq(Item), Continue(items),
         NEW k \in DOMAIN ast, HasDirect(items, k), NEW n \in Leads[k]
  PROVE  Leading(work, n)'
<1>1. PICK i \in DOMAIN items : k \in Direct(items[i])
  BY DEF HasDirect
<1>2. PICK w : w = items[i]
  OBVIOUS
<1>3. Aims(w, n)'
  <2>1. ast' = ast /\ n \in Leads'[k]
    BY SuccsGrow, RegionGrows
  <2>2. k \in Direct(w)'
    BY <1>1, <1>2, <2>1 DEF Direct
  <2> QED
    BY <2>1, <2>2 DEF Aims, Targets
<1>4. i \in DOMAIN work' /\ work'[i] = w
  BY <1>2, ContinueAt DEF WalkInv, IInv, WorkOK
<1> QED
  BY <1>3, <1>4 DEF Leading

LEMMA LaunchedItem ==
  ASSUME ast \in Programs, NEW w, QuietItem(w), w.op \in {"stmt", "expr"},
         ast[w.node].kind = "call", ast[w.node].par # "regular"
  PROVE  \E i \in DOMAIN Calls(w) : Calls(w)[i] = Do("launch", w.node)
<1> DEFINE n == w.node
           s == Each("expr", ast[n].kids)
           t == <<Do("discard", n)>>
           u == <<Do("launch", n)>>
           v == <<Do("yield", n)>>
<1>1. n \in DOMAIN ast
  BY DEF QuietItem
<1>2. t \in Seq(Item) /\ u \in Seq(Item) /\ v \in Seq(Item) /\ u[1] = Do("launch", n) /\ 1 \in DOMAIN u
  BY <1>1, DoType DEF Ops
<1>3. s \in Seq(Item)
  BY <1>1, NodeFacts, EachType DEF Ops
<1>4. Calls(w) = IF w.op = "stmt" THEN (s \o t) \o u ELSE ((s \o t) \o u) \o v
  BY DEF Calls, CallItems
<1> HIDE DEF n, s, t, u, v
<1>5. s \o t \in Seq(Item)
  BY <1>2, <1>3, AppendedItems
<1>6. \E i \in DOMAIN ((s \o t) \o u) : ((s \o t) \o u)[i] = Do("launch", n)
  <2>1. /\ 1 + Len(s \o t) \in DOMAIN ((s \o t) \o u)
        /\ ((s \o t) \o u)[1 + Len(s \o t)] = u[1]
    BY <1>2, <1>5, AppendedItems
  <2> QED
    BY <1>2, <2>1
<1>7. (s \o t) \o u \in Seq(Item)
  BY <1>2, <1>5, AppendedItems
<1>8. \E i \in DOMAIN (((s \o t) \o u) \o v) : (((s \o t) \o u) \o v)[i] = Do("launch", n)
  BY <1>2, <1>6, <1>7, AppendedItems
<1> QED
  BY <1>4, <1>6, <1>8 DEF n

LEMMA OneCallee ==
  ASSUME IInv, NEW x, NEW f, NEW h, Callee(f, x), Callee(h, x)
  PROVE  f = h
<1>1. PICK i \in DOMAIN functions :
        functions[i] = f /\ ast[f].name = x
        /\ \A j \in DOMAIN functions : j < i => ast[functions[j]].name # x
  BY DEF Callee
<1>2. PICK k \in DOMAIN functions :
        functions[k] = h /\ ast[h].name = x
        /\ \A j \in DOMAIN functions : j < k => ast[functions[j]].name # x
  BY DEF Callee
<1>3. DOMAIN functions \subseteq Nat
  BY DEF IInv, FunctionsOK
<1>4. i = k
  BY <1>1, <1>2, <1>3
<1> QED
  BY <1>1, <1>2, <1>4

(* What the head of the stack leads to is its own node, or the items that  *)
(* replace it lead there.                                                  *)
LEMMA HeadLeads ==
  ASSUME WalkInv, StepKinds, work # <<>>, NEW n \in DOMAIN ast, Aims(work[1], n),
         ast[n].kind \in {"decl", "update"}
  PROVE  Leading(work, n)' \/ (n = work[1].node /\ work[1].op = "stmt")
<1> DEFINE m == work[1].node
<1>1. ast \in Programs /\ IInv /\ work \in Seq(Item) /\ ast' = ast
  BY SuccsGrow DEF WalkInv, IInv, WorkOK
<1>2. ASSUME work' = work PROVE Leading(work, n)'
  <2>1. PICK w : w = work[1]
    OBVIOUS
  <2>2. Aims(w, n)'
    BY <1>1, <2>1, TargetsInTree, AimsGrow DEF Item
  <2> QED
    BY <1>1, <1>2, <2>1, <2>2 DEF Leading
<1>3. ASSUME work[1].op \in {"stmt", "expr"}, n # m, m \in DOMAIN ast
      PROVE  \/ \E i \in DOMAIN ast[m].kids : n \in Leads[ast[m].kids[i]]
             \/ /\ ast[m].kind = "call" /\ ast[m].par # "regular"
                /\ \E k \in Entered(m) : n \in Leads[k]
  <2>1. n \in Leads[m]
    BY <1>3 DEF Aims, Targets, Direct
  <2>2. PICK k \in Succs[m] : n \in Leads[k]
    BY <1>3, <2>1, LeadsFacts
  <2> QED
    BY <1>3, <2>2 DEF Succs, IsKid
<1>4. ASSUME work[1].op = "stmt", m \in DOMAIN ast, ast[m].kind \in {"program", "block", "func", "thread"},
             NEW t \in Seq(Item), Continue(Each("stmt", ast[m].kids) \o t)
      PROVE  Leading(work, n)'
  <2> DEFINE s == Each("stmt", ast[m].kids)
  <2>1. ast[m].kids \in Seq(DOMAIN ast) /\ s \in Seq(Item)
    BY <1>1, <1>4, NodeFacts, EachType DEF Ops
  <2>2. PICK i \in DOMAIN ast[m].kids : n \in Leads[ast[m].kids[i]]
    <3>1. n \in Leads[m]
      BY <1>4 DEF Aims, Targets, Direct
    <3> QED
      BY <1>3, <1>4
  <2>3. HasDirect(s, ast[m].kids[i]) /\ ast[m].kids[i] \in DOMAIN ast
    BY <2>1, DirectEach
  <2> HIDE DEF s
  <2>4. s \o t \in Seq(Item) /\ HasDirect(s \o t, ast[m].kids[i])
    BY <2>1, <2>3, DirectJoin, AppendedItems
  <2> QED
    BY <1>4, <2>2, <2>3, <2>4, DirectLeads DEF s
<1>5. CASE StopStep \/ UNCHANGED vars
  BY <1>2, <1>5, StopFacts
<1>6. CASE EnterStep
  <2>1. /\ m \in DOMAIN ast /\ work[1].op = "stmt" /\ ast[m].kind \in {"program", "block", "func"}
        /\ Continue(Each("stmt", ast[m].kids) \o <<Do("leave", m)>>)
    BY <1>6, EnterFacts
  <2> QED
    BY <1>1, <1>4, <2>1, LeaveFits
<1>7. CASE ThreadBlock
  <2>1. /\ m \in DOMAIN ast /\ work[1].op = "stmt" /\ ast[m].kind = "thread"
        /\ Continue(Each("stmt", ast[m].kids) \o <<Restore("endContext", m)>>)
    BY <1>7, ThreadBlockFacts
  <2> QED
    BY <1>1, <1>4, <2>1, RestoreFacts
<1>8. CASE ThreadedBody
  <2> DEFINE k == ast[m].kids[4]
             v == Do("stmt", k)
             w == Restore("endLoop", m)
  <2>1. /\ m \in DOMAIN ast /\ k \in DOMAIN ast /\ work[1].op = "loop" /\ Continue(<<v, w>>)
    BY <1>8, ThreadedBodyFacts DEF ThreadedLoops
  <2>2. v \in Item /\ w \in Item /\ v.op = "stmt" /\ v.node = k
    BY <1>1, <2>1, DoType, DoFields, RestoreFacts DEF Ops
  <2>3. n \in Leads[k]
    BY <2>1 DEF Aims, Targets, Direct
  <2> HIDE DEF k, v, w
  <2>4. <<v, w>> \in Seq(Item) /\ HasDirect(<<v, w>>, k)
    BY <2>2 DEF HasDirect, Direct
  <2> QED
    BY <2>1, <2>3, <2>4, DirectLeads
<1>9. CASE Launch
  <2>1. m \in DOMAIN ast /\ work[1].op = "launch"
    BY <1>9, LaunchFacts
  <2>2. PICK h \in DOMAIN ast :
          /\ Callee(h, ast[m].name)
          /\ Continue(Each("stmt", ast[h].kids) \o <<Do("leave", h), Restore("endContext", m)>>)
    BY <1>9, LaunchFacts
  <2>3. PICK t \in Entered(m) : n \in Leads[t]
    BY <2>1 DEF Aims, Targets, Direct
  <2>4. PICK i \in DOMAIN ast[h].kids : t = ast[h].kids[i]
    <3>1. PICK f \in DOMAIN ast : Callee(f, ast[m].name) /\ IsKid(t, f)
      BY <2>3 DEF Entered
    <3>2. f = h
      BY <1>1, <2>2, <3>1, OneCallee
    <3> QED
      BY <3>1, <3>2 DEF IsKid
  <2> DEFINE s == Each("stmt", ast[h].kids)
             u == <<Do("leave", h), Restore("endContext", m)>>
  <2>5. ast[h].kids \in Seq(DOMAIN ast) /\ s \in Seq(Item) /\ u \in Seq(Item)
    BY <1>1, <2>1, NodeFacts, EachType, LeaveFits, RestoreFacts DEF Ops
  <2>6. HasDirect(s, t) /\ t \in DOMAIN ast /\ Continue(s \o u)
    BY <2>2, <2>4, <2>5, DirectEach
  <2> HIDE DEF s, u
  <2>7. s \o u \in Seq(Item) /\ HasDirect(s \o u, t)
    BY <2>5, <2>6, DirectJoin, AppendedItems
  <2> QED
    BY <2>3, <2>6, <2>7, DirectLeads
<1>10. CASE Leave \/ EndLoop \/ EndContext
  <2>1. work[1].op \in {"leave", "endLoop", "endContext"}
    BY <1>10, ReturnFacts
  <2> QED
    BY <2>1 DEF Aims, Targets, Direct
<1>11. CASE QuietStep
  <2>1. /\ QuietItem(work[1]) /\ Continue(Calls(work[1])) /\ m \in DOMAIN ast
        /\ Calls(work[1]) \in Seq(Item) /\ work[1].op # "loop"
    BY <1>1, <1>11, QuietCalls, PlainCalls DEF QuietItem, Plain
  <2>2. CASE work[1].op \notin {"stmt", "expr", "launch"}
    BY <2>1, <2>2 DEF Aims, Targets, Direct
  <2>3. CASE work[1].op = "launch"
    <3>1. Unknown(ast[m].name)
      BY <1>11, <2>3 DEF QuietStep, DeclarationValue, Declare, Update, Store, IfStatement,
         ForLoop, Test, Operands, Discard, LaunchUnknown, Literal, Identifier, Operator,
         Operate, Negate, CallValue, Yield, At, nd
    <3>2. Entered(m) = {}
      BY <3>1 DEF Unknown, Entered, Callee
    <3> QED
      BY <2>3, <3>2 DEF Aims, Targets, Direct
  <2>4. ASSUME work[1].op \in {"stmt", "expr"}, n # m PROVE Leading(work, n)'
    <3>1. ASSUME NEW i \in DOMAIN ast[m].kids, n \in Leads[ast[m].kids[i]]
          PROVE  Leading(work, n)'
      <4>1. ast[m].kids[i] \in DOMAIN ast
        BY <1>1, <2>1, KidFacts
      <4> QED
        BY <1>1, <2>1, <2>4, <3>1, <4>1, KidCalls, DirectLeads
    <3>2. ASSUME ast[m].kind = "call", ast[m].par # "regular",
                 NEW k \in Entered(m), n \in Leads[k]
          PROVE  Leading(work, n)'
      <4>1. PICK i \in DOMAIN Calls(work[1]) : Calls(work[1])[i] = Do("launch", m)
        BY <1>1, <2>1, <2>4, <3>2, LaunchedItem
      <4>2. PICK w : w = Do("launch", m)
        OBVIOUS
      <4>3. i \in DOMAIN work' /\ work'[i] = w
        BY <1>1, <2>1, <4>1, <4>2, ContinueAt
      <4>4. w.op = "launch" /\ w.node = m
        BY <4>2, DoFields
      <4>5. Targets(w) \subseteq DOMAIN ast /\ Aims(w, n)
        BY <3>2, <4>4 DEF Targets, Direct, Aims, Entered
      <4> QED
        BY <2>1, <4>3, <4>4, <4>5, AimsGrow DEF Leading
    <3> QED
      BY <1>3, <2>1, <2>4, <3>1, <3>2
  <2>5. work[1].op = "expr" => n # m
    BY <2>1 DEF QuietItem, ExprKinds
  <2> QED
    BY <2>1, <2>2, <2>3, <2>4, <2>5
<1> QED
  BY <1>5, <1>6, <1>7, <1>8, <1>9, <1>10, <1>11 DEF StepKinds

(* So what the stack leads to it goes on leading to until the step that    *)
(* analyzes it.                                                            *)
LEMMA LeadingStep ==
  ASSUME WalkInv, StepKinds, NEW n \in DOMAIN ast, Leading(work, n),
         ast[n].kind \in {"decl", "update"}
  PROVE  Leading(work, n)' \/ (work # <<>> /\ n = work[1].node /\ work[1].op = "stmt")
<1>1. PICK i \in DOMAIN work : Aims(work[i], n)
  BY DEF Leading
<1>2. work # <<>>
  BY <1>1
<1>3. CASE i = 1
  BY <1>1, <1>2, <1>3, HeadLeads
<1>4. CASE i # 1
  BY <1>1, <1>4, BehindKept DEF Behind
<1> QED
  BY <1>3, <1>4

-----------------------------------------------------------------------------
(* What is ahead in each scope.  Between two items of the stack, depth is  *)
(* the number of scopes, and until the innermost of them is left, rest is  *)
(* still to be analyzed and open are the declarations and thread calls     *)
(* whose operands are being analyzed.                                      *)

Outlook == [depth : Nat, rest : SUBSET DOMAIN ast, open : SUBSET DOMAIN ast]

Over == [depth |-> 0, rest |-> {}, open |-> {}]

Begun(w) == IF w.op \in {"declare", "launch"} THEN {w.node} ELSE {}

Ahead(w, a, b) ==
  /\ w.op = "leave" => a.depth = b.depth + 1 /\ a.rest = {} /\ a.open = {}
  /\ w.op # "leave" => /\ a.depth = b.depth /\ a.rest = Direct(w) \cup b.rest
                       /\ a.open = Begun(w) \cup b.open
  /\ w.op \in {"stmt", "declare", "loop"} => b.rest = After[w.node] /\ b.open = {}
  /\ w.op = "launch" => ast[w.node].par # "regular"

AheadLink == {p \in Item \X Outlook \X Outlook : Ahead(p[1], p[2], p[3])}

(* What is ahead while a variable is in scope can be reached from what     *)
(* follows its declaration.                                                *)
Met(w) == Direct(w) \cup Begun(w)

SeenLink ==
  {p \in AheadLink :
     \A l \in 1 .. p[2].depth : \A x \in Names :
       scopes[l][x].decl # 0 => Met(p[1]) \subseteq Region[scopes[l][x].decl]}

AheadOK ==
  \E H \in Values(work, Outlook) :
    /\ Links(H, work, SeenLink)
    /\ H[1].depth = Len(scopes) /\ H[Len(work) + 1] = Over

LEMMA AheadLinkKept ==
  ASSUME ast' = ast
  PROVE  AheadLink' = AheadLink /\ Outlook' = Outlook /\ \A w : Met(w)' = Met(w)
<1>1. Outlook' = Outlook /\ Item' = Item
  BY DEF Outlook, Item
<1>2. After' = After
  BY DEF After, Follows, Under, Opens
<1>3. \A w, a, b : Ahead(w, a, b)' <=> Ahead(w, a, b)
  BY <1>2 DEF Ahead, Direct, Begun
<1>4. \A w : Met(w)' = Met(w)
  BY DEF Met, Direct, Begun
<1> QED
  BY <1>1, <1>3, <1>4 DEF AheadLink

LEMMA SeenAt ==
  ASSUME ast' = ast, NEW w, NEW a, NEW b, <<w, a, b>> \in AheadLink,
         \A l \in 1 .. a.depth : \A x \in Names :
           scopes'[l][x].decl # 0 => Met(w) \subseteq Region'[scopes'[l][x].decl]
  PROVE  <<w, a, b>> \in SeenLink'
<1>1. <<w, a, b>> \in AheadLink' /\ Met(w)' = Met(w)
  BY AheadLinkKept
<1> QED
  BY <1>1 DEF SeenLink

LEMMA AheadFields ==
  ASSUME NEW H \in Values(work, Outlook), Links(H, work, SeenLink), work \in Seq(Item),
         NEW i \in DOMAIN work
  PROVE  /\ H[i] \in Outlook /\ H[i + 1] \in Outlook /\ Ahead(work[i], H[i], H[i + 1])
         /\ <<work[i], H[i], H[i + 1]>> \in AheadLink
         /\ \A l \in 1 .. H[i].depth : \A x \in Names :
              scopes[l][x].decl # 0 => Met(work[i]) \subseteq Region[scopes[l][x].decl]
<1>1. <<work[i], H[i], H[i + 1]>> \in SeenLink
  BY DEF Links
<1> QED
  BY <1>1 DEF SeenLink, AheadLink

(* Later in the stack there is less ahead in a scope. *)
Falls(a, b) ==
  /\ b.depth <= a.depth
  /\ b.depth = a.depth => b.rest \subseteq a.rest /\ b.open \subseteq a.open

LEMMA AheadFalls ==
  ASSUME work \in Seq(Item), work # <<>>, NEW H \in Values(work, Outlook),
         Links(H, work, SeenLink)
  PROVE  \A i \in 2 .. Len(work) + 1 : Falls(H[2], H[i])
<1> DEFINE T == {p \in Outlook \X Outlook : Falls(p[1], p[2])}
<1>1. Len(work) \in Nat /\ Len(work) >= 1 /\ DOMAIN work = 1 .. Len(work) /\ 2 \in 1 .. Len(work) + 1
  OBVIOUS
<1>2. \A a \in Outlook : <<a, a>> \in T
  BY DEF Falls, Outlook
<1>3. \A a, b, c \in Outlook : <<a, b>> \in T /\ <<b, c>> \in T => <<a, c>> \in T
  <2> SUFFICES ASSUME NEW a \in Outlook, NEW b \in Outlook, NEW c \in Outlook,
                      Falls(a, b), Falls(b, c)
               PROVE  Falls(a, c)
    OBVIOUS
  <2>1. a.depth \in Nat /\ b.depth \in Nat /\ c.depth \in Nat
    BY DEF Outlook
  <2> QED
    BY <2>1 DEF Falls
<1>4. \A i \in DOMAIN work : <<H[i], H[i + 1]>> \in T
  <2> SUFFICES ASSUME NEW i \in DOMAIN work PROVE Falls(H[i], H[i + 1])
    BY AheadFields
  <2>1. H[i] \in Outlook /\ H[i + 1] \in Outlook /\ Ahead(work[i], H[i], H[i + 1])
    BY AheadFields
  <2> QED
    BY <2>1 DEF Ahead, Falls, Outlook
<1> HIDE DEF T
<1>5. \A i \in 2 .. Len(work) + 1 : <<H[2], H[i]>> \in T
  BY <1>1, <1>2, <1>3, <1>4, ChainClimb
<1> QED
  BY <1>5 DEF T

(* The rest of the scope stands in the stack. *)
LEMMA RestAhead ==
  ASSUME work \in Seq(Item), work # <<>>, NEW H \in Values(work, Outlook),
         Links(H, work, SeenLink), H[Len(work) + 1] = Over, NEW t \in H[2].rest
  PROVE  \E i \in DOMAIN work : i # 1 /\ t \in Direct(work[i])
<1> SUFFICES ASSUME \A i \in DOMAIN work : i # 1 => t \notin Direct(work[i]) PROVE FALSE
  OBVIOUS
<1> DEFINE T == {p \in Outlook \X Outlook : t \in p[1].rest => t \in p[2].rest}
<1>1. /\ Len(work) \in Nat /\ Len(work) >= 1 /\ DOMAIN work = 1 .. Len(work)
      /\ 2 \in 1 .. Len(work) + 1 /\ Len(work) + 1 \in 2 .. Len(work) + 1
  OBVIOUS
<1>8. \A a, b \in Outlook : <<a, b>> \in T <=> (t \in a.rest => t \in b.rest)
  OBVIOUS
<1>2. \A a \in Outlook : <<a, a>> \in T
  BY <1>8
<1>3. \A a, b, c \in Outlook : <<a, b>> \in T /\ <<b, c>> \in T => <<a, c>> \in T
  <2> HIDE DEF T
  <2> QED
    BY <1>8
<1>4. \A i \in DOMAIN work : <<H[i], H[i + 1]>> \in T
  <2> SUFFICES ASSUME NEW i \in DOMAIN work, t \in H[i].rest PROVE t \in H[i + 1].rest
    BY AheadFields
  <2>1. Ahead(work[i], H[i], H[i + 1])
    BY AheadFields
  <2> QED
    BY <2>1 DEF Ahead
<1> HIDE DEF T
<1>5. \A i \in 2 .. Len(work) + 1 : <<H[2], H[i]>> \in T
  BY <1>1, <1>2, <1>3, <1>4, ChainClimb
<1>7. <<H[2], Over>> \in T
  BY <1>1, <1>5
<1> QED
  BY <1>7 DEF T, Over

-----------------------------------------------------------------------------
(* What is ahead along the items that a call pushes. *)

Laid(items, R, a, b) ==
  \E g \in Values(items, Outlook) : Links(g, items, R) /\ g[1] = a /\ g[Len(items) + 1] = b

RestOf(items, i, b) == b.rest \cup UNION {Direct(items[j]) : j \in i .. Len(items)}
OpenOf(items, i, b) == b.open \cup UNION {Begun(items[j]) : j \in i .. Len(items)}

(* In front of b, each of the items finds ahead what it should. *)
Orderly(items, b) ==
  \A i \in DOMAIN items :
    /\ items[i].op # "leave"
    /\ items[i].op \in {"stmt", "declare", "loop"} =>
         After[items[i].node] = RestOf(items, i + 1, b) /\ OpenOf(items, i + 1, b) = {}
    /\ items[i].op = "launch" => ast[items[i].node].par # "regular"

LEMMA LaidOrderly ==
  ASSUME NEW items \in Seq(Item), NEW b \in Outlook, Orderly(items, b),
         \A i \in DOMAIN items : Direct(items[i]) \subseteq DOMAIN ast, NEW R,
         \A i \in DOMAIN items : \A a, c \in Outlook :
           a.depth = b.depth /\ <<items[i], a, c>> \in AheadLink => <<items[i], a, c>> \in R
  PROVE  \E a \in Outlook : a.depth = b.depth /\ Laid(items, R, a, b)
<1> DEFINE g == [i \in 1 .. Len(items) + 1 |->
                   [depth |-> b.depth, rest |-> RestOf(items, i, b),
                    open |-> OpenOf(items, i, b)]]
<1>1. Len(items) \in Nat /\ DOMAIN items = 1 .. Len(items)
  OBVIOUS
<1>2. ASSUME NEW i \in 1 .. Len(items) + 1 PROVE g[i] \in Outlook
  <2>1. \A j \in i .. Len(items) : j \in DOMAIN items /\ items[j] \in Item
    BY <1>1
  <2>2. RestOf(items, i, b) \subseteq DOMAIN ast
    BY <2>1 DEF RestOf, Outlook
  <2>3. OpenOf(items, i, b) \subseteq DOMAIN ast
    BY <2>1 DEF OpenOf, Outlook, Begun, Item
  <2> QED
    BY <2>2, <2>3 DEF Outlook
<1>3. g[Len(items) + 1] = b
  <2>1. Len(items) + 1 \in 1 .. Len(items) + 1 /\ Len(items) + 1 .. Len(items) = {}
    BY <1>1
  <2>2. RestOf(items, Len(items) + 1, b) = b.rest /\ OpenOf(items, Len(items) + 1, b) = b.open
    BY <2>1 DEF RestOf, OpenOf
  <2> QED
    BY <2>1, <2>2 DEF Outlook
<1>4. ASSUME NEW i \in DOMAIN items
      PROVE  /\ RestOf(items, i, b) = Direct(items[i]) \cup RestOf(items, i + 1, b)
             /\ OpenOf(items, i, b) = Begun(items[i]) \cup OpenOf(items, i + 1, b)
  <2>1. i .. Len(items) = {i} \cup (i + 1 .. Len(items))
    BY <1>1
  <2> QED
    BY <2>1 DEF RestOf, OpenOf
<1>5. \A i \in 1 .. Len(items) + 1 :
        g[i].depth = b.depth /\ g[i].rest = RestOf(items, i, b) /\ g[i].open = OpenOf(items, i, b)
  OBVIOUS
<1> HIDE DEF g
<1>6. ASSUME NEW i \in DOMAIN items PROVE <<items[i], g[i], g[i + 1]>> \in R
  <2>1. i \in 1 .. Len(items) + 1 /\ i + 1 \in 1 .. Len(items) + 1 /\ items[i] \in Item
    BY <1>1
  <2>2. Ahead(items[i], g[i], g[i + 1])
    BY <1>4, <1>5, <2>1 DEF Ahead, Orderly
  <2>3. <<items[i], g[i], g[i + 1]>> \in AheadLink
    BY <1>2, <2>1, <2>2 DEF AheadLink
  <2> QED
    BY <1>2, <1>5, <2>1, <2>3
<1>7. g \in Values(items, Outlook)
  <2>1. DOMAIN g = 1 .. Len(items) + 1 /\ g = [i \in DOMAIN g |-> g[i]]
    BY DEF g
  <2> QED
    BY <1>2, <2>1 DEF Values
<1>8. Laid(items, R, g[1], b)
  BY <1>3, <1>6, <1>7 DEF Laid, Links
<1> QED
  BY <1>1, <1>2, <1>5, <1>8

LEMMA LaidOne ==
  ASSUME NEW R, NEW w \in Item, NEW a \in Outlook, NEW b \in Outlook, <<w, a, b>> \in R
  PROVE  Laid(<<w>>, R, a, b)
<1> DEFINE g == [i \in 1 .. Len(<<w>>) + 1 |-> IF i = 1 THEN a ELSE b]
<1>1. Len(<<w>>) = 1 /\ DOMAIN <<w>> = {1} /\ <<w>>[1] = w
  OBVIOUS
<1>2. g \in Values(<<w>>, Outlook) /\ g[1] = a /\ g[2] = b
  BY <1>1 DEF Values
<1> HIDE DEF g
<1>3. Links(g, <<w>>, R)
  BY <1>1, <1>2 DEF Links
<1> QED
  BY <1>1, <1>2, <1>3 DEF Laid

LEMMA LaidJoin ==
  ASSUME NEW R, NEW s \in Seq(Item), NEW t \in Seq(Item), NEW a, NEW b, NEW c,
         Laid(s, R, a, b), Laid(t, R, b, c)
  PROVE  Laid(s \o t, R, a, c)
<1>1. PICK g \in Values(s, Outlook) : Links(g, s, R) /\ g[1] = a /\ g[Len(s) + 1] = b
  BY DEF Laid
<1>2. PICK h \in Values(t, Outlook) : Links(h, t, R) /\ h[1] = b /\ h[Len(t) + 1] = c
  BY DEF Laid
<1>3. g[Len(s) + 1] = h[1]
  BY <1>1, <1>2
<1>4. PICK k \in Values(s \o t, Outlook) : Links(k, s \o t, R) /\ Joined(k, g, h, s, t)
  BY <1>1, <1>2, <1>3, ChainJoin
<1> QED
  BY <1>1, <1>2, <1>4 DEF Laid, Joined

LEMMA OrderlyStatements ==
  ASSUME NEW kids \in Seq(DOMAIN ast), NEW b \in Outlook, b.open = {},
         \A i \in DOMAIN kids :
           After[kids[i]] = {y \in DOMAIN ast : \E j \in DOMAIN kids : i < j /\ y = kids[j]}
                              \cup b.rest
  PROVE  Orderly(Each("stmt", kids), b)
<1> DEFINE items == Each("stmt", kids)
<1>1. Len(kids) \in Nat /\ DOMAIN kids = 1 .. Len(kids)
  OBVIOUS
<1>2. /\ items \in Seq(Item) /\ Len(items) = Len(kids) /\ DOMAIN items = DOMAIN kids
      /\ \A i \in DOMAIN kids : items[i].op = "stmt" /\ items[i].node = kids[i]
  <2>1. items \in Seq(Item)
    BY <1>1, EachType DEF Ops
  <2>2. DOMAIN items = DOMAIN kids /\ \A i \in DOMAIN kids : items[i] = Do("stmt", kids[i])
    BY DEF Each
  <2>3. Len(items) = Len(kids)
    BY <1>1 DEF Each
  <2> QED
    BY <2>1, <2>2, <2>3, DoFields
<1> HIDE DEF items
<1>3. ASSUME NEW i \in DOMAIN kids
      PROVE  After[kids[i]] = RestOf(items, i + 1, b) /\ OpenOf(items, i + 1, b) = {}
  <2>1. \A j : j \in i + 1 .. Len(kids) <=> (j \in DOMAIN kids /\ i < j)
    BY <1>1
  <2>2. \A j \in i + 1 .. Len(items) : Direct(items[j]) = {kids[j]} /\ Begun(items[j]) = {}
    BY <1>2, <2>1 DEF Direct, Begun
  <2>3. \A j \in DOMAIN kids : kids[j] \in DOMAIN ast
    BY <1>1
  <2>4. After[kids[i]] = {y \in DOMAIN ast : \E j \in DOMAIN kids : i < j /\ y = kids[j]} \cup b.rest
    OBVIOUS
  <2>5. \A y : y \in RestOf(items, i + 1, b) <=>
                 y \in b.rest \/ \E j \in i + 1 .. Len(items) : y \in Direct(items[j])
    BY DEF RestOf
  <2>6. \A y : y \in RestOf(items, i + 1, b) <=>
                 y \in b.rest \/ \E j \in DOMAIN kids : i < j /\ y = kids[j]
    <3>1. \A j : j \in i + 1 .. Len(items) <=> (j \in DOMAIN kids /\ i < j)
      BY <1>2, <2>1
    <3>2. \A j \in DOMAIN kids : i < j => Direct(items[j]) = {kids[j]}
      BY <2>2, <3>1
    <3>3. ASSUME NEW y, NEW j \in i + 1 .. Len(items), y \in Direct(items[j])
          PROVE  \E k \in DOMAIN kids : i < k /\ y = kids[k]
      <4>1. j \in DOMAIN kids /\ i < j
        BY <3>1
      <4>2. y = kids[j]
        BY <3>2, <3>3, <4>1
      <4> QED
        BY <4>1, <4>2
    <3>4. ASSUME NEW y, NEW j \in DOMAIN kids, i < j, y = kids[j]
          PROVE  \E k \in i + 1 .. Len(items) : y \in Direct(items[k])
      <4>1. j \in i + 1 .. Len(items) /\ y \in Direct(items[j])
        BY <3>1, <3>2, <3>4
      <4> QED
        BY <4>1
    <3> QED
      BY <2>5, <3>3, <3>4
  <2>7. After[kids[i]] = RestOf(items, i + 1, b)
    BY <2>3, <2>4, <2>6
  <2>8. OpenOf(items, i + 1, b) = {}
    <3>1. \A j \in i + 1 .. Len(items) : Begun(items[j]) = {}
      BY <2>2
    <3> HIDE DEF items
    <3>2. b.open \cup UNION {Begun(items[j]) : j \in i + 1 .. Len(items)} = {}
      BY <3>1
    <3> QED
      BY <3>2 DEF OpenOf
  <2> QED
    BY <2>7, <2>8
<1> QED
  BY <1>2, <1>3 DEF Orderly, items

LEMMA OrderlyKids ==
  ASSUME ast \in Programs, NEW n \in DOMAIN ast, NEW b \in Outlook,
         b.rest = Rest(n), b.open = {}
  PROVE  Orderly(Each("stmt", ast[n].kids), b)
<1>1. ast[n].kids \in Seq(DOMAIN ast)
  BY NodeFacts
<1> QED
  BY <1>1, AfterKid, OrderlyStatements

(* Items that leave alone what is ahead. *)
Free(w) ==
  /\ w.op \notin {"leave", "stmt", "declare", "loop"}
  /\ w.op = "launch" => ast[w.node].par # "regular"

LEMMA FreeJoin ==
  ASSUME NEW s \in Seq(Item), NEW t \in Seq(Item), \A i \in DOMAIN s : Free(s[i]),
         \A i \in DOMAIN t : Free(t[i])
  PROVE  s \o t \in Seq(Item) /\ \A i \in DOMAIN (s \o t) : Free((s \o t)[i])
<1>1. ASSUME NEW j \in DOMAIN (s \o t) PROVE Free((s \o t)[j])
  <2>1. CASE j \in DOMAIN s
    BY <2>1, AppendedItems
  <2>2. ASSUME NEW i \in DOMAIN t, j = i + Len(s) PROVE Free((s \o t)[j])
    BY <2>2, AppendedItems
  <2> QED
    BY <1>1, <2>1, <2>2, AppendedItems
<1> QED
  BY <1>1, AppendedItems

LEMMA OrderlyJoin ==
  ASSUME NEW s \in Seq(Item), NEW t \in Seq(Item), \A i \in DOMAIN s : Free(s[i]),
         NEW b, Orderly(t, b)
  PROVE  s \o t \in Seq(Item) /\ Orderly(s \o t, b)
<1> DEFINE u == s \o t
           Shown(j) == /\ u[j].op # "leave"
                       /\ u[j].op \in {"stmt", "declare", "loop"} =>
                            /\ After[u[j].node] = RestOf(u, j + 1, b)
                            /\ OpenOf(u, j + 1, b) = {}
                       /\ u[j].op = "launch" => ast[u[j].node].par # "regular"
<1>1. /\ u \in Seq(Item) /\ Len(u) = Len(s) + Len(t)
      /\ \A i \in DOMAIN s : i \in DOMAIN u /\ u[i] = s[i]
      /\ \A i \in DOMAIN t : i + Len(s) \in DOMAIN u /\ u[i + Len(s)] = t[i]
      /\ \A j \in DOMAIN u : j \in DOMAIN s \/ \E i \in DOMAIN t : j = i + Len(s)
  BY AppendedItems
<1>2. Len(s) \in Nat /\ Len(t) \in Nat /\ DOMAIN t = 1 .. Len(t)
  OBVIOUS
<1> HIDE DEF u
<1>3. ASSUME NEW j \in DOMAIN s PROVE Shown(j)
  BY <1>1, <1>3 DEF Free
<1>4. ASSUME NEW i \in DOMAIN t PROVE Shown(i + Len(s))
  <2>1. /\ \A k \in i + 1 .. Len(t) : /\ k + Len(s) \in (i + Len(s)) + 1 .. Len(u)
                                     /\ u[k + Len(s)] = t[k]
        /\ \A j \in (i + Len(s)) + 1 .. Len(u) :
             j - Len(s) \in i + 1 .. Len(t) /\ u[j] = t[j - Len(s)]
    <3>1. ASSUME NEW k \in i + 1 .. Len(t)
          PROVE  k + Len(s) \in (i + Len(s)) + 1 .. Len(u) /\ u[k + Len(s)] = t[k]
      <4>1. k \in DOMAIN t /\ k + Len(s) \in (i + Len(s)) + 1 .. Len(s) + Len(t)
        BY <1>2
      <4> QED
        BY <1>1, <4>1
    <3>2. ASSUME NEW j \in (i + Len(s)) + 1 .. Len(u)
          PROVE  j - Len(s) \in i + 1 .. Len(t) /\ u[j] = t[j - Len(s)]
      <4>1. j - Len(s) \in i + 1 .. Len(t) /\ (j - Len(s)) + Len(s) = j
        BY <1>1, <1>2
      <4>2. j - Len(s) \in DOMAIN t
        BY <1>2, <4>1
      <4> QED
        BY <1>1, <4>1, <4>2
    <3> QED
      BY <3>1, <3>2
  <2>2. RestOf(u, (i + Len(s)) + 1, b) = RestOf(t, i + 1, b)
    <3>1. \A y : (\E j \in (i + Len(s)) + 1 .. Len(u) : y \in Direct(u[j])) <=>
                 (\E k \in i + 1 .. Len(t) : y \in Direct(t[k]))
      BY <2>1
    <3> QED
      BY <3>1 DEF RestOf
  <2>3. OpenOf(u, (i + Len(s)) + 1, b) = OpenOf(t, i + 1, b)
    <3>1. \A y : (\E j \in (i + Len(s)) + 1 .. Len(u) : y \in Begun(u[j])) <=>
                 (\E k \in i + 1 .. Len(t) : y \in Begun(t[k]))
      BY <2>1
    <3> QED
      BY <3>1 DEF OpenOf
  <2> QED
    BY <1>1, <1>4, <2>2, <2>3 DEF Orderly
<1>5. \A j \in DOMAIN u : Shown(j)
  BY <1>1, <1>3, <1>4
<1> QED
  BY <1>1, <1>5 DEF Orderly, u

LEMMA OrderlyFree ==
  ASSUME NEW items, \A i \in DOMAIN items : Free(items[i]), NEW b
  PROVE  Orderly(items, b)
BY DEF Free, Orderly

LEMMA FreeOne ==
  ASSUME NEW n \in DOMAIN ast, NEW op \in Ops \ {"leave", "stmt", "declare", "loop"},
         op = "launch" => ast[n].par # "regular"
  PROVE  /\ <<Do(op, n)>> \in Seq(Item)
         /\ \A i \in DOMAIN <<Do(op, n)>> : Free(<<Do(op, n)>>[i])
BY DoType, DoFields DEF Free

LEMMA FreeEach ==
  ASSUME NEW kids \in Seq(DOMAIN ast)
  PROVE  /\ Each("expr", kids) \in Seq(Item)
         /\ \A i \in DOMAIN Each("expr", kids) : Free(Each("expr", kids)[i])
<1>1. Each("expr", kids) \in Seq(Item)
  BY EachType DEF Ops
<1>2. \A i \in DOMAIN Each("expr", kids) : Free(Each("expr", kids)[i])
  BY DoFields DEF Each, Free
<1> QED
  BY <1>1, <1>2

LEMMA FreeCallItems ==
  ASSUME ast \in Programs, NEW n \in DOMAIN ast
  PROVE  CallItems(n) \in Seq(Item) /\ \A i \in DOMAIN CallItems(n) : Free(CallItems(n)[i])
<1> DEFINE s == Each("expr", ast[n].kids)
           t == <<Do("discard", n)>>
           u == IF ast[n].par = "regular" THEN <<>> ELSE <<Do("launch", n)>>
<1>1. s \in Seq(Item) /\ \A i \in DOMAIN s : Free(s[i])
  BY NodeFacts, FreeEach
<1>2. t \in Seq(Item) /\ \A i \in DOMAIN t : Free(t[i])
  BY FreeOne DEF Ops
<1>3. u \in Seq(Item) /\ \A i \in DOMAIN u : Free(u[i])
  <2>1. CASE ast[n].par = "regular"
    BY <2>1, NoItems
  <2>2. CASE ast[n].par # "regular"
    BY <2>2, FreeOne DEF Ops
  <2> QED
    BY <2>1, <2>2
<1>4. CallItems(n) = (s \o t) \o u
  BY DEF CallItems
<1> HIDE DEF s, t, u
<1>5. s \o t \in Seq(Item) /\ \A i \in DOMAIN (s \o t) : Free((s \o t)[i])
  BY <1>1, <1>2, FreeJoin
<1>6. (s \o t) \o u \in Seq(Item) /\ \A i \in DOMAIN ((s \o t) \o u) : Free(((s \o t) \o u)[i])
  BY <1>3, <1>5, FreeJoin
<1> QED
  BY <1>4, <1>6

LEMMA FreeEvaluate ==
  ASSUME ast \in Programs, NEW n \in DOMAIN ast, 1 \in DOMAIN ast[n].kids
  PROVE  Evaluate(n) \in Seq(Item) /\ \A i \in DOMAIN Evaluate(n) : Free(Evaluate(n)[i])
<1>1. ast[n].kids[1] \in DOMAIN ast
  BY KidFacts
<1> QED
  BY <1>1, FreeOne DEF Evaluate, Ops

LEMMA OrderlyFor ==
  ASSUME ast \in Programs, NEW n \in DOMAIN ast, ast[n].kind = "for", NEW b \in Outlook,
         b.rest = After[n], b.open = {}, NEW last \in Item,
         last.op \in {"stmt", "loop"}, last.op = "loop" => last.node = n,
         last.op = "stmt" => last.node = ast[n].kids[4]
  PROVE  Orderly(<<Do("stmt", ast[n].kids[1]), Do("expr", ast[n].kids[2]), Do("test", n),
                   Do("stmt", ast[n].kids[3]), last>>, b)
<1> DEFINE k(i) == ast[n].kids[i]
           items == <<Do("stmt", k(1)), Do("expr", k(2)), Do("test", n), Do("stmt", k(3)), last>>
<1>1. Len(ast[n].kids) = 4 /\ DOMAIN ast[n].kids = 1 .. 4 /\ Rest(n) = After[n]
  <2>1. ast[n].kids \in Seq(DOMAIN ast) /\ Len(ast[n].kids) = 4
    BY NodeFacts
  <2> QED
    BY <2>1 DEF Rest, Opens
<1>2. /\ \A i \in 1 .. 4 : k(i) \in DOMAIN ast
      /\ \A i \in 1 .. 4 : After[k(i)] = {y \in DOMAIN ast : \E j \in 1 .. 4 : i < j /\ y = k(j)}
                                          \cup b.rest
  BY <1>1, KidFacts, AfterKid
<1>3. /\ Len(items) = 5 /\ DOMAIN items = 1 .. 5
      /\ items[1].op = "stmt" /\ items[1].node = k(1)
      /\ items[2].op = "expr" /\ items[2].node = k(2)
      /\ items[3].op = "test" /\ items[3].node = n
      /\ items[4].op = "stmt" /\ items[4].node = k(3)
      /\ items[5] = last
  BY DoFields
<1> HIDE DEF items
<1>4. /\ Direct(items[2]) = {k(2)} /\ Direct(items[3]) = {}
      /\ Direct(items[4]) = {k(3)} /\ Direct(items[5]) = {k(4)}
      /\ \A j \in 2 .. 5 : Begun(items[j]) = {}
  BY <1>3 DEF Direct, Begun
<1>5. \A i \in 2 .. 6 : \A y : y \in RestOf(items, i, b) <=>
        y \in b.rest \/ \E j \in i .. 5 : y \in Direct(items[j])
  BY <1>3 DEF RestOf
<1>6. \A i \in 2 .. 6 : OpenOf(items, i, b) = {}
  <2> SUFFICES ASSUME NEW i \in 2 .. 6 PROVE OpenOf(items, i, b) = {}
    OBVIOUS
  <2>1. \A j \in i .. 5 : Begun(items[j]) = {}
    BY <1>4
  <2> QED
    BY <1>3, <2>1 DEF OpenOf
<1>7. After[k(1)] = RestOf(items, 2, b)
  <2>1. \A y : y \in After[k(1)] <=> y \in b.rest \/ y \in {k(2), k(3), k(4)}
    BY <1>2
  <2>2. \A y : y \in RestOf(items, 2, b) <=> y \in b.rest \/ y \in {k(2), k(3), k(4)}
    BY <1>4, <1>5
  <2> QED
    BY <2>1, <2>2
<1>8. After[k(3)] = RestOf(items, 5, b)
  <2>1. \A y : y \in After[k(3)] <=> y \in b.rest \/ y = k(4)
    BY <1>2
  <2>2. \A y : y \in RestOf(items, 5, b) <=> y \in b.rest \/ y = k(4)
    BY <1>4, <1>5
  <2> QED
    BY <2>1, <2>2
<1>9. After[last.node] = RestOf(items, 6, b)
  <2>1. RestOf(items, 6, b) = b.rest
    BY <1>5
  <2>2. After[k(4)] = b.rest
    <3>1. \A j \in 1 .. 4 : ~(4 < j)
      OBVIOUS
    <3>2. \A y : y \in After[k(4)] <=> y \in b.rest
      BY <1>2, <3>1
    <3> QED
      BY <3>2
  <2>3. last.node = n \/ last.node = k(4)
    OBVIOUS
  <2> QED
    BY <2>1, <2>2, <2>3
<1>10. ASSUME NEW i \in 1 .. 5
       PROVE  /\ items[i].op # "leave"
              /\ items[i].op \in {"stmt", "declare", "loop"} =>
                   /\ After[items[i].node] = RestOf(items, i + 1, b)
                   /\ OpenOf(items, i + 1, b) = {}
              /\ items[i].op = "launch" => ast[items[i].node].par # "regular"
  <2>1. i = 1 \/ i = 2 \/ i = 3 \/ i = 4 \/ i = 5
    OBVIOUS
  <2>2. CASE i = 1
    BY <1>3, <1>6, <1>7, <2>2
  <2>3. CASE i = 2 \/ i = 3
    BY <1>3, <2>3
  <2>4. CASE i = 4
    BY <1>3, <1>6, <1>8, <2>4
  <2>5. CASE i = 5
    BY <1>3, <1>6, <1>9, <2>5
  <2> QED
    BY <2>1, <2>2, <2>3, <2>4, <2>5
<1> QED
  BY <1>3, <1>10 DEF Orderly, items

LEMMA OrderlyCalls ==
  ASSUME ast \in Programs, NEW w, QuietItem(w), NEW b \in Outlook,
         w.op = "stmt" => b.rest = After[w.node] /\ b.open = {}
  PROVE  Orderly(Calls(w), b)
<1> DEFINE n    == w.node
           kids == ast[n].kids
<1>1. n \in DOMAIN ast /\ kids \in Seq(DOMAIN ast)
  BY NodeFacts DEF QuietItem
<1>2. CASE w.op = "stmt" /\ ast[n].kind = "decl"
  <2> DEFINE t == <<Do("declare", n)>>
  <2>1. Len(kids) = 1 /\ 1 \in DOMAIN kids
    BY <1>1, <1>2, NodeFacts
  <2>2. Evaluate(n) \in Seq(Item) /\ \A i \in DOMAIN Evaluate(n) : Free(Evaluate(n)[i])
    BY <1>1, <2>1, FreeEvaluate
  <2>3. /\ t \in Seq(Item) /\ DOMAIN t = {1} /\ Len(t) = 1
        /\ t[1].op = "declare" /\ t[1].node = n
    BY <1>1, DoType, DoFields DEF Ops
  <2>4. Calls(w) = Evaluate(n) \o t
    BY <1>2 DEF Calls
  <2> HIDE DEF t
  <2>5. RestOf(t, 2, b) = b.rest /\ OpenOf(t, 2, b) = b.open
    <3>1. 2 .. Len(t) = {}
      BY <2>3
    <3> QED
      BY <3>1 DEF RestOf, OpenOf
  <2>6. Orderly(t, b)
    BY <1>2, <2>3, <2>5 DEF Orderly
  <2> QED
    BY <2>2, <2>3, <2>4, <2>6, OrderlyJoin
<1>3. CASE w.op = "stmt" /\ ast[n].kind = "update"
  <2>1. CASE kids = <<>>
    BY <1>3, <2>1 DEF Calls, Orderly
  <2>2. CASE kids # <<>>
    <3>1. 1 \in DOMAIN kids
      BY <1>1, <2>2
    <3> DEFINE s == Evaluate(n)
               t == <<Do("store", n)>>
    <3>2. s \in Seq(Item) /\ \A i \in DOMAIN s : Free(s[i])
      BY <1>1, <3>1, FreeEvaluate
    <3>3. t \in Seq(Item) /\ \A i \in DOMAIN t : Free(t[i])
      BY <1>1, FreeOne DEF Ops
    <3>4. Calls(w) = s \o t
      BY <1>3, <2>2 DEF Calls
    <3> HIDE DEF s, t
    <3> QED
      BY <3>2, <3>3, <3>4, FreeJoin, OrderlyFree
  <2> QED
    BY <2>1, <2>2
<1>4. CASE w.op = "stmt" /\ ast[n].kind = "if"
  <2> DEFINE s == Evaluate(n)
             t == <<Do("test", n)>>
             u == Each("stmt", Tail(kids))
  <2>1. kids # <<>> /\ 1 \in DOMAIN kids
    BY <1>1, <1>4, NodeFacts
  <2>2. s \in Seq(Item) /\ \A i \in DOMAIN s : Free(s[i])
    BY <1>1, <2>1, FreeEvaluate
  <2>3. t \in Seq(Item) /\ \A i \in DOMAIN t : Free(t[i])
    BY <1>1, FreeOne DEF Ops
  <2>4. /\ Tail(kids) \in Seq(DOMAIN ast) /\ u \in Seq(Item)
        /\ \A i \in DOMAIN Tail(kids) : i + 1 \in DOMAIN kids /\ Tail(kids)[i] = kids[i + 1]
        /\ \A i \in DOMAIN kids : i # 1 => i - 1 \in DOMAIN Tail(kids)
    BY <1>1, <2>1, TailItems, EachType DEF Ops
  <2>5. ASSUME NEW i \in DOMAIN Tail(kids)
        PROVE  After[Tail(kids)[i]] =
                 {y \in DOMAIN ast : \E j \in DOMAIN Tail(kids) : i < j /\ y = Tail(kids)[j]}
                   \cup b.rest
    <3>1. Rest(n) = After[n] /\ b.rest = After[n] /\ DOMAIN kids \subseteq Nat /\ i \in Nat
          /\ DOMAIN Tail(kids) \subseteq Nat
      BY <1>1, <1>4, <2>4 DEF Rest, Opens
    <3>2. After[kids[i + 1]] =
            {y \in DOMAIN ast : \E j \in DOMAIN kids : i + 1 < j /\ y = kids[j]} \cup Rest(n)
      BY <1>1, <2>4, AfterKid
    <3>3. \A y : (\E j \in DOMAIN kids : i + 1 < j /\ y = kids[j]) <=>
                 (\E j \in DOMAIN Tail(kids) : i < j /\ y = Tail(kids)[j])
      <4>1. ASSUME NEW j \in DOMAIN kids, i + 1 < j
            PROVE  j - 1 \in DOMAIN Tail(kids) /\ i < j - 1 /\ kids[j] = Tail(kids)[j - 1]
        <5>1. j # 1 /\ i < j - 1 /\ (j - 1) + 1 = j
          BY <3>1, <4>1
        <5>2. j - 1 \in DOMAIN Tail(kids)
          BY <2>4, <5>1
        <5> QED
          BY <2>4, <5>1, <5>2
      <4>2. ASSUME NEW j \in DOMAIN Tail(kids), i < j
            PROVE  j + 1 \in DOMAIN kids /\ i + 1 < j + 1 /\ kids[j + 1] = Tail(kids)[j]
        BY <2>4, <3>1, <4>2
      <4> QED
        BY <4>1, <4>2
    <3>4. {y \in DOMAIN ast : \E j \in DOMAIN kids : i + 1 < j /\ y = kids[j]} =
            {y \in DOMAIN ast : \E j \in DOMAIN Tail(kids) : i < j /\ y = Tail(kids)[j]}
      BY <3>3
    <3>5. Tail(kids)[i] = kids[i + 1]
      BY <2>4
    <3> QED
      BY <3>1, <3>2, <3>4, <3>5
  <2>6. Orderly(u, b)
    BY <1>4, <2>4, <2>5, OrderlyStatements
  <2>7. Calls(w) = (s \o t) \o u
    BY <1>4 DEF Calls
  <2> HIDE DEF s, t, u
  <2>8. s \o t \in Seq(Item) /\ \A i \in DOMAIN (s \o t) : Free((s \o t)[i])
    BY <2>2, <2>3, FreeJoin
  <2> QED
    BY <2>4, <2>6, <2>7, <2>8, OrderlyJoin
<1>5. CASE w.op = "stmt" /\ ast[n].kind = "for"
  <2> DEFINE last == IF ast[n].par = "thread" THEN Do("loop", n) ELSE Do("stmt", kids[4])
  <2>1. kids[4] \in DOMAIN ast
    <3>1. Len(kids) = 4
      BY <1>1, <1>5, NodeFacts
    <3> QED
      BY <1>1, <3>1
  <2>2. /\ last \in Item /\ last.op \in {"stmt", "loop"}
        /\ last.op = "loop" => last.node = n
        /\ last.op = "stmt" => last.node = kids[4]
    BY <1>1, <2>1, DoType, DoFields DEF Ops
  <2>3. Calls(w) = <<Do("stmt", kids[1]), Do("expr", kids[2]), Do("test", n),
                     Do("stmt", kids[3]), last>>
    BY <1>5 DEF Calls
  <2> HIDE DEF last
  <2> QED
    BY <1>1, <1>5, <2>2, <2>3, OrderlyFor
<1>6. CASE w.op = "stmt" /\ ast[n].kind \in {"print", "return", "await", "call"}
  <2>1. Calls(w) = CallItems(n)
    BY <1>6 DEF Calls
  <2> QED
    BY <1>1, <2>1, FreeCallItems, OrderlyFree
<1>7. CASE w.op = "expr" /\ ast[n].kind = "call"
  <2> DEFINE t == <<Do("yield", n)>>
  <2>1. t \in Seq(Item) /\ \A i \in DOMAIN t : Free(t[i])
    BY <1>1, FreeOne DEF Ops
  <2>2. Calls(w) = CallItems(n) \o t
    BY <1>7 DEF Calls
  <2> HIDE DEF t
  <2>3. CallItems(n) \in Seq(Item) /\ \A i \in DOMAIN CallItems(n) : Free(CallItems(n)[i])
    BY <1>1, FreeCallItems
  <2> QED
    BY <2>1, <2>2, <2>3, FreeJoin, OrderlyFree
<1>8. CASE w.op = "expr" /\ ast[n].kind \in {"binop", "unary"}
  <2> DEFINE s == Each("expr", kids)
             t == <<Do(IF ast[n].kind = "binop" THEN "operate" ELSE "negate", n)>>
  <2>1. t \in Seq(Item) /\ \A i \in DOMAIN t : Free(t[i])
    BY <1>1, FreeOne DEF Ops
  <2>2. s \in Seq(Item) /\ \A i \in DOMAIN s : Free(s[i])
    BY <1>1, FreeEach
  <2>3. Calls(w) = s \o t
    BY <1>8 DEF Calls
  <2> HIDE DEF s, t
  <2> QED
    BY <2>1, <2>2, <2>3, FreeJoin, OrderlyFree
<1>9. CASE ~(w.op = "stmt" /\ ast[n].kind \in {"decl", "update", "if", "for", "print",
                                              "return", "await", "call"})
           /\ ~(w.op = "expr" /\ ast[n].kind \in {"call", "binop", "unary"})
  <2>1. Calls(w) = <<>>
    BY <1>9 DEF Calls
  <2> QED
    BY <2>1 DEF Orderly
<1> QED
  BY <1>2, <1>3, <1>4, <1>5, <1>6, <1>7, <1>8, <1>9

-----------------------------------------------------------------------------
(* What is ahead after a step. *)

LEMMA MetByNode ==
  ASSUME ast \in Programs, NEW w \in Item, Fits(w)
  PROVE  Met(w) \subseteq Leads[w.node] /\ Direct(w) \subseteq Met(w)
<1>1. w.node \in DOMAIN ast
  BY DEF Item
<1>2. w.node \in Leads[w.node] /\ Succs[w.node] \subseteq Leads[w.node]
  BY <1>1, LeadsFacts
<1>3. w.op = "loop" => ast[w.node].kids[4] \in Succs[w.node]
  <2> SUFFICES ASSUME w.op = "loop" PROVE ast[w.node].kids[4] \in Succs[w.node]
    OBVIOUS
  <2>1. ast[w.node].kind = "for"
    BY DEF Fits, Place
  <2>2. ast[w.node].kids \in Seq(DOMAIN ast) /\ Len(ast[w.node].kids) = 4
    BY <1>1, <2>1, NodeFacts
  <2>3. 4 \in DOMAIN ast[w.node].kids
    BY <2>2
  <2> QED
    BY <1>1, <2>3, KidFacts DEF Succs
<1> QED
  BY <1>2, <1>3 DEF Met, Direct, Begun

LEMMA PlainMet ==
  ASSUME ast \in Programs, NEW n \in DOMAIN ast, NEW w, PlainItem(w, n)
  PROVE  Met(w) \subseteq Leads[n]
<1>1. w \in Item /\ Fits(w) /\ (w.node = n \/ IsKid(w.node, n))
  BY DEF PlainItem
<1>2. w.node \in Leads[n]
  <2>1. w.node \in DOMAIN ast
    BY <1>1 DEF Item
  <2>2. w.node = n \/ w.node \in Succs[n]
    BY <1>1, <2>1 DEF Succs
  <2> QED
    BY <2>2, LeadsFacts
<1>3. Leads[w.node] \subseteq Leads[n]
  BY <1>2, LeadsFacts
<1> QED
  BY <1>1, <1>3, MetByNode

(* The rest of the stack finds ahead what it did when the step changes the *)
(* declarations in scope only by a new one, at the innermost level, in     *)
(* front of what follows it.                                               *)
LEMMA AheadAfterKept ==
  ASSUME WalkInv, UsersOK, StepKinds, work # <<>>, NEW H \in Values(work, Outlook),
         Links(H, work, SeenLink), H[2].depth <= Len(scopes),
         \A l \in 1 .. H[2].depth : \A x \in Names :
           \/ scopes'[l][x].decl = scopes[l][x].decl
           \/ /\ l = H[2].depth /\ scopes'[l][x].decl \in DOMAIN ast
              /\ After[scopes'[l][x].decl] = H[2].rest /\ H[2].open = {}
  PROVE  LinksAfter(H, work, SeenLink')
<1>1. /\ work \in Seq(Item) /\ Len(work) \in Nat /\ Len(work) >= 1 /\ DOMAIN work = 1 .. Len(work)
      /\ scopes \in Seq(Scope) /\ DOMAIN scopes = 1 .. Len(scopes) /\ Len(scopes) \in Nat
      /\ ast \in Programs /\ ast' = ast /\ After' = After
  BY SuccsGrow DEF WalkInv, IInv, WorkOK, ScopesOK
<1> SUFFICES ASSUME NEW i \in DOMAIN work, i # 1
             PROVE  <<work[i], H[i], H[i + 1]>> \in SeenLink'
  BY DEF LinksAfter
<1>2. /\ H[i] \in Outlook /\ H[2] \in Outlook /\ Ahead(work[i], H[i], H[i + 1])
      /\ <<work[i], H[i], H[i + 1]>> \in AheadLink
      /\ \A l \in 1 .. H[i].depth : \A x \in Names :
           scopes[l][x].decl # 0 => Met(work[i]) \subseteq Region[scopes[l][x].decl]
  <2>1. 2 \in 1 .. Len(work) + 1
    BY <1>1
  <2> QED
    BY <1>1, <2>1, AheadFields DEF Values
<1>3. Falls(H[2], H[i])
  <2>1. i \in 2 .. Len(work) + 1
    BY <1>1
  <2> QED
    BY <1>1, <2>1, AheadFalls
<1>4. H[i].depth \in Nat /\ H[2].depth \in Nat
  BY <1>2 DEF Outlook
<1>5. ASSUME NEW l \in 1 .. H[i].depth, NEW x \in Names, scopes'[l][x].decl # 0
      PROVE  Met(work[i]) \subseteq Region'[scopes'[l][x].decl]
  <2>1. l \in 1 .. H[2].depth /\ l \in DOMAIN scopes
    BY <1>1, <1>3, <1>4 DEF Falls
  <2>2. CASE scopes'[l][x].decl = scopes[l][x].decl
    <3>1. scopes[l][x].decl \in DOMAIN ast
      BY <1>5, <2>1, <2>2 DEF UsersOK, EntryUsed
    <3>2. Region[scopes[l][x].decl] \subseteq Region'[scopes[l][x].decl]
      BY <3>1, RegionGrows
    <3> QED
      BY <1>2, <1>5, <2>2, <3>2
  <2>3. CASE /\ l = H[2].depth /\ scopes'[l][x].decl \in DOMAIN ast
             /\ After[scopes'[l][x].decl] = H[2].rest /\ H[2].open = {}
    <3> DEFINE d == scopes'[l][x].decl
    <3>1. H[i].depth = H[2].depth
      BY <1>3, <1>4, <2>3 DEF Falls
    <3>2. H[i].rest \subseteq After[d] /\ H[i].open = {}
      BY <1>3, <2>3, <3>1 DEF Falls
    <3>3. Met(work[i]) \subseteq After[d]
      <4>1. CASE work[i].op = "leave"
        BY <4>1 DEF Met, Direct, Begun
      <4>2. CASE work[i].op # "leave"
        <5>1. Direct(work[i]) \subseteq H[i].rest /\ Begun(work[i]) \subseteq H[i].open
          BY <1>2, <4>2 DEF Ahead
        <5> QED
          BY <3>2, <5>1 DEF Met
      <4> QED
        BY <4>1, <4>2
    <3>4. After[d] \subseteq Region[d] /\ Region[d] \subseteq Region'[d]
      BY <1>1, <2>3, RegionFacts, RegionGrows
    <3> QED
      BY <3>3, <3>4
  <2> QED
    BY <2>1, <2>2, <2>3
<1> QED
  BY <1>1, <1>2, <1>5, SeenAt

LEMMA AheadContinue ==
  ASSUME WalkInv, work # <<>>, ast' = ast, NEW H \in Values(work, Outlook),
         LinksAfter(H, work, SeenLink'), H[Len(work) + 1] = Over,
         NEW items \in Seq(Item), Continue(items),
         NEW a, Laid(items, SeenLink', a, H[2]), a.depth = Len(scopes')
  PROVE  AheadOK'
<1>1. work \in Seq(Item)
  BY DEF WalkInv, IInv, WorkOK
<1>2. PICK g \in Values(items, Outlook) :
        Links(g, items, SeenLink') /\ g[1] = a /\ g[Len(items) + 1] = H[2]
  BY DEF Laid
<1>3. PICK G \in Values(work', Outlook) : Links(G, work', SeenLink') /\ Spliced(G, g, H, items)
  BY <1>1, <1>2, ChainContinue
<1>4. G[1] = a /\ G[Len(work') + 1] = Over
  BY <1>2, <1>3 DEF Spliced
<1>5. Outlook' = Outlook
  BY AheadLinkKept
<1> QED
  BY <1>3, <1>4, <1>5 DEF AheadOK, Values, Links, Over

(* The calls of a step are laid in front of b when all they are about can  *)
(* be reached from what follows each declaration in scope.                 *)
LEMMA AheadItems ==
  ASSUME ast' = ast, NEW items \in Seq(Item), NEW b \in Outlook, Orderly(items, b),
         NEW M \in SUBSET DOMAIN ast, \A i \in DOMAIN items : Met(items[i]) \subseteq M,
         \A l \in 1 .. b.depth : \A x \in Names :
           scopes'[l][x].decl # 0 => M \subseteq Region'[scopes'[l][x].decl]
  PROVE  \E a \in Outlook : a.depth = b.depth /\ Laid(items, SeenLink', a, b)
<1>1. \A i \in DOMAIN items : Direct(items[i]) \subseteq DOMAIN ast
  BY DEF Met
<1>2. ASSUME NEW i \in DOMAIN items, NEW a \in Outlook, NEW c \in Outlook,
             a.depth = b.depth, <<items[i], a, c>> \in AheadLink
      PROVE  <<items[i], a, c>> \in SeenLink'
  <2>1. \A l \in 1 .. a.depth : \A x \in Names :
          scopes'[l][x].decl # 0 => Met(items[i]) \subseteq Region'[scopes'[l][x].decl]
    BY <1>2
  <2> HIDE DEF SeenLink
  <2> QED
    BY <1>2, <2>1, SeenAt
<1> QED
  BY <1>1, <1>2, LaidOrderly

LEMMA LaidReturn ==
  ASSUME ast' = ast, NEW w \in Item, NEW a \in Outlook, NEW b \in Outlook, Ahead(w, a, b),
         w.op \in {"leave", "endContext", "endLoop"}
  PROVE  Laid(<<w>>, SeenLink', a, b)
<1>1. <<w, a, b>> \in AheadLink
  BY DEF AheadLink
<1>2. Met(w) = {}
  BY DEF Met, Direct, Begun
<1>3. <<w, a, b>> \in SeenLink'
  BY <1>1, <1>2, SeenAt
<1> QED
  BY <1>3, LaidOne

(* What holds at the head of the stack. *)
LEMMA HeadAhead ==
  ASSUME WalkInv, UsersOK, work # <<>>, NEW H \in Values(work, Outlook),
         Links(H, work, SeenLink), H[1].depth = Len(scopes)
  PROVE  /\ H[1] \in Outlook /\ H[2] \in Outlook /\ Ahead(work[1], H[1], H[2])
         /\ H[2].depth \in Nat
         /\ work[1].op # "leave" => H[2].depth = Len(scopes)
         /\ \A l \in DOMAIN scopes : \A x \in Names :
              scopes[l][x].decl # 0 =>
                /\ scopes[l][x].decl \in DOMAIN ast
                /\ Met(work[1]) \subseteq Region[scopes[l][x].decl]
<1>1. /\ work \in Seq(Item) /\ 1 \in DOMAIN work /\ scopes \in Seq(Scope)
      /\ DOMAIN scopes = 1 .. Len(scopes)
  BY DEF WalkInv, IInv, WorkOK, ScopesOK
<1>2. /\ H[1] \in Outlook /\ H[1 + 1] \in Outlook /\ Ahead(work[1], H[1], H[1 + 1])
      /\ \A l \in 1 .. H[1].depth : \A x \in Names :
           scopes[l][x].decl # 0 => Met(work[1]) \subseteq Region[scopes[l][x].decl]
  BY <1>1, AheadFields
<1> QED
  BY <1>1, <1>2 DEF UsersOK, EntryUsed, Ahead, Outlook

(* What can be reached from the head stays within what follows each        *)
(* declaration that the step leaves in scope.                              *)
LEMMA ReachKept ==
  ASSUME WalkInv, StepKinds, NEW d \in DOMAIN ast, NEW n \in Region[d]
  PROVE  Leads[n] \subseteq Region'[d] /\ Succs[n] \subseteq Region'[d] /\ n \in DOMAIN ast
<1>1. ast \in Programs
  BY DEF WalkInv, IInv
<1> QED
  BY <1>1, RegionFacts, RegionGrows

LEMMA QuietDecls ==
  ASSUME WalkInv, ScopesOK', FramesOK, QuietStep
  PROVE  /\ Len(scopes') = Len(scopes)
         /\ \A l \in DOMAIN scopes : \A x \in Names :
              \/ scopes'[l][x].decl = scopes[l][x].decl
              \/ /\ work[1].op = "declare" /\ l = Len(scopes)
                 /\ scopes'[l][x].decl = work[1].node
<1>1. IInv /\ work # <<>> /\ scopes # <<>>
  BY QuietCalls, QuietDepth DEF WalkInv
<1>2. CASE scopes' = scopes
  BY <1>2
<1>3. CASE Touches
  BY <1>1, <1>3, TouchesKeep DEF Carried
<1>4. CASE Declares
  <2>1. work[1].op = "declare"
    BY <1>4 DEF Declares
  <2> QED
    BY <1>1, <1>4, <2>1, DeclaresKeep
<1> QED
  BY <1>2, <1>3, <1>4, QuietScopes

LEMMA QuietAhead ==
  ASSUME WalkInv, ScopesOK', UsersOK, FramesOK, AheadOK, QuietStep
  PROVE  AheadOK'
<1> DEFINE n == work[1].node
<1>1. /\ work # <<>> /\ QuietItem(work[1]) /\ Continue(Calls(work[1])) /\ ast' = ast
      /\ n \in DOMAIN ast /\ ast \in Programs /\ StepKinds
      /\ scopes \in Seq(Scope) /\ DOMAIN scopes = 1 .. Len(scopes) /\ Len(scopes) \in Nat
  BY QuietCalls DEF WalkInv, IInv, ScopesOK, QuietItem, StepKinds
<1>2. PICK H \in Values(work, Outlook) :
        Links(H, work, SeenLink) /\ H[1].depth = Len(scopes) /\ H[Len(work) + 1] = Over
  BY DEF AheadOK
<1>3. /\ H[2] \in Outlook /\ Ahead(work[1], H[1], H[2]) /\ H[2].depth = Len(scopes)
      /\ \A l \in DOMAIN scopes : \A x \in Names :
           scopes[l][x].decl # 0 =>
             /\ scopes[l][x].decl \in DOMAIN ast
             /\ Met(work[1]) \subseteq Region[scopes[l][x].decl]
  <2>1. work[1].op # "leave"
    BY <1>1 DEF QuietItem, PlainOps
  <2> QED
    BY <1>1, <1>2, <2>1, HeadAhead
<1>4. LinksAfter(H, work, SeenLink')
  <2>1. \A l \in 1 .. H[2].depth : \A x \in Names :
          \/ scopes'[l][x].decl = scopes[l][x].decl
          \/ /\ l = H[2].depth /\ scopes'[l][x].decl \in DOMAIN ast
             /\ After[scopes'[l][x].decl] = H[2].rest /\ H[2].open = {}
    <3> SUFFICES ASSUME NEW l \in 1 .. H[2].depth, NEW x \in Names,
                        scopes'[l][x].decl # scopes[l][x].decl
                 PROVE  /\ l = H[2].depth /\ scopes'[l][x].decl \in DOMAIN ast
                        /\ After[scopes'[l][x].decl] = H[2].rest /\ H[2].open = {}
      OBVIOUS
    <3>1. work[1].op = "declare" => H[2].rest = After[n] /\ H[2].open = {}
      BY <1>3 DEF Ahead
    <3>2. l \in DOMAIN scopes
      BY <1>1, <1>3
    <3>3. work[1].op = "declare" /\ l = Len(scopes) /\ scopes'[l][x].decl = n
      BY <3>2, QuietDecls
    <3> QED
      BY <1>1, <1>3, <3>1, <3>3
  <2> QED
    BY <1>1, <1>2, <1>3, <2>1, AheadAfterKept
<1>5. Plain(Calls(work[1]), n) /\ Calls(work[1]) \in Seq(Item)
  BY <1>1, PlainCalls DEF Plain
<1>6. Orderly(Calls(work[1]), H[2])
  BY <1>1, <1>3, OrderlyCalls DEF Ahead
<1>7. \E M \in SUBSET DOMAIN ast :
        /\ \A i \in DOMAIN Calls(work[1]) : Met(Calls(work[1])[i]) \subseteq M
        /\ \A l \in 1 .. H[2].depth : \A x \in Names :
             scopes'[l][x].decl # 0 => M \subseteq Region'[scopes'[l][x].decl]
  <2>1. CASE work[1].op \in {"stmt", "expr"}
    <3>1. \A i \in DOMAIN Calls(work[1]) : Met(Calls(work[1])[i]) \subseteq Leads[n]
      BY <1>1, <1>5, PlainMet DEF Plain
    <3>2. n \in Met(work[1])
      BY <2>1 DEF Met, Direct
    <3>3. ASSUME NEW l \in 1 .. H[2].depth, NEW x \in Names, scopes'[l][x].decl # 0
          PROVE  Leads[n] \subseteq Region'[scopes'[l][x].decl]
      <4>1. scopes'[l][x].decl = scopes[l][x].decl /\ l \in DOMAIN scopes
        BY <1>1, <1>3, <2>1, QuietDecls
      <4>2. scopes[l][x].decl \in DOMAIN ast /\ n \in Region[scopes[l][x].decl]
        BY <1>3, <3>2, <3>3, <4>1
      <4> QED
        BY <1>1, <4>1, <4>2, ReachKept
    <3>4. Leads[n] \in SUBSET DOMAIN ast
      BY <1>1, LeadsFacts
    <3> QED
      BY <3>1, <3>3, <3>4
  <2>2. CASE work[1].op \notin {"stmt", "expr"}
    <3>1. Calls(work[1]) = <<>>
      BY <2>2 DEF Calls
    <3>2. \A i \in DOMAIN Calls(work[1]) : Met(Calls(work[1])[i]) \subseteq {}
      BY <3>1
    <3> QED
      BY <3>2
  <2> QED
    BY <2>1, <2>2
<1>8. PICK a \in Outlook : a.depth = H[2].depth /\ Laid(Calls(work[1]), SeenLink', a, H[2])
  BY <1>1, <1>3, <1>5, <1>6, <1>7, AheadItems
<1>9. a.depth = Len(scopes')
  BY <1>3, <1>8, QuietDecls
<1> QED
  BY <1>1, <1>2, <1>4, <1>5, <1>8, <1>9, AheadContinue

LEMMA StopAhead ==
  ASSUME AheadOK, StopStep \/ UNCHANGED vars
  PROVE  AheadOK'
<1>1. UNCHANGED <<ast, work, scopes, functions>>
  BY StopFacts
<1>2. AheadLink' = AheadLink /\ Outlook' = Outlook /\ (\A w : Met(w)' = Met(w))
  BY <1>1, AheadLinkKept
<1>3. After' = After /\ Succs' = Succs
  BY <1>1 DEF After, Follows, Under, Opens, Succs, IsKid, Entered, Callee
<1>4. Leads' = Leads
  BY <1>1, <1>3 DEF Leads, Shut
<1>5. Region' = Region
  BY <1>1, <1>3, <1>4 DEF Region
<1>6. SeenLink' = SeenLink
  BY <1>1, <1>2, <1>5 DEF SeenLink
<1> QED
  BY <1>1, <1>2, <1>6 DEF AheadOK, Values, Links, Over

(* A scope whose entries are parameters or none. *)
LEMMA PushedDecls ==
  ASSUME WalkInv, NEW s \in Scope, \A x \in Names : s[x].decl = 0, scopes' = Append(scopes, s)
  PROVE  /\ Len(scopes') = Len(scopes) + 1
         /\ \A l \in 1 .. Len(scopes) : scopes'[l] = scopes[l] /\ l \in DOMAIN scopes
         /\ \A l \in 1 .. Len(scopes) + 1 : \A x \in Names :
              scopes'[l][x].decl # 0 => /\ l \in DOMAIN scopes
                                        /\ scopes'[l][x].decl = scopes[l][x].decl
<1>1. scopes \in Seq(Scope) /\ DOMAIN scopes = 1 .. Len(scopes) /\ Len(scopes) \in Nat
  BY DEF WalkInv, IInv, ScopesOK
<1>2. /\ Len(scopes') = Len(scopes) + 1 /\ scopes'[Len(scopes) + 1] = s
      /\ \A l \in 1 .. Len(scopes) : scopes'[l] = scopes[l]
  BY <1>1, PushKeep
<1>3. \A l \in 1 .. Len(scopes) + 1 : l = Len(scopes) + 1 \/ l \in 1 .. Len(scopes)
  BY <1>1
<1> QED
  BY <1>1, <1>2, <1>3

(* A step that opens a scope and analyzes the kids of h in it: tail ends   *)
(* the scope, or the scope and the context.                                *)
LEMMA OpenAhead ==
  ASSUME WalkInv, UsersOK, StepKinds, work # <<>>, NEW H \in Values(work, Outlook),
         Links(H, work, SeenLink), H[1].depth = Len(scopes), H[Len(work) + 1] = Over,
         work[1].op # "leave", NEW s \in Scope, \A x \in Names : s[x].decl = 0,
         scopes' = Append(scopes, s), NEW h \in DOMAIN ast, Opens(h),
         \A d \in DOMAIN ast : Met(work[1]) \subseteq Region[d] =>
            \A i \in DOMAIN ast[h].kids : Leads[ast[h].kids[i]] \subseteq Region'[d],
         NEW tail \in Seq(Item), Continue(Each("stmt", ast[h].kids) \o tail),
         NEW b \in Outlook, b.depth = Len(scopes) + 1, b.rest = {}, b.open = {},
         Laid(tail, SeenLink', b, H[2])
  PROVE  AheadOK'
<1> DEFINE kids == ast[h].kids
           items == Each("stmt", kids)
           M == UNION {Leads[kids[i]] : i \in DOMAIN kids}
<1>1. /\ ast' = ast /\ ast \in Programs /\ scopes \in Seq(Scope) /\ Len(scopes) \in Nat
      /\ DOMAIN scopes = 1 .. Len(scopes)
  BY SuccsGrow DEF WalkInv, IInv, ScopesOK
<1>2. /\ kids \in Seq(DOMAIN ast) /\ items \in Seq(Item) /\ \A i \in DOMAIN kids : kids[i] \in DOMAIN ast
  BY NodeFacts, KidFacts, EachType, <1>1 DEF Ops
<1>3. /\ H[2] \in Outlook /\ H[2].depth = Len(scopes)
      /\ \A l \in DOMAIN scopes : \A x \in Names :
           scopes[l][x].decl # 0 =>
             /\ scopes[l][x].decl \in DOMAIN ast
             /\ Met(work[1]) \subseteq Region[scopes[l][x].decl]
  BY HeadAhead
<1>4. /\ Len(scopes') = Len(scopes) + 1
      /\ \A l \in 1 .. Len(scopes) : scopes'[l] = scopes[l] /\ l \in DOMAIN scopes
      /\ \A l \in 1 .. Len(scopes) + 1 : \A x \in Names :
           scopes'[l][x].decl # 0 => /\ l \in DOMAIN scopes
                                     /\ scopes'[l][x].decl = scopes[l][x].decl
  BY PushedDecls
<1>5. LinksAfter(H, work, SeenLink')
  <2>1. \A l \in 1 .. H[2].depth : \A x \in Names : scopes'[l][x].decl = scopes[l][x].decl
    BY <1>3, <1>4
  <2>2. H[2].depth <= Len(scopes)
    BY <1>1, <1>3
  <2> QED
    BY <2>1, <2>2, AheadAfterKept
<1>6. Orderly(items, b)
  <2>1. b.rest = Rest(h)
    BY DEF Rest
  <2> QED
    BY <1>1, <2>1, OrderlyKids
<1>7. M \in SUBSET DOMAIN ast
  BY <1>2, LeadsFacts
<1>8. \A i \in DOMAIN items : Met(items[i]) \subseteq M
  <2> SUFFICES ASSUME NEW i \in DOMAIN items PROVE Met(items[i]) \subseteq Leads[kids[i]] /\ i \in DOMAIN kids
    OBVIOUS
  <2>1. i \in DOMAIN kids /\ items[i].op = "stmt" /\ items[i].node = kids[i]
    BY DoFields DEF Each
  <2>2. Met(items[i]) = {kids[i]}
    BY <2>1 DEF Met, Direct, Begun
  <2> QED
    BY <1>2, <2>1, <2>2, LeadsFacts
<1>9. \A l \in 1 .. b.depth : \A x \in Names :
        scopes'[l][x].decl # 0 => M \subseteq Region'[scopes'[l][x].decl]
  BY <1>3, <1>4
<1> HIDE DEF M, items
<1>10. PICK a \in Outlook : a.depth = b.depth /\ Laid(items, SeenLink', a, b)
  BY <1>1, <1>2, <1>6, <1>7, <1>8, <1>9, AheadItems
<1>11. Laid(items \o tail, SeenLink', a, H[2])
  BY <1>2, <1>10, LaidJoin
<1>12. items \o tail \in Seq(Item) /\ Continue(items \o tail)
  BY <1>2, AppendedItems DEF items
<1> QED
  BY <1>1, <1>4, <1>5, <1>10, <1>11, <1>12, AheadContinue

LEMMA PairOfItems ==
  ASSUME NEW v \in Item, NEW w \in Item
  PROVE  <<v>> \o <<w>> = <<v, w>>
<1> DEFINE s == <<v>> \o <<w>>
<1>1. <<v>> \in Seq(Item) /\ <<w>> \in Seq(Item) /\ Len(<<v>>) = 1 /\ Len(<<w>>) = 1
  OBVIOUS
<1>2. /\ s \in Seq(Item) /\ Len(s) = 2
      /\ \A i \in 1 .. 2 : s[i] = IF i <= 1 THEN <<v>>[i] ELSE <<w>>[i - 1]
  BY <1>1, ConcatProperties
<1> HIDE DEF s
<1>3. s[1] = v /\ s[2] = w
  BY <1>2
<1>4. s = <<v, w>>
  BY <1>2, <1>3
<1> QED
  BY <1>4 DEF s

LEMMA MakeOutlook ==
  ASSUME NEW k \in Nat
  PROVE  \E b \in Outlook : b.depth = k + 1 /\ b.rest = {} /\ b.open = {}
<1> DEFINE b == [depth |-> k + 1, rest |-> {}, open |-> {}]
<1>1. b \in Outlook /\ b.depth = k + 1 /\ b.rest = {} /\ b.open = {}
  BY DEF Outlook
<1> QED
  BY <1>1

LEMMA EnterAhead ==
  ASSUME WalkInv, UsersOK, AheadOK, EnterStep
  PROVE  AheadOK'
<1> DEFINE n == work[1].node
           v == Do("leave", n)
<1>1. /\ work # <<>> /\ n \in DOMAIN ast /\ work[1].op = "stmt" /\ Opens(n)
      /\ Continue(Each("stmt", ast[n].kids) \o <<v>>) /\ ast' = ast /\ ast \in Programs
      /\ StepKinds /\ Len(scopes) \in Nat
  BY EnterFacts DEF WalkInv, IInv, ScopesOK, StepKinds, Opens
<1>2. PICK H \in Values(work, Outlook) :
        Links(H, work, SeenLink) /\ H[1].depth = Len(scopes) /\ H[Len(work) + 1] = Over
  BY DEF AheadOK
<1>3. H[2] \in Outlook /\ H[2].depth = Len(scopes)
  BY <1>1, <1>2, HeadAhead
<1>4. PICK s \in Scope : (\A x \in Names : s[x].decl = 0) /\ scopes' = Append(scopes, s)
  <2>1. CASE scopes' = Append(scopes, EmptyScope)
    BY <2>1, EmptyScopeOK, ScopeEntries, NewEntryFields
  <2>2. CASE scopes' = Append(scopes, ParamScope(n))
    BY <1>1, <2>2, ParamScopeOK, ScopeEntries
  <2> QED
    BY <2>1, <2>2, EnterFacts
<1>5. PICK b \in Outlook : b.depth = Len(scopes) + 1 /\ b.rest = {} /\ b.open = {}
  BY <1>1, MakeOutlook
<1>6. v \in Item /\ v.op = "leave"
  BY <1>1, LeaveFits, DoFields
<1> HIDE DEF v
<1>7. Laid(<<v>>, SeenLink', b, H[2])
  <2>1. Ahead(v, b, H[2])
    BY <1>3, <1>5, <1>6 DEF Ahead
  <2> QED
    BY <1>1, <1>3, <1>6, <2>1, LaidReturn
<1>8. ASSUME NEW d \in DOMAIN ast, Met(work[1]) \subseteq Region[d], NEW i \in DOMAIN ast[n].kids
      PROVE  Leads[ast[n].kids[i]] \subseteq Region'[d]
  <2>1. n \in Region[d]
    BY <1>1, <1>8 DEF Met, Direct
  <2>2. ast[n].kids[i] \in Succs[n] /\ ast[n].kids[i] \in DOMAIN ast
    BY <1>1, KidFacts DEF Succs
  <2>3. ast[n].kids[i] \in Region[d]
    BY <1>1, <2>1, <2>2, RegionFacts
  <2> QED
    BY <1>1, <2>3, ReachKept
<1>9. <<v>> \in Seq(Item)
  BY <1>6
<1> QED
  BY <1>1, <1>2, <1>4, <1>5, <1>7, <1>8, <1>9, OpenAhead

LEMMA LaunchAhead ==
  ASSUME WalkInv, UsersOK, AheadOK, Launch
  PROVE  AheadOK'
<1> DEFINE n == work[1].node
           w == Restore("endContext", n)
<1>1. /\ work # <<>> /\ n \in DOMAIN ast /\ work[1].op = "launch" /\ ast[n].kind = "call"
      /\ ast' = ast /\ IInv /\ ast \in Programs /\ StepKinds /\ Len(scopes) \in Nat
  BY LaunchFacts DEF WalkInv, IInv, ScopesOK, StepKinds
<1>2. PICK h \in DOMAIN ast :
        /\ ast[h].kind = "func" /\ Callee(h, ast[n].name) /\ scopes' = Append(scopes, ParamScope(h))
        /\ Continue(Each("stmt", ast[h].kids) \o <<Do("leave", h), Restore("endContext", n)>>)
  BY LaunchFacts
<1> DEFINE v == Do("leave", h)
<1>3. PICK H \in Values(work, Outlook) :
        Links(H, work, SeenLink) /\ H[1].depth = Len(scopes) /\ H[Len(work) + 1] = Over
  BY DEF AheadOK
<1>4. /\ H[2] \in Outlook /\ H[2].depth = Len(scopes) /\ ast[n].par # "regular"
  BY <1>1, <1>3, HeadAhead DEF Ahead
<1>5. PICK b \in Outlook : b.depth = Len(scopes) + 1 /\ b.rest = {} /\ b.open = {}
  BY <1>1, MakeOutlook
<1>6. v \in Item /\ v.op = "leave" /\ w \in Item /\ w.op = "endContext"
      /\ Continue(Each("stmt", ast[h].kids) \o <<v, w>>)
  BY <1>1, <1>2, LeaveFits, DoFields, RestoreFacts
<1> HIDE DEF v, w
<1>7. Laid(<<v>>, SeenLink', b, H[2])
  <2>1. Ahead(v, b, H[2])
    BY <1>4, <1>5, <1>6 DEF Ahead
  <2> QED
    BY <1>1, <1>4, <1>6, <2>1, LaidReturn
<1>8. Laid(<<w>>, SeenLink', H[2], H[2])
  <2>1. Ahead(w, H[2], H[2])
    BY <1>6 DEF Ahead, Direct, Begun
  <2> QED
    BY <1>1, <1>4, <1>6, <2>1, LaidReturn
<1>9. <<v, w>> \in Seq(Item) /\ Laid(<<v, w>>, SeenLink', b, H[2])
  <2>1. <<v>> \in Seq(Item) /\ <<w>> \in Seq(Item) /\ <<v, w>> \in Seq(Item)
    BY <1>6
  <2>2. <<v>> \o <<w>> = <<v, w>>
    BY <1>6, PairOfItems
  <2>3. Laid(<<v>> \o <<w>>, SeenLink', b, H[2])
    BY <1>7, <1>8, <2>1, LaidJoin
  <2>4. Laid(<<v, w>>, SeenLink', b, H[2])
    BY <2>2, <2>3, Zenon
  <2> QED
    BY <2>1, <2>4
<1>10. ASSUME NEW d \in DOMAIN ast, Met(work[1]) \subseteq Region[d], NEW i \in DOMAIN ast[h].kids
       PROVE  Leads[ast[h].kids[i]] \subseteq Region'[d]
  <2>1. n \in Region[d]
    BY <1>1, <1>10 DEF Met, Begun
  <2>2. IsKid(ast[h].kids[i], h) /\ ast[h].kids[i] \in DOMAIN ast
    BY <1>1, KidFacts
  <2>3. ast[h].kids[i] \in Succs[n]
    BY <1>1, <1>2, <1>4, <2>2 DEF Succs, Entered
  <2>4. ast[h].kids[i] \in Region[d]
    BY <1>1, <2>1, <2>3, RegionFacts
  <2> QED
    BY <1>1, <2>4, ReachKept
<1>11. ParamScope(h) \in Scope /\ \A x \in Names : ParamScope(h)[x].decl = 0
  BY <1>1, <1>2, ParamScopeOK, ScopeEntries
<1>12. Opens(h) /\ work[1].op # "leave"
  BY <1>1, <1>2 DEF Opens
<1> QED
  BY <1>1, <1>2, <1>3, <1>5, <1>6, <1>9, <1>10, <1>11, <1>12, OpenAhead

(* A step that suspends the context, and analyzes kids of its node.        *)
LEMMA InsideAhead ==
  ASSUME WalkInv, UsersOK, StepKinds, work # <<>>, NEW H \in Values(work, Outlook),
         Links(H, work, SeenLink), H[1].depth = Len(scopes), H[Len(work) + 1] = Over,
         work[1].op # "leave", scopes' = scopes,
         NEW items \in Seq(Item), Orderly(items, H[2]), NEW M \in SUBSET DOMAIN ast,
         \A i \in DOMAIN items : Met(items[i]) \subseteq M,
         \A d \in DOMAIN ast : Met(work[1]) \subseteq Region[d] => M \subseteq Region'[d],
         NEW w \in Item, w.op \in {"endContext", "endLoop"}, Continue(items \o <<w>>)
  PROVE  AheadOK'
<1>1. /\ ast' = ast /\ scopes \in Seq(Scope) /\ Len(scopes) \in Nat
      /\ DOMAIN scopes = 1 .. Len(scopes)
  BY SuccsGrow DEF WalkInv, IInv, ScopesOK
<1>2. /\ H[2] \in Outlook /\ H[2].depth = Len(scopes)
      /\ \A l \in DOMAIN scopes : \A x \in Names :
           scopes[l][x].decl # 0 =>
             /\ scopes[l][x].decl \in DOMAIN ast
             /\ Met(work[1]) \subseteq Region[scopes[l][x].decl]
  BY HeadAhead
<1>3. LinksAfter(H, work, SeenLink')
  <2>1. H[2].depth <= Len(scopes)
    BY <1>1, <1>2
  <2> QED
    BY <2>1, AheadAfterKept
<1>4. \A l \in 1 .. H[2].depth : \A x \in Names :
        scopes'[l][x].decl # 0 => M \subseteq Region'[scopes'[l][x].decl]
  BY <1>1, <1>2
<1>5. PICK a \in Outlook : a.depth = H[2].depth /\ Laid(items, SeenLink', a, H[2])
  BY <1>1, <1>2, <1>4, AheadItems
<1>6. Laid(<<w>>, SeenLink', H[2], H[2]) /\ <<w>> \in Seq(Item)
  <2>1. Ahead(w, H[2], H[2])
    BY DEF Ahead, Direct, Begun
  <2> QED
    BY <1>1, <1>2, <2>1, LaidReturn
<1>7. Laid(items \o <<w>>, SeenLink', a, H[2])
  BY <1>5, <1>6, LaidJoin
<1>8. items \o <<w>> \in Seq(Item)
  BY <1>6, AppendedItems
<1> QED
  BY <1>1, <1>2, <1>3, <1>5, <1>7, <1>8, AheadContinue

LEMMA ThreadBlockAhead ==
  ASSUME WalkInv, UsersOK, AheadOK, ThreadBlock
  PROVE  AheadOK'
<1> DEFINE n == work[1].node
           kids == ast[n].kids
           items == Each("stmt", kids)
           w == Restore("endContext", n)
<1>1. /\ work # <<>> /\ n \in DOMAIN ast /\ work[1].op = "stmt" /\ ast[n].kind = "thread"
      /\ Plain(items, n) /\ Continue(items \o <<w>>) /\ scopes' = scopes
      /\ IInv /\ ast \in Programs /\ StepKinds
  BY ThreadBlockFacts DEF WalkInv, IInv, StepKinds
<1>2. PICK H \in Values(work, Outlook) :
        Links(H, work, SeenLink) /\ H[1].depth = Len(scopes) /\ H[Len(work) + 1] = Over
  BY DEF AheadOK
<1>3. H[2] \in Outlook /\ H[2].rest = After[n] /\ H[2].open = {}
  BY <1>1, <1>2, HeadAhead DEF Ahead
<1>4. Orderly(items, H[2])
  <2>1. H[2].rest = Rest(n)
    BY <1>1, <1>3 DEF Rest, Opens
  <2> QED
    BY <1>1, <1>3, <2>1, OrderlyKids
<1>5. \A i \in DOMAIN items : Met(items[i]) \subseteq Leads[n]
  <2>1. \A i \in DOMAIN items : PlainItem(items[i], n)
    BY <1>1 DEF Plain
  <2> HIDE DEF items
  <2> QED
    BY <1>1, <2>1, PlainMet
<1>6. \A d \in DOMAIN ast : Met(work[1]) \subseteq Region[d] => Leads[n] \subseteq Region'[d]
  BY <1>1, ReachKept DEF Met, Direct
<1>7. items \in Seq(Item) /\ w \in Item /\ w.op = "endContext" /\ Leads[n] \in SUBSET DOMAIN ast
  BY <1>1, RestoreFacts, LeadsFacts DEF Plain
<1> HIDE DEF items, w
<1> QED
  BY <1>1, <1>2, <1>4, <1>5, <1>6, <1>7, InsideAhead

LEMMA ThreadedBodyAhead ==
  ASSUME WalkInv, UsersOK, AheadOK, ThreadedBody
  PROVE  AheadOK'
<1> DEFINE n == work[1].node
           k == ast[n].kids[4]
           v == Do("stmt", k)
           w == Restore("endLoop", n)
<1>1. /\ work # <<>> /\ n \in DOMAIN ast /\ work[1].op = "loop" /\ ast[n].kind = "for"
      /\ k \in DOMAIN ast /\ 4 \in DOMAIN ast[n].kids
      /\ Continue(<<v, w>>) /\ scopes' = scopes
      /\ IInv /\ ast \in Programs /\ StepKinds
  BY ThreadedBodyFacts DEF WalkInv, IInv, StepKinds, ThreadedLoops
<1>2. PICK H \in Values(work, Outlook) :
        Links(H, work, SeenLink) /\ H[1].depth = Len(scopes) /\ H[Len(work) + 1] = Over
  BY DEF AheadOK
<1>3. H[2] \in Outlook /\ H[2].rest = After[n] /\ H[2].open = {}
  BY <1>1, <1>2, HeadAhead DEF Ahead
<1>4. /\ v \in Item /\ v.op = "stmt" /\ v.node = k /\ w \in Item /\ w.op = "endLoop"
  BY <1>1, DoType, DoFields, RestoreFacts DEF Ops
<1>5. After[k] = H[2].rest
  <2>1. Len(ast[n].kids) = 4 /\ DOMAIN ast[n].kids = 1 .. 4
    <3>1. ast[n].kids \in Seq(DOMAIN ast) /\ Len(ast[n].kids) = 4
      BY <1>1, NodeFacts
    <3> QED
      BY <3>1
  <2>2. After[k] = {y \in DOMAIN ast : \E j \in DOMAIN ast[n].kids : 4 < j /\ y = ast[n].kids[j]}
                     \cup Rest(n)
    BY <1>1, AfterKid
  <2>3. \A j \in DOMAIN ast[n].kids : ~(4 < j)
    BY <2>1
  <2>4. After[k] = Rest(n)
    BY <2>2, <2>3
  <2> QED
    BY <1>1, <1>3, <2>4 DEF Rest, Opens
<1> HIDE DEF v, w
<1> DEFINE items == <<v>>
<1>6. items \in Seq(Item) /\ DOMAIN items = {1} /\ Len(items) = 1 /\ items[1] = v
  BY <1>4
<1>7. Continue(items \o <<w>>)
  <2>1. items \o <<w>> = <<v, w>>
    BY <1>4, PairOfItems
  <2> QED
    BY <1>1, <2>1 DEF Continue
<1> HIDE DEF items, k
<1>8. Orderly(items, H[2])
  <2>1. 2 .. Len(items) = {}
    BY <1>6
  <2>2. RestOf(items, 2, H[2]) = H[2].rest /\ OpenOf(items, 2, H[2]) = H[2].open
    BY <2>1 DEF RestOf, OpenOf
  <2> QED
    BY <1>3, <1>4, <1>5, <1>6, <2>2 DEF Orderly
<1>9. \A i \in DOMAIN items : Met(items[i]) \subseteq Leads[k]
  <2>1. Met(v) = {k}
    BY <1>4 DEF Met, Direct, Begun
  <2> QED
    BY <1>1, <1>6, <2>1, LeadsFacts
<1>10. \A d \in DOMAIN ast : Met(work[1]) \subseteq Region[d] => Leads[k] \subseteq Region'[d]
  <2>1. k \in Met(work[1])
    BY <1>1 DEF Met, Direct, k
  <2> QED
    BY <1>1, <2>1, ReachKept
<1>11. Leads[k] \in SUBSET DOMAIN ast
  BY <1>1, LeadsFacts
<1> QED
  BY <1>1, <1>2, <1>4, <1>6, <1>7, <1>8, <1>9, <1>10, <1>11, InsideAhead

LEMMA PopKeeps ==
  ASSUME scopes \in Seq(Scope), Len(scopes) >= 1, scopes' = SubSeq(scopes, 1, Len(scopes) - 1)
  PROVE  /\ Len(scopes') = Len(scopes) - 1
         /\ \A l \in 1 .. Len(scopes) - 1 : scopes'[l] = scopes[l]
<1>1. \A i \in 1 .. Len(scopes) - 1 : scopes[i] \in Scope
  OBVIOUS
<1>2. /\ Len(scopes') = IF 1 <= Len(scopes) - 1 THEN Len(scopes) - 1 ELSE 0
      /\ \A l \in 1 .. Len(scopes) - 1 : scopes'[l] = scopes[l]
  BY <1>1, SubSeqProperties
<1>3. \A k \in Nat : k >= 1 => (IF 1 <= k - 1 THEN k - 1 ELSE 0) = k - 1
  OBVIOUS
<1>4. Len(scopes) \in Nat
  OBVIOUS
<1>5. Len(scopes') = Len(scopes) - 1
  BY <1>2, <1>3, <1>4
<1> QED
  BY <1>2, <1>5

LEMMA ReturnAhead ==
  ASSUME WalkInv, UsersOK, AheadOK, Leave \/ EndLoop \/ EndContext
  PROVE  AheadOK'
<1>1. /\ work # <<>> /\ Continue(<<>>) /\ ast' = ast /\ StepKinds
      /\ scopes \in Seq(Scope) /\ Len(scopes) \in Nat
  BY ReturnFacts DEF WalkInv, IInv, ScopesOK, StepKinds
<1>2. PICK H \in Values(work, Outlook) :
        Links(H, work, SeenLink) /\ H[1].depth = Len(scopes) /\ H[Len(work) + 1] = Over
  BY DEF AheadOK
<1>3. H[2] \in Outlook /\ Ahead(work[1], H[1], H[2]) /\ H[2].depth \in Nat
      /\ (work[1].op # "leave" => H[2].depth = Len(scopes))
  BY <1>1, <1>2, HeadAhead
<1>4. /\ H[2].depth = Len(scopes') /\ H[2].depth <= Len(scopes)
      /\ \A l \in 1 .. H[2].depth : scopes'[l] = scopes[l]
  <2>1. CASE Leave
    <3>1. work[1].op = "leave" /\ scopes' = SubSeq(scopes, 1, Len(scopes) - 1)
      BY <2>1, ReturnFacts
    <3>2. Len(scopes) = H[2].depth + 1
      BY <1>2, <1>3, <3>1 DEF Ahead
    <3>3. Len(scopes) >= 1 /\ H[2].depth = Len(scopes) - 1
      BY <1>3, <3>2
    <3> QED
      BY <1>1, <3>1, <3>3, PopKeeps
  <2>2. CASE EndLoop \/ EndContext
    <3>1. scopes' = scopes /\ work[1].op # "leave"
      BY <2>2, ReturnFacts
    <3> QED
      BY <1>1, <1>3, <3>1
  <2> QED
    BY <2>1, <2>2
<1>5. LinksAfter(H, work, SeenLink')
  BY <1>1, <1>2, <1>4, AheadAfterKept
<1>6. Laid(<<>>, SeenLink', H[2], H[2])
  <2> DEFINE items == <<>>
  <2>1. items \in Seq(Item) /\ DOMAIN items = {}
    OBVIOUS
  <2> HIDE DEF items
  <2>2. Orderly(items, H[2]) /\ \A i \in DOMAIN items : Direct(items[i]) \subseteq DOMAIN ast
    BY <2>1 DEF Orderly
  <2> DEFINE g == [i \in 1 .. Len(items) + 1 |-> H[2]]
  <2>3. g \in Values(items, Outlook) /\ Links(g, items, SeenLink')
        /\ g[1] = H[2] /\ g[Len(items) + 1] = H[2]
    BY <1>3, <2>1 DEF Values, Links
  <2> QED
    BY <2>3 DEF Laid, items
<1> QED
  BY <1>1, <1>2, <1>4, <1>5, <1>6, NoItems, AheadContinue

LEMMA AheadStep ==
  ASSUME FrameInv, FrameInv', AheadOK, StepKinds
  PROVE  AheadOK'
<1>1. WalkInv /\ UsersOK /\ FramesOK /\ ScopesOK'
  BY DEF FrameInv, WalkInv, IInv
<1> QED
  BY <1>1, StopAhead, QuietAhead, EnterAhead, ThreadBlockAhead, ThreadedBodyAhead,
     LaunchAhead, ReturnAhead DEF StepKinds

LEMMA InitAhead == Init => AheadOK
<1> SUFFICES ASSUME Init PROVE AheadOK
  OBVIOUS
<1> DEFINE w == Do("stmt", 1)
<1>1. work = <<w>> /\ scopes = <<>> /\ ast \in Programs
  BY DEF Init
<1>2. 1 \in DOMAIN ast /\ After[1] = {}
  BY <1>1, AfterProgram
<1>3. w \in Item /\ w.op = "stmt" /\ w.node = 1
  BY <1>2, DoType, DoFields DEF Ops
<1> HIDE DEF w
<1> DEFINE a == [depth |-> 0, rest |-> {1}, open |-> {}]
<1>4. /\ a \in Outlook /\ a.depth = 0 /\ a.rest = {1} /\ a.open = {}
      /\ Over \in Outlook /\ Over.depth = 0 /\ Over.rest = {} /\ Over.open = {}
  BY <1>2 DEF Over, Outlook
<1> HIDE DEF a
<1>5. Ahead(w, a, Over)
  BY <1>2, <1>3, <1>4 DEF Ahead, Direct, Begun
<1>6. <<w, a, Over>> \in SeenLink
  <2>1. <<w, a, Over>> \in AheadLink
    BY <1>3, <1>4, <1>5 DEF AheadLink
  <2>2. 1 .. a.depth = {}
    BY <1>4
  <2> QED
    BY <2>1, <2>2 DEF SeenLink
<1>7. Laid(work, SeenLink, a, Over)
  BY <1>1, <1>3, <1>4, <1>6, LaidOne
<1> QED
  BY <1>1, <1>4, <1>7 DEF Laid, AheadOK

-----------------------------------------------------------------------------
(* Which marks may be out of date, and why that does not last. *)

(* The walk will come to the declaration d again, and then to everything   *)
(* that follows it in its scope.                                           *)
Doom(d) == ast[d].kind = "decl" /\ d \in Region[d] /\ Leading(work, d)

(* An update follows the declaration it was resolved to. *)
UsesFollow ==
  \A n \in DOMAIN ast :
    ast[n].kind = "update" /\ bound[n] > 0 =>
      bound[n] \in DOMAIN ast /\ ast[bound[n]].kind = "decl" /\ n \in Region[bound[n]]

(* A declaration is in scope once, or in a function that has called itself. *)
InScopeOnce ==
  \A d \in DOMAIN ast : \A l, m \in DOMAIN scopes : \A x, y \in Names :
    (l # m \/ x # y) /\ scopes[l][x].decl = d /\ scopes[m][y].decl = d => Doom(d)

(* A mark on a declaration is no news to its variable. *)
MarkKnown ==
  \A d \in DOMAIN ast : \A l \in DOMAIN scopes : \A x \in Names :
    scopes[l][x].decl = d /\ isShared[d] = "shared" => scopes[l][x].shared \/ Doom(d)

(* A locked update whose declaration is not marked is analyzed again. *)
MutexComes ==
  \A n, d \in DOMAIN ast :
    /\ ast[n].kind = "update" /\ bound[n] = d
    /\ isShared[n] = "shared" /\ isShared[d] # "shared"
    => Leading(work, n) \/ Doom(d)

MarkInv == UsesFollow /\ InScopeOnce /\ MarkKnown /\ MutexComes

LEMMA NodesCount ==
  ASSUME ast \in Programs
  PROVE  \A d \in DOMAIN ast : d # 0 /\ d > 0
<1>1. WellFormed(ast)
  BY ProgramsAssumption
<1>2. ast \in Seq(Node)
  BY <1>1 DEF WellFormed
<1> QED
  BY <1>2

(* At a declaration, all that follows it is still to be done. *)
LEMMA AtDeclaration ==
  ASSUME FrameInv, AheadOK, work # <<>>, NEW d \in DOMAIN ast, d = work[1].node,
         work[1].op \in {"stmt", "declare"}, NEW m \in Region[d]
  PROVE  Behind(m)
<1>1. WalkInv /\ UsersOK /\ ast \in Programs /\ work \in Seq(Item)
  BY DEF FrameInv, WalkInv, IInv, WorkOK
<1>2. PICK H \in Values(work, Outlook) :
        Links(H, work, SeenLink) /\ H[1].depth = Len(scopes) /\ H[Len(work) + 1] = Over
  BY DEF AheadOK
<1>3. H[2].rest = After[d]
  <2>1. Ahead(work[1], H[1], H[2])
    BY <1>1, <1>2, HeadAhead
  <2> QED
    BY <2>1 DEF Ahead
<1>4. PICK t \in After[d] : m \in Leads[t]
  BY <1>1, RegionFacts
<1>5. PICK i \in DOMAIN work : i # 1 /\ t \in Direct(work[i])
  BY <1>1, <1>2, <1>3, <1>4, RestAhead
<1> QED
  BY <1>4, <1>5 DEF Behind, Aims, Targets

LEMMA DoomStep ==
  ASSUME FrameInv, AheadOK, StepKinds, NEW d \in DOMAIN ast, Doom(d)
  PROVE  Doom(d)'
<1>1. WalkInv /\ ast' = ast
  BY SuccsGrow DEF FrameInv
<1>2. d \in Region'[d]
  BY <1>1, RegionGrows DEF Doom
<1>3. Leading(work, d)'
  <2>1. CASE work # <<>> /\ d = work[1].node /\ work[1].op = "stmt"
    <3>1. Behind(d)
      BY <2>1, AtDeclaration DEF Doom
    <3> QED
      BY <1>1, <3>1, BehindKept
  <2> QED
    BY <1>1, <2>1, LeadingStep DEF Doom
<1> QED
  BY <1>1, <1>2, <1>3 DEF Doom

(* Only its own analysis takes an update off the stack. *)
LEMMA UpdateLeads ==
  ASSUME WalkInv, StepKinds, NEW n \in DOMAIN ast, ast[n].kind = "update", Leading(work, n)
  PROVE  Leading(work, n)' \/ (Update /\ n = work[1].node)
<1>1. CASE work # <<>> /\ n = work[1].node /\ work[1].op = "stmt"
  <2>1. CASE StopStep \/ UNCHANGED vars
    <3>1. work' = work
      BY <2>1, StopFacts
    <3>2. PICK i \in DOMAIN work : Aims(work[i], n)
      BY DEF Leading
    <3>3. PICK w : w = work[i]
      OBVIOUS
    <3>4. Aims(w, n)'
      <4>1. Targets(w) \subseteq DOMAIN ast /\ w \in Item
        BY <3>3, TargetsInTree
      <4> QED
        BY <3>2, <3>3, <4>1, AimsGrow DEF Item
    <3> QED
      BY <3>1, <3>2, <3>3, <3>4 DEF Leading
  <2>2. CASE QuietStep
    BY <1>1, <2>2 DEF QuietStep, DeclarationValue, Declare, Store, IfStatement, ForLoop, Test,
       Operands, Discard, LaunchUnknown, Literal, Identifier, Operator, Operate, Negate,
       CallValue, Yield, At, nd
  <2>3. ~EnterStep /\ ~ThreadBlock /\ ~ThreadedBody /\ ~Launch
    BY <1>1, EnterFacts, ThreadBlockFacts, ThreadedBodyFacts, LaunchFacts
  <2>4. ~(Leave \/ EndLoop \/ EndContext)
    BY <1>1, ReturnFacts
  <2> QED
    BY <2>1, <2>2, <2>3, <2>4 DEF StepKinds
<1> QED
  BY <1>1, LeadingStep

(* What a step leaves of an entry that stands for a declaration. *)
Lasts(l, x) ==
  /\ l \in DOMAIN scopes /\ scopes'[l][x].decl = scopes[l][x].decl
  /\ scopes[l][x].shared => scopes'[l][x].shared

LEMMA FreshEntry ==
  ASSUME ContextOK, NEW type \in Types, NEW n \in Nat
  PROVE  Touch(NewEntry(type, n)).decl = n /\ Mark(Touch(NewEntry(type, n))) = "private"
<1>1. PICK b : b = NewEntry(type, n)
  OBVIOUS
<1>2. b \in Entry
  BY <1>1, NewEntryInv
<1>3. b.threads = <<>> /\ ~b.shared /\ b.decl = n
  BY <1>1 DEF NewEntry, NoEntry
<1>4. PICK t : t = Touch(b)
  OBVIOUS
<1>5. /\ t.decl = n /\ t \in Entry
      /\ t.shared => Len(t.threads) >= 2
      /\ t.threads = <<>> \/ t.threads = Append(<<>>, curThread)
  BY <1>2, <1>3, <1>4, TouchFields
<1>6. Len(t.threads) = 0 \/ Len(t.threads) = 1
  <2>1. curThread \in Nat
    BY DEF ContextOK
  <2>2. Len(Append(<<>>, curThread)) = 1 /\ Len(<<>>) = 0
    BY <2>1
  <2> QED
    BY <1>5, <2>2
<1>7. ~t.shared
  <2>1. \A k : k = 0 \/ k = 1 => ~(k >= 2)
    OBVIOUS
  <2> QED
    BY <1>5, <1>6, <2>1, Zenon
<1> QED
  BY <1>1, <1>4, <1>5, <1>7 DEF Mark

LEMMA DeclareEntry ==
  ASSUME FrameInv, FrameInv', Declare
  PROVE  LET n == work[1].node
         IN  /\ work # <<>> /\ n \in DOMAIN ast /\ work[1].op = "declare" /\ ast[n].kind = "decl"
             /\ ast' = ast /\ bound' = bound
             /\ isShared' = [isShared EXCEPT ![n] = "private"]
             /\ \A l \in DOMAIN scopes' : \A x \in Names :
                  \/ Lasts(l, x)
                  \/ l = Len(scopes) /\ x = ast[n].name /\ scopes'[l][x].decl = n
<1> DEFINE n == work[1].node
           e == Touch(NewEntry(nd.type, n))
<1>1. /\ ScopesOK /\ ScopesOK' /\ ContextOK /\ WalkInv /\ FramesOK /\ IInv /\ QuietStep
      /\ ast \in Programs /\ scopes \in Seq(Scope) /\ scopes' \in Seq(Scope)
      /\ DOMAIN scopes = 1 .. Len(scopes) /\ DOMAIN scopes' = 1 .. Len(scopes')
  BY DEF FrameInv, WalkInv, IInv, ScopesOK, QuietStep
<1>2. /\ work # <<>> /\ n \in DOMAIN ast /\ work[1].op = "declare" /\ ast[n].kind = "decl"
      /\ ast' = ast /\ bound' = bound /\ nd = ast[n]
  BY <1>1, QuietCalls DEF QuietItem, Declare, At, nd
<1>3. /\ isShared' = [isShared EXCEPT ![n] = Mark(e)]
      /\ Replaces(Len(scopes), nd.name, e)
  BY DEF Declare, Replaces
<1>4. nd.name \in Names /\ nd.type \in Types /\ n \in Nat
  <2>1. nd.name \in Names /\ nd.type \in Types
    BY <1>1, <1>2, NodeFacts
  <2>2. WellFormed(ast)
    BY <1>1, ProgramsAssumption
  <2>3. ast \in Seq(Node)
    BY <2>2 DEF WellFormed
  <2> QED
    BY <1>2, <2>1, <2>3
<1>5. Len(scopes) \in DOMAIN scopes
  BY <1>1, QuietDepth
<1>6. e.decl = n /\ Mark(e) = "private"
  BY <1>1, <1>4, FreshEntry
<1> HIDE DEF e
<1>7. isShared' = [isShared EXCEPT ![n] = "private"]
  BY <1>3, <1>6
<1>8. /\ Len(scopes') = Len(scopes)
      /\ \A m \in DOMAIN scopes : \A y \in Names :
           scopes'[m][y] = IF m = Len(scopes) /\ y = nd.name THEN e ELSE scopes[m][y]
  <2>1. PICK k, z : k = Len(scopes) /\ z = nd.name
    OBVIOUS
  <2>2. k \in DOMAIN scopes /\ z \in Names /\ Replaces(k, z, e)
    BY <1>3, <1>4, <1>5, <2>1
  <2>3. /\ Len(scopes') = Len(scopes)
        /\ \A m \in DOMAIN scopes : \A y \in Names :
             scopes'[m][y] = IF m = k /\ y = z THEN e ELSE scopes[m][y]
    <3>1. ScopesOK /\ ScopesOK'
      BY <1>1
    <3> QED
      BY <2>2, <3>1, BindAt
  <2> QED
    BY <2>1, <2>3
<1>9. ASSUME NEW l \in DOMAIN scopes', NEW x \in Names
      PROVE  \/ Lasts(l, x)
             \/ l = Len(scopes) /\ x = ast[n].name /\ scopes'[l][x].decl = n
  <2>1. l \in DOMAIN scopes
    BY <1>1, <1>8
  <2> QED
    BY <1>2, <1>6, <1>8, <2>1 DEF Lasts
<1> QED
  BY <1>2, <1>7, <1>9

LEMMA TouchLasts ==
  ASSUME IInv, ScopesOK', NEW k \in DOMAIN scopes, NEW y \in Names, scopes[k][y] \in Entry,
         scopes' = [scopes EXCEPT ![k][y] = Touch(scopes[k][y])]
  PROVE  /\ DOMAIN scopes' = DOMAIN scopes
         /\ \A l \in DOMAIN scopes : \A x \in Names : Lasts(l, x)
         /\ scopes'[k][y] = Touch(scopes[k][y])
<1> DEFINE e == Touch(scopes[k][y])
<1>1. e.decl = scopes[k][y].decl /\ (scopes[k][y].shared => e.shared)
  BY TouchFields DEF IInv
<1> HIDE DEF e
<1>2. Replaces(k, y, e) /\ ScopesOK
  BY DEF Replaces, e, IInv
<1>3. /\ Len(scopes') = Len(scopes)
      /\ \A l \in DOMAIN scopes : \A x \in Names :
           scopes'[l][x] = IF l = k /\ x = y THEN e ELSE scopes[l][x]
  BY <1>2, BindAt
<1>4. DOMAIN scopes' = DOMAIN scopes
  BY <1>2 DEF Replaces
<1> QED
  BY <1>1, <1>3, <1>4 DEF Lasts, e

(* Only a declaration brings another one into scope. *)
LEMMA EntriesLast ==
  ASSUME FrameInv, FrameInv', StepKinds, ~Declare, NEW l \in DOMAIN scopes', NEW x \in Names,
         scopes'[l][x].decl # 0
  PROVE  Lasts(l, x)
<1>1. /\ IInv /\ WalkInv /\ ScopesOK /\ ScopesOK' /\ ast \in Programs
      /\ scopes \in Seq(Scope) /\ Len(scopes) \in Nat /\ DOMAIN scopes = 1 .. Len(scopes)
      /\ scopes' \in Seq(Scope) /\ Len(scopes') \in Nat /\ DOMAIN scopes' = 1 .. Len(scopes')
  BY DEF FrameInv, WalkInv, IInv, ScopesOK
<1>2. CASE scopes' = scopes
  BY <1>2 DEF Lasts
<1>3. CASE QuietStep
  <2>1. CASE Touches
    BY <1>1, <2>1, TouchLasts DEF Touches
  <2>2. ~Declares
    BY <1>3 DEF QuietStep, DeclarationValue, Update, Store, IfStatement, ForLoop, Test,
       Operands, Discard, LaunchUnknown, Literal, Identifier, Operator, Operate, Negate,
       CallValue, Yield, Declares, At
  <2> QED
    BY <1>1, <1>2, <1>3, <2>1, <2>2, QuietScopes
<1>4. CASE EnterStep \/ Launch
  <2>1. PICK s \in Scope : (\A y \in Names : s[y].decl = 0) /\ scopes' = Append(scopes, s)
    <3>1. \/ scopes' = Append(scopes, EmptyScope)
          \/ \E h \in DOMAIN ast : scopes' = Append(scopes, ParamScope(h))
      BY <1>1, <1>4, EnterFacts, LaunchFacts
    <3> QED
      BY <1>1, <3>1, EmptyScopeOK, ParamScopeOK, ScopeEntries, NewEntryFields
  <2>2. /\ Len(scopes') = Len(scopes) + 1
        /\ \A m \in 1 .. Len(scopes) : scopes'[m] = scopes[m]
        /\ scopes'[Len(scopes) + 1] = s
    BY <1>1, <2>1, PushKeep
  <2>3. l \in 1 .. Len(scopes)
    BY <1>1, <2>1, <2>2
  <2> QED
    BY <1>1, <2>2, <2>3 DEF Lasts
<1>5. CASE Leave
  <2>1. scopes' = SubSeq(scopes, 1, Len(scopes) - 1)
    BY <1>1, <1>5, ReturnFacts
  <2>2. Len(scopes) >= 1
    <3> SUFFICES ASSUME Len(scopes) = 0 PROVE FALSE
      BY <1>1
    <3>1. Len(scopes') = 0
      BY <1>1, <2>1, SubSeqProperties
    <3> QED
      BY <1>1, <3>1
  <2>3. /\ Len(scopes') = Len(scopes) - 1
        /\ \A m \in 1 .. Len(scopes) - 1 : scopes'[m] = scopes[m]
    BY <1>1, <2>1, <2>2, PopKeeps
  <2>4. l \in 1 .. Len(scopes) - 1 /\ l \in 1 .. Len(scopes)
    BY <1>1, <2>3
  <2> QED
    BY <1>1, <2>3, <2>4 DEF Lasts
<1>6. CASE (StopStep \/ UNCHANGED vars) \/ ThreadBlock \/ ThreadedBody \/ EndLoop \/ EndContext
  BY <1>1, <1>2, <1>6, StopFacts, ThreadBlockFacts, ThreadedBodyFacts, ReturnFacts
<1> QED
  BY <1>3, <1>4, <1>5, <1>6 DEF StepKinds

LEMMA OnceStep ==
  ASSUME FrameInv, FrameInv', AheadOK, InScopeOnce, StepKinds
  PROVE  InScopeOnce'
<1>1. WalkInv /\ UsersOK /\ ast' = ast
  BY SuccsGrow DEF FrameInv
<1> SUFFICES ASSUME NEW d \in DOMAIN ast, NEW l \in DOMAIN scopes', NEW m \in DOMAIN scopes',
                    NEW x \in Names, NEW y \in Names, l # m \/ x # y,
                    scopes'[l][x].decl = d, scopes'[m][y].decl = d
             PROVE  Doom(d)'
  BY <1>1 DEF InScopeOnce
<1>2. d # 0
  BY <1>1, NodesCount DEF WalkInv, IInv
<1>3. CASE Lasts(l, x) /\ Lasts(m, y)
  <2>1. Doom(d)
    BY <1>3 DEF Lasts, InScopeOnce
  <2> QED
    BY <2>1, DoomStep
<1>4. CASE Declare /\ ~(Lasts(l, x) /\ Lasts(m, y))
  <2> DEFINE n == work[1].node
  <2>1. work # <<>> /\ work[1].op = "declare" /\ n = d /\ ast[d].kind = "decl"
    BY <1>4, DeclareEntry
  <2>2. PICK k \in DOMAIN scopes, z \in Names : scopes[k][z].decl = d
    BY <1>4, DeclareEntry DEF Lasts
  <2>3. d \in Region[d]
    <3>1. PICK H \in Values(work, Outlook) :
            Links(H, work, SeenLink) /\ H[1].depth = Len(scopes) /\ H[Len(work) + 1] = Over
      BY DEF AheadOK
    <3>2. Met(work[1]) \subseteq Region[scopes[k][z].decl]
      BY <1>1, <1>2, <2>1, <2>2, <3>1, HeadAhead
    <3>3. d \in Met(work[1])
      BY <2>1 DEF Met, Begun
    <3> QED
      BY <2>2, <3>2, <3>3
  <2>4. Leading(work, d)'
    BY <1>1, <2>1, <2>3, AtDeclaration, BehindKept
  <2>5. d \in Region'[d]
    BY <1>1, <2>3, RegionGrows
  <2> QED
    BY <1>1, <2>1, <2>4, <2>5 DEF Doom
<1> QED
  BY <1>2, <1>3, <1>4, EntriesLast

LEMMA CalmMarks ==
  ASSUME WalkInv, StepKinds, ~Update, ~Declare
  PROVE  isShared' = isShared
<1>1. CASE QuietStep
  BY <1>1 DEF QuietStep, DeclarationValue, Store, IfStatement, ForLoop, Test, Operands,
     Discard, LaunchUnknown, Literal, Identifier, Operator, Operate, Negate, CallValue,
     Yield, tree
<1>2. CASE StopStep \/ UNCHANGED vars
  BY <1>2, StopFacts
<1>3. CASE EnterStep
  BY <1>3, EnterFacts DEF tree
<1>4. CASE ThreadBlock \/ ThreadedBody \/ Launch
  BY <1>4, ThreadBlockFacts, ThreadedBodyFacts, LaunchFacts DEF tree
<1>5. CASE Leave \/ EndLoop \/ EndContext
  BY <1>5, ReturnFacts DEF tree
<1> QED
  BY <1>1, <1>2, <1>3, <1>4, <1>5 DEF StepKinds

(* What a step that neither declares nor updates a variable leaves of it. *)
LEMMA CalmStep ==
  ASSUME FrameInv, FrameInv', AheadOK, MarkInv, StepKinds, ~Update, ~Declare
  PROVE  UsesFollow' /\ MarkKnown' /\ MutexComes'
<1>1. WalkInv /\ UsersOK /\ ast' = ast /\ isShared' = isShared
  BY SuccsGrow, CalmMarks DEF FrameInv
<1>2. \A u \in DOMAIN ast : ast[u].kind = "update" => bound'[u] = bound[u]
  BY <1>1, UpdatesKept
<1>3. 0 \notin DOMAIN ast
  BY <1>1, NodesCount DEF WalkInv, IInv
<1>4. UsesFollow'
  BY <1>1, <1>2, RegionGrows DEF MarkInv, UsesFollow
<1>5. MarkKnown'
  <2> SUFFICES ASSUME NEW d \in DOMAIN ast, NEW l \in DOMAIN scopes', NEW x \in Names,
                      scopes'[l][x].decl = d, isShared[d] = "shared"
               PROVE  scopes'[l][x].shared \/ Doom(d)'
    BY <1>1 DEF MarkKnown
  <2>1. Lasts(l, x)
    BY <1>3, EntriesLast
  <2>2. scopes[l][x].shared \/ Doom(d)
    BY <2>1 DEF Lasts, MarkInv, MarkKnown
  <2> QED
    BY <2>1, <2>2, DoomStep DEF Lasts
<1>6. MutexComes'
  <2> SUFFICES ASSUME NEW n \in DOMAIN ast, NEW d \in DOMAIN ast, ast[n].kind = "update",
                      bound[n] = d, isShared[n] = "shared", isShared[d] # "shared"
               PROVE  Leading(work, n)' \/ Doom(d)'
    BY <1>1, <1>2 DEF MutexComes
  <2>1. Leading(work, n) \/ Doom(d)
    BY DEF MarkInv, MutexComes
  <2> QED
    BY <1>1, <2>1, UpdateLeads, DoomStep
<1> QED
  BY <1>4, <1>5, <1>6

(* A declaration unmarks its node: the updates of an earlier walk through  *)
(* the function come after it, and are analyzed again.                     *)
LEMMA UnmarkStep ==
  ASSUME FrameInv, FrameInv', AheadOK, MarkInv, StepKinds, Declare
  PROVE  UsesFollow' /\ MarkKnown' /\ MutexComes'
<1> DEFINE c == work[1].node
<1>1. /\ WalkInv /\ UsersOK /\ ast' = ast /\ bound' = bound
      /\ work # <<>> /\ c \in DOMAIN ast /\ work[1].op = "declare" /\ ast[c].kind = "decl"
      /\ isShared' = [isShared EXCEPT ![c] = "private"]
  BY DeclareEntry DEF FrameInv
<1>2. DOMAIN isShared = DOMAIN ast
  BY <1>1 DEF WalkInv, IInv, TreeOK
<1>3. isShared'[c] = "private" /\ \A u \in DOMAIN ast : u # c => isShared'[u] = isShared[u]
  BY <1>1, <1>2
<1>4. ~Update
  BY <1>1 DEF Update, At
<1>5. UsesFollow'
  BY <1>1, RegionGrows DEF MarkInv, UsesFollow
<1>6. MarkKnown'
  <2> SUFFICES ASSUME NEW d \in DOMAIN ast, NEW l \in DOMAIN scopes', NEW x \in Names,
                      scopes'[l][x].decl = d, isShared'[d] = "shared"
               PROVE  scopes'[l][x].shared \/ Doom(d)'
    BY <1>1 DEF MarkKnown
  <2>1. d # c /\ isShared[d] = "shared"
    BY <1>3
  <2>2. Lasts(l, x)
    BY <2>1, DeclareEntry
  <2>3. scopes[l][x].shared \/ Doom(d)
    BY <2>1, <2>2 DEF Lasts, MarkInv, MarkKnown
  <2> QED
    BY <2>2, <2>3, DoomStep DEF Lasts
<1>7. MutexComes'
  <2> SUFFICES ASSUME NEW n \in DOMAIN ast, NEW d \in DOMAIN ast, ast[n].kind = "update",
                      bound[n] = d, isShared'[n] = "shared", isShared'[d] # "shared"
               PROVE  Leading(work, n)' \/ Doom(d)'
    BY <1>1 DEF MutexComes
  <2>1. isShared[n] = "shared"
    BY <1>3
  <2>2. CASE d = c
    <3>1. n \in Region[d]
      <4>1. d > 0
        BY <1>1, NodesCount DEF WalkInv, IInv
      <4> QED
        BY <4>1 DEF MarkInv, UsesFollow
    <3>2. Behind(n)
      BY <1>1, <2>2, <3>1, AtDeclaration
    <3> QED
      BY <1>1, <3>2, BehindKept
  <2>3. CASE d # c
    <3>1. Leading(work, n) \/ Doom(d)
      BY <1>3, <2>1, <2>3 DEF MarkInv, MutexComes
    <3> QED
      BY <1>1, <1>4, <3>1, UpdateLeads, DoomStep
  <2> QED
    BY <2>2, <2>3
<1> QED
  BY <1>5, <1>6, <1>7

LEMMA UpdateEntry ==
  ASSUME FrameInv, FrameInv', Update
  PROVE  LET n == work[1].node
             x == ast[n].name
         IN  /\ work # <<>> /\ n \in DOMAIN ast /\ work[1].op = "stmt" /\ ast[n].kind = "update"
             /\ x \in Names /\ ast' = ast
             /\ \E l \in DOMAIN scopes :
                  /\ l \in DOMAIN scopes' /\ Lasts(l, x)
                  /\ bound' = [bound EXCEPT ![n] = scopes[l][x].decl]
                  /\ \A u \in DOMAIN ast :
                       isShared'[u] = IF u = n \/ u = scopes[l][x].decl
                                      THEN Mark(scopes'[l][x]) ELSE isShared[u]
<1> DEFINE n == work[1].node
           x == ast[n].name
<1>1. /\ work # <<>> /\ n \in DOMAIN ast /\ work[1].op = "stmt" /\ ast[n].kind = "update"
      /\ x \in Names /\ ast' = ast
  BY UpdateFacts DEF FrameInv
<1>2. /\ x = nd.name /\ IInv /\ ScopesOK /\ ScopesOK' /\ ContextOK /\ DOMAIN isShared = DOMAIN ast
  BY DEF FrameInv, WalkInv, IInv, TreeOK, nd
<1>3. PICK l \in DOMAIN scopes :
        /\ Binds(l, x)
        /\ scopes' = [scopes EXCEPT ![l][x] = Touch(scopes[l][x])]
        /\ isShared' = [m \in DOMAIN isShared |->
                          IF m \in {n, Touch(scopes[l][x]).decl} THEN Mark(Touch(scopes[l][x]))
                          ELSE isShared[m]]
        /\ bound' = [bound EXCEPT ![n] = Touch(scopes[l][x]).decl]
  BY <1>2 DEF Update
<1>4. scopes[l][x] \in Entry
  BY <1>1, <1>2, <1>3, BoundEntry
<1>5. Touch(scopes[l][x]).decl = scopes[l][x].decl
  BY <1>2, <1>4, TouchFields
<1>6. /\ DOMAIN scopes' = DOMAIN scopes /\ Lasts(l, x)
      /\ scopes'[l][x] = Touch(scopes[l][x])
  <2>1. PICK y : y = x
    OBVIOUS
  <2>2. /\ y \in Names /\ scopes[l][y] \in Entry
        /\ scopes' = [scopes EXCEPT ![l][y] = Touch(scopes[l][y])]
    BY <1>1, <1>3, <1>4, <2>1
  <2>3. /\ DOMAIN scopes' = DOMAIN scopes /\ Lasts(l, y)
        /\ scopes'[l][y] = Touch(scopes[l][y])
    BY <1>2, <2>2, TouchLasts
  <2> QED
    BY <2>1, <2>3 DEF Lasts
<1>7. ASSUME NEW u \in DOMAIN ast
      PROVE  isShared'[u] = IF u = n \/ u = scopes[l][x].decl
                            THEN Mark(scopes'[l][x]) ELSE isShared[u]
  BY <1>2, <1>3, <1>5, <1>6
<1> QED
  BY <1>1, <1>3, <1>5, <1>6, <1>7

(* An update gives its declaration the mark it gets itself. *)
LEMMA RemarkStep ==
  ASSUME FrameInv, FrameInv', AheadOK, MarkInv, StepKinds, Update
  PROVE  UsesFollow' /\ MarkKnown' /\ MutexComes'
<1>1. PICK n, x : n = work[1].node /\ x = ast[n].name
  OBVIOUS
<1>2. /\ work # <<>> /\ n \in DOMAIN ast /\ work[1].op = "stmt" /\ ast[n].kind = "update"
      /\ x \in Names /\ ast' = ast
  BY <1>1, UpdateEntry
<1>3. PICK l \in DOMAIN scopes :
        /\ l \in DOMAIN scopes' /\ Lasts(l, x)
        /\ bound' = [bound EXCEPT ![n] = scopes[l][x].decl]
        /\ \A u \in DOMAIN ast :
             isShared'[u] = IF u = n \/ u = scopes[l][x].decl
                            THEN Mark(scopes'[l][x]) ELSE isShared[u]
  BY <1>1, UpdateEntry
<1>4. PICK c : c = scopes[l][x].decl
  OBVIOUS
<1>5. /\ WalkInv /\ UsersOK /\ ast \in Programs /\ bound \in [DOMAIN ast -> Nat \cup {-1}]
      /\ Mark(scopes'[l][x]) = "shared" <=> scopes'[l][x].shared
      /\ ~Declare
  BY <1>2 DEF FrameInv, WalkInv, IInv, TreeOK, Mark, Declare, At
<1>6. \A d \in DOMAIN ast : d # 0 /\ d > 0
  BY <1>5, NodesCount
<1>7. bound'[n] = c /\ \A u \in DOMAIN ast : u # n => bound'[u] = bound[u]
  BY <1>2, <1>3, <1>4, <1>5
<1>8. c # 0 => c \in DOMAIN ast /\ ast[c].kind = "decl"
  BY <1>2, <1>4, <1>5 DEF UsersOK, EntryUsed
<1>9. c # 0 => n \in Region[c]
  <2>1. PICK H \in Values(work, Outlook) :
          Links(H, work, SeenLink) /\ H[1].depth = Len(scopes) /\ H[Len(work) + 1] = Over
    BY DEF AheadOK
  <2>2. scopes[l][x].decl # 0 => Met(work[1]) \subseteq Region[scopes[l][x].decl]
    BY <1>2, <1>5, <2>1, HeadAhead
  <2>3. n \in Met(work[1])
    BY <1>1, <1>2 DEF Met, Direct
  <2> QED
    BY <1>4, <2>2, <2>3
<1>10. UsesFollow'
  <2> SUFFICES ASSUME NEW u \in DOMAIN ast, ast[u].kind = "update", bound'[u] > 0
               PROVE  /\ bound'[u] \in DOMAIN ast /\ ast[bound'[u]].kind = "decl"
                      /\ u \in Region'[bound'[u]]
    BY <1>2 DEF UsesFollow
  <2>1. CASE u = n
    <3>1. c # 0
      BY <1>7, <2>1
    <3>2. Region[c] \subseteq Region'[c]
      BY <1>5, <1>8, <3>1, RegionGrows
    <3> QED
      BY <1>7, <1>8, <1>9, <2>1, <3>1, <3>2
  <2>2. CASE u # n
    <3>1. /\ bound[u] \in DOMAIN ast /\ ast[bound[u]].kind = "decl" /\ u \in Region[bound[u]]
          /\ bound'[u] = bound[u]
      BY <1>7, <2>2 DEF MarkInv, UsesFollow
    <3>2. Region[bound[u]] \subseteq Region'[bound[u]]
      BY <1>5, <3>1, RegionGrows
    <3> QED
      BY <3>1, <3>2
  <2> QED
    BY <2>1, <2>2
<1>11. MarkKnown'
  <2> SUFFICES ASSUME NEW d \in DOMAIN ast, NEW m \in DOMAIN scopes', NEW y \in Names,
                      scopes'[m][y].decl = d, isShared'[d] = "shared"
               PROVE  scopes'[m][y].shared \/ Doom(d)'
    BY <1>2 DEF MarkKnown
  <2>1. Lasts(m, y)
    BY <1>5, <1>6, EntriesLast
  <2>2. m \in DOMAIN scopes /\ scopes[m][y].decl = d
    BY <2>1 DEF Lasts
  <2>3. d # n
    BY <1>2, <1>5, <1>6, <2>2 DEF UsersOK, EntryUsed
  <2>4. CASE d = c
    <3>1. scopes'[l][x].shared
      BY <1>3, <1>4, <1>5, <2>4
    <3>2. CASE m = l /\ y = x
      BY <3>1, <3>2
    <3>3. CASE m # l \/ y # x
      <4>1. Doom(d)
        BY <1>2, <1>4, <2>2, <2>4, <3>3 DEF MarkInv, InScopeOnce
      <4> QED
        BY <4>1, DoomStep
    <3> QED
      BY <3>2, <3>3
  <2>5. CASE d # c
    <3>1. isShared[d] = "shared"
      BY <1>3, <1>4, <2>3, <2>5
    <3>2. scopes[m][y].shared \/ Doom(d)
      BY <2>2, <3>1 DEF MarkInv, MarkKnown
    <3> QED
      BY <2>1, <3>2, DoomStep DEF Lasts
  <2> QED
    BY <2>4, <2>5
<1>12. MutexComes'
  <2> SUFFICES ASSUME NEW u \in DOMAIN ast, NEW d \in DOMAIN ast, ast[u].kind = "update",
                      bound'[u] = d, isShared'[u] = "shared", isShared'[d] # "shared"
               PROVE  Leading(work, u)' \/ Doom(d)'
    BY <1>2 DEF MutexComes
  <2>1. u # n
    BY <1>3, <1>4, <1>7
  <2>2. bound[u] = d /\ ast[d].kind = "decl"
    BY <1>6, <1>7, <2>1 DEF MarkInv, UsesFollow
  <2>3. u # c /\ isShared[u] = "shared"
    <3>1. u # c
      BY <1>6, <1>8
    <3> QED
      BY <1>3, <1>4, <2>1, <3>1
  <2>4. CASE isShared[d] # "shared"
    <3>1. Leading(work, u) \/ Doom(d)
      BY <2>2, <2>3, <2>4 DEF MarkInv, MutexComes
    <3> QED
      BY <1>1, <1>5, <2>1, <3>1, UpdateLeads, DoomStep
  <2>5. CASE isShared[d] = "shared"
    <3>1. d = c /\ ~scopes'[l][x].shared
      BY <1>2, <1>3, <1>4, <1>5, <2>2, <2>5
    <3>2. ~scopes[l][x].shared
      BY <1>3, <3>1 DEF Lasts
    <3>3. Doom(d)
      BY <1>2, <1>4, <2>5, <3>1, <3>2 DEF MarkInv, MarkKnown
    <3> QED
      BY <3>3, DoomStep
  <2> QED
    BY <2>4, <2>5
<1> QED
  BY <1>10, <1>11, <1>12

LEMMA MarkInvStep ==
  ASSUME FrameInv, FrameInv', AheadOK, MarkInv, StepKinds
  PROVE  MarkInv'
<1>1. InScopeOnce'
  BY OnceStep DEF MarkInv
<1>2. UsesFollow' /\ MarkKnown' /\ MutexComes'
  BY CalmStep, UnmarkStep, RemarkStep
<1> QED
  BY <1>1, <1>2 DEF MarkInv

LEMMA InitMarks == Init => MarkInv
<1> SUFFICES ASSUME Init PROVE MarkInv
  OBVIOUS
<1>1. /\ scopes = <<>> /\ ast \in Programs
      /\ \A n \in DOMAIN ast : bound[n] = -1 /\ isShared[n] = "unset"
  BY DEF Init
<1>2. DOMAIN scopes = {}
  BY <1>1
<1>3. UsesFollow
  BY <1>1 DEF UsesFollow
<1> QED
  BY <1>1, <1>2, <1>3 DEF MarkInv, InScopeOnce, MarkKnown, MutexComes

(* Nothing is left to be done when the walk ends. *)
LEMMA MarksSettle ==
  ASSUME MarkInv, EndsEmpty
  PROVE  LockedUpdateHasMutex
<1> SUFFICES ASSUME work = <<>>, NEW n \in DOMAIN ast, ast[n].kind = "update",
                    isShared[n] = "shared", bound[n] > 0
             PROVE  isShared[bound[n]] = "shared"
  BY DEF LockedUpdateHasMutex, EndsEmpty
<1>1. \A m : ~Leading(work, m)
  BY DEF Leading
<1>2. \A d : ~Doom(d)
  BY <1>1 DEF Doom
<1>3. bound[n] \in DOMAIN ast
  BY DEF MarkInv, UsesFollow
<1> QED
  BY <1>1, <1>2, <1>3 DEF MarkInv, MutexComes

(* Every update that is marked, and so emitted inside lock_x, follows a    *)
(* marked declaration: in every accepted tree the declaration it was       *)
(* resolved to is marked too, however often its function is analyzed again *)
(* and whatever it calls.  (lock_x is then defined if that declaration     *)
(* stands at the top level of the program.)                                *)
THEOREM LockedUpdateHasMutexHolds == Spec => []LockedUpdateHasMutex
<1>1. Init => FrameInv /\ AheadOK /\ MarkInv /\ EndsEmpty
  BY InitFrameInv, InitAhead, InitMarks DEF Init, EndsEmpty
<1>2. FrameInv /\ AheadOK /\ [Next]_vars => FrameInv' /\ AheadOK'
  BY EveryStep, NextFrames, AheadStep
<1>3. FrameInv /\ AheadOK /\ MarkInv /\ [Next]_vars => MarkInv'
  BY EveryStep, NextFrames, MarkInvStep
<1>4. FrameInv /\ EndsEmpty /\ [Next]_vars => EndsEmpty'
  BY EndsStep DEF FrameInv
<1>5. MarkInv /\ EndsEmpty => LockedUpdateHasMutex
  BY MarksSettle
<1> QED
  BY <1>1, <1>2, <1>3, <1>4, <1>5, PTL DEF Spec

-----------------------------------------------------------------------------
(* All of it as one invariant, for an analysis that does not begin with    *)
(* the behaviour: that of the compiler begins when the text has been read. *)

AnalyzerInv ==
  /\ FrameInv /\ ContextsNest /\ CapturedOnce /\ CapturedFits /\ ReadsCaptured
  /\ UpdatesMarked /\ TypesPriced /\ Pending /\ AheadOK /\ MarkInv /\ EndsEmpty

LEMMA AnalyzerStarts == Init => AnalyzerInv
<1>1. Init => CapturedOnce /\ EndsEmpty
  BY DEF Init, CapturedOnce, ThreadedLoops, EndsEmpty
<1> QED
  BY <1>1, InitNest, InitFrameInv, InitCapturedFits, InitReads, InitUpdates, InitPrice, InitPending,
     InitAhead, InitMarks DEF AnalyzerInv

LEMMA AnalyzerSteps == AnalyzerInv /\ [Next]_vars => AnalyzerInv'
<1> SUFFICES ASSUME AnalyzerInv, [Next]_vars PROVE AnalyzerInv'
  OBVIOUS
<1>1. FrameInv /\ FrameInv' /\ StepKinds /\ WalkInv /\ IInv
  BY NextFrames, EveryStep DEF AnalyzerInv, FrameInv, WalkInv
<1>2. CapturedOnce' /\ CapturedFits' /\ EndsEmpty'
  BY <1>1, CaptureStep, CapturedFitsStep, EndsStep DEF AnalyzerInv
<1>3. ReadsCaptured' /\ UpdatesMarked'
  BY <1>1, ReadsStep, MarkedStep DEF AnalyzerInv
<1>4. TypesPriced' /\ Pending'
  BY <1>1, PriceStep, PendingStep DEF AnalyzerInv
<1>5. AheadOK' /\ MarkInv'
  BY <1>1, AheadStep, MarkInvStep DEF AnalyzerInv
<1>6. ContextsNest'
  BY <1>1, ContextsNestStep DEF AnalyzerInv, FrameInv
<1> QED
  BY <1>1, <1>2, <1>3, <1>4, <1>5, <1>6 DEF AnalyzerInv

LEMMA AnalyzerEnsures ==
  ASSUME AnalyzerInv
  PROVE  /\ Annotated(ast, isShared, captured, MaxCaptured)
         /\ TypeOK /\ SharedExactly /\ ContextsNest /\ CapturedOnce /\ Balanced
         /\ AnnotationsWritten /\ OuterReadsCaptured /\ LoopsProtected
         /\ LockedUpdateHasMutex
<1>1. FrameInv /\ IInv /\ ContextsNest /\ CapturedOnce
  BY DEF AnalyzerInv, FrameInv, WalkInv
<1>2. TypeOK /\ SharedExactly
  BY <1>1, TypesHold, SharingExact
<1>3. Annotated(ast, isShared, captured, MaxCaptured) /\ OuterReadsCaptured /\ LoopsProtected
  BY LeftAnnotated, ReadsReach, MarkedProtected DEF AnalyzerInv
<1>4. Balanced /\ AnnotationsWritten /\ LockedUpdateHasMutex
  BY ScopesBalance, AllWritten, MarksSettle DEF AnalyzerInv
<1> QED
  BY <1>1, <1>2, <1>3, <1>4
===============================================================================

---------------------------- MODULE ParserProofs ----------------------------
(***************************************************************************)
(* Proofs about Parser, for every sequence of tokens: what parse returns   *)
(* satisfies WellFormed (WellFormedTree), TypeOK, and what it returns      *)
(* holds the text that it has read (NothingDropped).                       *)
(*                                                                         *)
(* For the first, two things are inductive.  The table is that of a tree   *)
(* at any time, and what is read next belongs after the end of it, under   *)
(* the node of the innermost call (TreeOK, AtTheEnd).  And each call can   *)
(* be completed: the items that it has still to do lead from what its node *)
(* looks like now to a node of the right shape, whatever the text brings   *)
(* (Leads).                                                                *)
(*                                                                         *)
(* For the last, NInv: what the nodes hold, in the order of the table, is  *)
(* what the tokens read so far stand for.  A call that will still read     *)
(* something into its node has no node after that one (InOrder), and its   *)
(* items come in an order in which what they read is the last thing that   *)
(* the node holds (Fits).  And StopInv: the list of the program stays the  *)
(* last thing to do until parse has a reason to stop.                      *)
(*                                                                         *)
(* The parts: the table and how it grows; what an item does to the look of *)
(* a node; the actions; concatenation; what an item does to what the nodes *)
(* hold; the actions once more.                                            *)
(***************************************************************************)
EXTENDS Parser, TLAPS, SequenceTheorems, NaturalsInduction, WellFoundedInduction

-----------------------------------------------------------------------------
(* The table is that of a tree, in the order of the text, whichever way it *)
(* grows.                                                                  *)

(* What WellFormed says of the table, whatever the shape of its nodes *)
Under(t, p, c) == p \in DOMAIN t /\ \E i \in DOMAIN t[p].kids : t[p].kids[i] = c

LEMMA ParentsAre ==
  ASSUME NEW t, NEW n
  PROVE  \A p : p \in Parents(t, n) <=> Under(t, p, n)
BY DEF Parents, Under

PlainPar(nd) == nd.par # "regular" => nd.kind \in {"decl", "for", "call"}

OnePlace(t)   == \A n \in DOMAIN t \ {1} : \E p \in DOMAIN t : Parents(t, n) = {p}
After1(t)     == \A p, c : Under(t, p, c) => c \in DOMAIN t /\ c > p
Nested(t)     == \A p, c : Under(t, p, c) =>
                   \A m \in p + 1 .. c : \A q : Under(t, q, m) => q >= p
Increasing(t) == \A n \in DOMAIN t : \A i, j \in DOMAIN t[n].kids :
                   i < j => t[n].kids[i] < t[n].kids[j]

TreeOK(t) ==
  /\ t \in Seq(Node) /\ t # <<>> /\ t[1].kind = "program"
  /\ OnePlace(t) /\ After1(t) /\ Nested(t) /\ Increasing(t)
  /\ \A n \in DOMAIN t : PlainPar(t[n])

(* A node can have further parts: what comes after it is under it. *)
AtTheEnd(t, k) == \A m, p : Under(t, p, m) /\ m > k => p >= k

LEMMA NodeKids ==
  ASSUME NEW nd \in Node, NEW s \in Seq(Nat)
  PROVE  [nd EXCEPT !.kids = s] \in Node /\ nd.kids \in Seq(Nat)
BY DEF Node

(* What a tree has to be besides, to be well formed, is the shape of its nodes. *)
LEMMA TreeWellFormed ==
  ASSUME NEW t, TreeOK(t), \A n \in DOMAIN t : Shape(t, n)
  PROVE  WellFormed(t)
<1>1. ASSUME NEW n \in DOMAIN t, NEW i \in DOMAIN t[n].kids
      PROVE  /\ t[n].kids[i] \in DOMAIN t /\ t[n].kids[i] > n
             /\ \A m \in n + 1 .. t[n].kids[i] : \A p \in Parents(t, m) : p >= n
  <2>1. Under(t, n, t[n].kids[i])
    BY DEF Under
  <2> QED
    BY <2>1, ParentsAre DEF TreeOK, After1, Nested
<1> QED
  BY <1>1 DEF WellFormed, TreeOK, OnePlace, Increasing, PlainPar

-----------------------------------------------------------------------------
(* A node is appended, under h. *)

GrownTree(t, h, nd) == Append([t EXCEPT ![h].kids = Append(@, Len(t) + 1)], nd)

PutIn(nd, c) == [nd EXCEPT !.kids = Append(nd.kids, c)]

LEMMA PutInFacts ==
  ASSUME NEW nd \in Node, NEW c \in Nat
  PROVE  /\ PutIn(nd, c) \in Node /\ PutIn(nd, c).kids = Append(nd.kids, c)
         /\ PutIn(nd, c).kind = nd.kind /\ PutIn(nd, c).par = nd.par
         /\ PutIn(nd, c).name = nd.name /\ PutIn(nd, c).type = nd.type
         /\ PutIn(nd, c).op = nd.op
<1>1. Append(nd.kids, c) \in Seq(Nat)
  BY DEF Node
<1> QED
  BY <1>1 DEF PutIn, Node

Grew(t, h, nd, u) ==
  /\ Len(t) \in Nat /\ Len(t) >= 1 /\ u \in Seq(Node) /\ Len(u) = Len(t) + 1
  /\ u[Len(t) + 1] = nd /\ t[h].kids \in Seq(Nat)
  /\ \A n \in DOMAIN t : n # h => u[n] = t[n]
  /\ u[h].kids = Append(t[h].kids, Len(t) + 1)
  /\ u[h].kind = t[h].kind /\ u[h].par = t[h].par /\ u[h].name = t[h].name
  /\ u[h].type = t[h].type /\ u[h].op = t[h].op
  /\ DOMAIN u = 1 .. Len(t) + 1 /\ DOMAIN t = 1 .. Len(t)

LEMMA GrownFacts ==
  ASSUME NEW t \in Seq(Node), NEW h \in DOMAIN t, NEW nd \in Node,
         NEW u, u = GrownTree(t, h, nd)
  PROVE  Grew(t, h, nd, u)
<1>1. PICK L \in Nat : L = Len(t) /\ DOMAIN t = 1 .. L /\ L >= 1
  OBVIOUS
<1>2. t[h] \in Node
  OBVIOUS
<1>3. PICK k \in Seq(Nat) : k = t[h].kids
  BY <1>2 DEF Node
<1>5. PICK hd \in Node : hd = PutIn(t[h], L + 1)
  BY <1>1, <1>2, PutInFacts
<1>6. PICK v : v = [t EXCEPT ![h].kids = Append(@, Len(t) + 1)]
  OBVIOUS
<1>7. /\ v = [t EXCEPT ![h] = hd]
  BY <1>1, <1>5, <1>6 DEF PutIn
<1>8. v \in Seq(Node) /\ Len(v) = L
  BY <1>1, <1>7
<1>9. v[h] = hd /\ \A n \in DOMAIN t : n # h => v[n] = t[n]
  BY <1>7
<1>10. u = Append(v, nd)
  BY <1>6 DEF GrownTree
<1>11. /\ u \in Seq(Node) /\ Len(u) = L + 1 /\ u[L + 1] = nd
       /\ \A n \in 1 .. L : u[n] = v[n]
  BY <1>8, <1>10, AppendProperties
<1>12. DOMAIN u = 1 .. L + 1
  BY <1>11
<1> QED
  <2>1. PICK c \in Nat : c = L + 1
    BY <1>1
  <2>2. /\ hd.kids = Append(t[h].kids, L + 1) /\ hd.kind = t[h].kind /\ hd.par = t[h].par
        /\ hd.name = t[h].name /\ hd.type = t[h].type /\ hd.op = t[h].op
    BY <1>2, <1>5, <2>1, PutInFacts
  <2>3. u[h] = hd /\ \A n \in DOMAIN t : n # h => u[n] = t[n]
    BY <1>1, <1>9, <1>11
  <2> QED
    BY <1>1, <1>3, <1>11, <1>12, <2>2, <2>3 DEF Grew

LEMMA GrownUnder ==
  ASSUME NEW t \in Seq(Node), NEW h \in DOMAIN t, NEW nd \in Node, nd.kids = <<>>
  PROVE  \A p, c : Under(GrownTree(t, h, nd), p, c)
                     <=> Under(t, p, c) \/ (p = h /\ c = Len(t) + 1)
<1>0. PICK u : u = GrownTree(t, h, nd)
  OBVIOUS
<1>9. Grew(t, h, nd, u)
  BY <1>0, GrownFacts
<1>1. /\ Len(t) \in Nat /\ u[Len(t) + 1] = nd /\ t[h].kids \in Seq(Nat)
      /\ \A n \in DOMAIN t : n # h => u[n] = t[n]
      /\ u[h].kids = Append(t[h].kids, Len(t) + 1)
      /\ DOMAIN u = 1 .. Len(t) + 1 /\ DOMAIN t = 1 .. Len(t)
  BY <1>9 DEF Grew
<1>2. t[h] \in Node
  OBVIOUS
<1>3. PICK k \in Seq(Nat) : k = t[h].kids
  BY <1>1
<1>4. u[h].kids = Append(k, Len(t) + 1)
  BY <1>1, <1>3
<1>5. PICK e : e = Append(k, Len(t) + 1)
  OBVIOUS
<1>6. /\ Len(k) \in Nat /\ DOMAIN k = 1 .. Len(k) /\ DOMAIN e = 1 .. Len(k) + 1
      /\ e[Len(k) + 1] = Len(t) + 1 /\ \A i \in 1 .. Len(k) : e[i] = k[i]
  BY <1>1, <1>5
<1>7. \A c : (\E i \in DOMAIN e : e[i] = c) <=> (\E i \in DOMAIN k : k[i] = c) \/ c = Len(t) + 1
  <2>1. ASSUME NEW c, NEW i \in DOMAIN e, e[i] = c
        PROVE  (\E j \in DOMAIN k : k[j] = c) \/ c = Len(t) + 1
    <3>1. i \in 1 .. Len(k) \/ i = Len(k) + 1
      BY <1>6
    <3> QED
      BY <1>6, <2>1, <3>1
  <2>2. ASSUME NEW c, NEW i \in DOMAIN k, k[i] = c PROVE \E j \in DOMAIN e : e[j] = c
    <3>1. i \in DOMAIN e /\ e[i] = c
      BY <1>6, <2>2
    <3> QED
      BY <3>1
  <2>3. Len(k) + 1 \in DOMAIN e
    BY <1>6
  <2> QED
    BY <1>6, <2>1, <2>2, <2>3
<1>8. \A c : Under(u, h, c) <=> Under(t, h, c) \/ c = Len(t) + 1
  <2>1. h \in DOMAIN u /\ u[h].kids = e /\ t[h].kids = k
    BY <1>1, <1>3, <1>4, <1>5
  <2> QED
    BY <1>7, <2>1 DEF Under
<1>10. \A p, c : p # h => (Under(u, p, c) <=> Under(t, p, c))
  <2> SUFFICES ASSUME NEW p, NEW c, p # h PROVE Under(u, p, c) <=> Under(t, p, c)
    OBVIOUS
  <2>1. CASE p \in DOMAIN t
    BY <1>1, <2>1 DEF Under
  <2>2. CASE p \notin DOMAIN t
    <3>1. p \in DOMAIN u => p = Len(t) + 1
      BY <1>1, <2>2
    <3>2. DOMAIN nd.kids = {}
      OBVIOUS
    <3> QED
      BY <1>1, <2>2, <3>1, <3>2 DEF Under
  <2> QED
    BY <2>1, <2>2
<1> QED
  BY <1>0, <1>8, <1>10

LEMMA GrownIsTree ==
  ASSUME NEW t, TreeOK(t), NEW h \in DOMAIN t, AtTheEnd(t, h),
         NEW nd \in Node, nd.kids = <<>>, PlainPar(nd)
  PROVE  /\ TreeOK(GrownTree(t, h, nd)) /\ AtTheEnd(GrownTree(t, h, nd), Len(t) + 1)
         /\ \A k \in 1 .. h : AtTheEnd(t, k) => AtTheEnd(GrownTree(t, h, nd), k)
<1>0. PICK u : u = GrownTree(t, h, nd)
  OBVIOUS
<1> DEFINE L == Len(t)
<1>1. t \in Seq(Node)
  BY DEF TreeOK
<1>15. Grew(t, h, nd, u)
  BY <1>0, <1>1, GrownFacts
<1>2. /\ L \in Nat /\ L >= 1 /\ u \in Seq(Node) /\ Len(u) = L + 1
      /\ u[L + 1] = nd /\ t[h].kids \in Seq(Nat)
      /\ \A n \in DOMAIN t : n # h => u[n] = t[n]
      /\ u[h].kids = Append(t[h].kids, L + 1) /\ u[h].kind = t[h].kind /\ u[h].par = t[h].par
      /\ DOMAIN u = 1 .. L + 1 /\ DOMAIN t = 1 .. L
  BY <1>15 DEF Grew
<1>3. \A p, c : Under(u, p, c) <=> Under(t, p, c) \/ (p = h /\ c = L + 1)
  BY <1>0, <1>1, GrownUnder
<1> HIDE DEF L
<1>4. \A p, c : Under(t, p, c) => p \in 1 .. L /\ c \in 1 .. L /\ c > p
  BY <1>2 DEF TreeOK, After1, Under
<1>5. t[h] \in Node /\ h \in 1 .. L
  BY <1>1, <1>2
<1>6. u # <<>> /\ u[1].kind = "program"
  <2>1. u[h].kind = t[h].kind /\ 1 \in DOMAIN t
    BY <1>2, <1>5
  <2>2. u[1].kind = t[1].kind
    BY <1>2, <2>1
  <2> QED
    BY <1>2, <2>2 DEF TreeOK
<1>7. OnePlace(u)
  <2> SUFFICES ASSUME NEW n \in DOMAIN u \ {1} PROVE \E p \in DOMAIN u : Parents(u, n) = {p}
    BY DEF OnePlace
  <2>1. CASE n = L + 1
    <3>1. \A p : Under(u, p, n) <=> p = h
      BY <1>2, <1>3, <1>4, <1>5, <2>1
    <3>2. Parents(u, n) = {h}
      BY <3>1, ParentsAre
    <3> QED
      BY <1>2, <1>5, <3>2
  <2>2. CASE n # L + 1
    <3>1. n \in DOMAIN t \ {1}
      BY <1>2, <2>2
    <3>2. PICK p \in DOMAIN t : Parents(t, n) = {p}
      BY <3>1 DEF TreeOK, OnePlace
    <3>3. \A q : Under(u, q, n) <=> Under(t, q, n)
      BY <1>3, <2>2
    <3>4. Parents(u, n) = {p}
      BY <3>2, <3>3, ParentsAre
    <3> QED
      BY <1>2, <3>2, <3>4
  <2> QED
    BY <2>1, <2>2
<1>8. After1(u)
  BY <1>2, <1>3, <1>4, <1>5 DEF After1
<1>9. Nested(u)
  <2> SUFFICES ASSUME NEW p, NEW c, Under(u, p, c), NEW m \in p + 1 .. c, NEW q, Under(u, q, m)
               PROVE  q >= p
    BY DEF Nested
  <2>1. CASE Under(t, p, c)
    <3>1. m # L + 1
      BY <1>2, <1>4, <2>1
    <3> QED
      BY <1>3, <2>1, <3>1 DEF TreeOK, Nested
  <2>2. CASE p = h /\ c = L + 1
    <3>1. CASE Under(t, q, m)
      <4>1. m > h
        BY <1>5, <2>2
      <4> QED
        BY <2>2, <3>1, <4>1 DEF AtTheEnd
    <3>2. CASE q = h
      BY <1>5, <2>2, <3>2
    <3> QED
      BY <1>3, <3>1, <3>2
  <2> QED
    BY <1>3, <2>1, <2>2
<1>10. Increasing(u)
  <2> SUFFICES ASSUME NEW n \in DOMAIN u, NEW i \in DOMAIN u[n].kids, NEW j \in DOMAIN u[n].kids,
                      i < j
               PROVE  u[n].kids[i] < u[n].kids[j]
    BY DEF Increasing
  <2>1. CASE n = h
    <3>1. PICK k \in Seq(Nat) : k = t[h].kids
      BY <1>2
    <3>2. u[n].kids = Append(k, L + 1)
      BY <1>2, <2>1, <3>1
    <3>3. /\ Len(k) \in Nat /\ DOMAIN k = 1 .. Len(k) /\ DOMAIN u[n].kids = 1 .. Len(k) + 1
          /\ u[n].kids[Len(k) + 1] = L + 1 /\ \A x \in 1 .. Len(k) : u[n].kids[x] = k[x]
      BY <1>2, <3>2
    <3>4. i \in 1 .. Len(k)
      BY <3>3
    <3>5. Under(t, h, k[i])
      BY <3>1, <3>3, <3>4 DEF Under
    <3>6. k[i] < L + 1
      BY <1>2, <1>4, <3>5
    <3>7. j \in 1 .. Len(k) => k[i] < k[j]
      BY <3>1, <3>3, <3>4 DEF TreeOK, Increasing
    <3> QED
      BY <3>3, <3>4, <3>6, <3>7
  <2>2. CASE n = L + 1
    <3>1. DOMAIN u[n].kids = {}
      BY <1>2, <2>2
    <3> QED
      BY <3>1
  <2>3. CASE n # h /\ n # L + 1
    <3>1. n \in DOMAIN t /\ u[n] = t[n]
      BY <1>2, <2>3
    <3> QED
      BY <3>1 DEF TreeOK, Increasing
  <2> QED
    BY <2>1, <2>2, <2>3
<1>11. \A n \in DOMAIN u : PlainPar(u[n])
  <2> SUFFICES ASSUME NEW n \in DOMAIN u PROVE PlainPar(u[n])
    OBVIOUS
  <2>1. CASE n = h
    <3>1. u[n].par = t[h].par /\ u[n].kind = t[h].kind
      BY <1>2, <2>1
    <3>2. PlainPar(t[h])
      BY DEF TreeOK
    <3> QED
      BY <3>1, <3>2 DEF PlainPar
  <2>2. CASE n = L + 1
    BY <1>2, <2>2
  <2>3. CASE n # h /\ n # L + 1
    <3>1. n \in DOMAIN t /\ u[n] = t[n]
      BY <1>2, <2>3
    <3> QED
      BY <3>1 DEF TreeOK
  <2> QED
    BY <2>1, <2>2, <2>3
<1>12. TreeOK(u)
  BY <1>2, <1>6, <1>7, <1>8, <1>9, <1>10, <1>11 DEF TreeOK
<1>13. AtTheEnd(u, L + 1)
  BY <1>2, <1>3, <1>4 DEF AtTheEnd
<1>14. \A k \in 1 .. h : AtTheEnd(t, k) => AtTheEnd(u, k)
  BY <1>3, <1>5 DEF AtTheEnd
<1> QED
  BY <1>0, <1>12, <1>13, <1>14 DEF L

-----------------------------------------------------------------------------
(* A field of a node is written. *)

LEMMA WrittenIsTree ==
  ASSUME NEW t, TreeOK(t), NEW h \in DOMAIN t, NEW nd \in Node, nd.kids = t[h].kids,
         nd.kind = t[h].kind, PlainPar(nd)
  PROVE  /\ TreeOK([t EXCEPT ![h] = nd])
         /\ \A k : AtTheEnd(t, k) => AtTheEnd([t EXCEPT ![h] = nd], k)
<1>1. PICK u : u = [t EXCEPT ![h] = nd]
  OBVIOUS
<1>2. /\ t \in Seq(Node) /\ u \in Seq(Node) /\ DOMAIN u = DOMAIN t /\ u[h] = nd
      /\ \A n \in DOMAIN t : n # h => u[n] = t[n]
  BY <1>1 DEF TreeOK
<1>3. \A n \in DOMAIN t : u[n].kids = t[n].kids /\ u[n].kind = t[n].kind /\ PlainPar(u[n])
  BY <1>2 DEF TreeOK
<1>4. \A p, c : Under(u, p, c) <=> Under(t, p, c)
  BY <1>2, <1>3 DEF Under
<1>5. \A n : Parents(u, n) = Parents(t, n)
  BY <1>4, ParentsAre
<1>6. OnePlace(u) /\ After1(u) /\ Nested(u)
  BY <1>2, <1>4, <1>5 DEF TreeOK, OnePlace, After1, Nested
<1>7. Increasing(u)
  BY <1>2, <1>3 DEF TreeOK, Increasing
<1>8. u # <<>> /\ u[1].kind = "program"
  <2>1. t # <<>> /\ t[1].kind = "program" /\ 1 \in DOMAIN t
    BY <1>2 DEF TreeOK
  <2> QED
    BY <1>2, <1>3, <2>1
<1>9. TreeOK(u)
  BY <1>2, <1>3, <1>6, <1>7, <1>8 DEF TreeOK
<1>10. \A k : AtTheEnd(t, k) => AtTheEnd(u, k)
  BY <1>4 DEF AtTheEnd
<1> QED
  BY <1>1, <1>9, <1>10

-----------------------------------------------------------------------------
(* A node for an operator comes before its left operand. *)

JoinedTree(t, h, op, l, r) ==
  [n \in 1 .. Len(t) + 1 |->
     CASE n = h -> [t[n] EXCEPT !.kids = SubSeq(@, 1, Len(@) - 1)]
       [] n < l /\ n # h -> t[n]
       [] n = l -> [Blank("binop") EXCEPT !.op = op, !.kids = <<l + 1, r + 1>>]
       [] n > l -> Moved(t[n - 1], l)]

SameFields(nd, md) ==
  /\ nd.kind = md.kind /\ nd.name = md.name /\ nd.type = md.type
  /\ nd.par = md.par /\ nd.op = md.op

(* The operands are the two latest parts of the innermost node. *)
Latest(t, h, l, r) ==
  /\ TreeOK(t) /\ h \in DOMAIN t /\ AtTheEnd(t, h) /\ Len(t[h].kids) >= 2
  /\ l = t[h].kids[Len(t[h].kids) - 1] /\ r = t[h].kids[Len(t[h].kids)]

Operands(t, h, l, r) ==
  /\ t \in Seq(Node) /\ Len(t) \in Nat /\ DOMAIN t = 1 .. Len(t)
  /\ h \in 1 .. Len(t) /\ l \in 1 .. Len(t) /\ r \in 1 .. Len(t) /\ h < l /\ l < r
  /\ Under(t, h, l) /\ Under(t, h, r)
  /\ \A p, c : Under(t, p, c) => p \in 1 .. Len(t) /\ c \in 1 .. Len(t) /\ c > p
  /\ \A p, q, c : Under(t, p, c) /\ Under(t, q, c) => p = q
  /\ \A p, c : Under(t, p, c) /\ p < l => c < l \/ (p = h /\ c \in {l, r})

LEMMA OneParent ==
  ASSUME NEW t, TreeOK(t), NEW p, NEW q, NEW c, Under(t, p, c), Under(t, q, c)
  PROVE  p = q
<1>1. c \in DOMAIN t /\ c > p /\ p \in DOMAIN t
  BY DEF TreeOK, After1, Under
<1>2. c \in DOMAIN t \ {1}
  <2>1. t \in Seq(Node)
    BY DEF TreeOK
  <2>2. p \in 1 .. Len(t) /\ Len(t) \in Nat
    BY <1>1, <2>1
  <2> QED
    BY <1>1, <2>2
<1>3. PICK s \in DOMAIN t : Parents(t, c) = {s}
  BY <1>2 DEF TreeOK, OnePlace
<1> QED
  BY <1>3, ParentsAre

LEMMA OperandFacts ==
  ASSUME NEW t, NEW h, NEW l, NEW r, Latest(t, h, l, r)
  PROVE  Operands(t, h, l, r)
<1>1. TreeOK(t) /\ t \in Seq(Node) /\ Len(t) \in Nat /\ DOMAIN t = 1 .. Len(t) /\ h \in DOMAIN t
      /\ AtTheEnd(t, h)
  BY DEF Latest, TreeOK
<1>2. PICK k \in Seq(Nat) : k = t[h].kids
  <2>1. t[h] \in Node
    BY <1>1
  <2> QED
    BY <2>1 DEF Node
<1>3. PICK K \in Nat : K = Len(k) /\ K >= 2 /\ DOMAIN k = 1 .. K
  BY <1>2 DEF Latest
<1>4. l = k[K - 1] /\ r = k[K] /\ K - 1 \in DOMAIN k /\ K \in DOMAIN k /\ K - 1 < K
  BY <1>2, <1>3 DEF Latest
<1>5. Under(t, h, l) /\ Under(t, h, r)
  BY <1>1, <1>2, <1>4 DEF Under
<1>6. \A p, c : Under(t, p, c) => p \in 1 .. Len(t) /\ c \in 1 .. Len(t) /\ c > p
  BY <1>1 DEF TreeOK, After1, Under
<1>7. l < r /\ h < l
  BY <1>1, <1>2, <1>4, <1>5, <1>6 DEF TreeOK, Increasing
<1>8. ASSUME NEW p, NEW c, Under(t, p, c), p < l PROVE c < l \/ (p = h /\ c \in {l, r})
  <2>1. CASE p = h
    <3>1. PICK i \in DOMAIN k : k[i] = c
      BY <1>2, <1>8, <2>1 DEF Under
    <3>2. i = K \/ i = K - 1 \/ i < K - 1
      BY <1>3
    <3>3. i < K - 1 => k[i] < k[K - 1]
      BY <1>1, <1>2, <1>4 DEF TreeOK, Increasing
    <3> QED
      BY <1>4, <2>1, <3>1, <3>2, <3>3
  <2>2. CASE p < h
    <3>1. ~(c > h)
      BY <1>1, <1>6, <1>8, <2>2 DEF AtTheEnd
    <3> QED
      BY <1>1, <1>5, <1>6, <1>7, <1>8, <3>1
  <2>3. CASE p > h
    <3>1. ASSUME ~(c < l) PROVE FALSE
      <4>1. l \in p + 1 .. c
        BY <1>5, <1>6, <1>8, <3>1
      <4>2. h >= p
        BY <1>1, <1>5, <1>8, <4>1 DEF TreeOK, Nested
      <4> QED
        BY <1>1, <1>6, <1>8, <2>3, <4>2
    <3> QED
      BY <3>1
  <2> QED
    BY <1>1, <1>6, <1>8, <2>1, <2>2, <2>3
<1>9. \A p, q, c : Under(t, p, c) /\ Under(t, q, c) => p = q
  BY <1>1, OneParent
<1> QED
  BY <1>1, <1>5, <1>6, <1>7, <1>8, <1>9 DEF Operands

(* What the table is then *)
Joins(t, h, op, l, r, u) ==
  /\ u \in Seq(Node) /\ Len(u) = Len(t) + 1 /\ DOMAIN u = 1 .. Len(t) + 1
  /\ SameFields(u[h], t[h]) /\ u[h].kids = SubSeq(t[h].kids, 1, Len(t[h].kids) - 1)
  /\ \A n \in 1 .. Len(t) : n < l /\ n # h => u[n] = t[n]
  /\ u[l].kind = "binop" /\ u[l].op = op /\ u[l].par = "regular" /\ u[l].kids = <<l + 1, r + 1>>
  /\ \A n \in 1 .. Len(t) : n >= l =>
       /\ SameFields(u[n + 1], t[n]) /\ DOMAIN u[n + 1].kids = DOMAIN t[n].kids
       /\ \A i \in DOMAIN t[n].kids : u[n + 1].kids[i] = t[n].kids[i] + 1

LEMMA JoinFacts ==
  ASSUME NEW t, NEW h, NEW l, NEW r, Latest(t, h, l, r), NEW op \in BinaryOps,
         NEW u, u = JoinedTree(t, h, op, l, r)
  PROVE  Joins(t, h, op, l, r, u)
<1>1. Operands(t, h, l, r)
  BY OperandFacts
<1>2. PICK L \in Nat : L = Len(t)
  BY <1>1 DEF Operands
<1>3. /\ t \in Seq(Node) /\ DOMAIN t = 1 .. L /\ h \in 1 .. L /\ l \in 1 .. L /\ r \in 1 .. L
      /\ h < l /\ l < r
      /\ \A p, c : Under(t, p, c) => p \in 1 .. L /\ c \in 1 .. L /\ c > p
  BY <1>1, <1>2 DEF Operands
<1>4. \A n \in 1 .. L : t[n] \in Node /\ t[n].kids \in Seq(Nat)
  <2>1. \A n \in 1 .. L : t[n] \in Node
    BY <1>3
  <2>2. \A nd \in Node : nd.kids \in Seq(Nat)
    BY DEF Node
  <2> QED
    BY <2>1, <2>2
<1> DEFINE NodeAt(n) == CASE n = h -> [t[n] EXCEPT !.kids = SubSeq(@, 1, Len(@) - 1)]
                      [] n < l /\ n # h -> t[n]
                      [] n = l -> [Blank("binop") EXCEPT !.op = op, !.kids = <<l + 1, r + 1>>]
                      [] n > l -> Moved(t[n - 1], l)
<1>14. u = [n \in 1 .. L + 1 |-> NodeAt(n)]
  BY <1>2 DEF JoinedTree
<1> HIDE DEF NodeAt
<1>5. DOMAIN u = 1 .. L + 1 /\ \A n \in 1 .. L + 1 : u[n] = NodeAt(n)
  BY <1>14
<1>6. u[h] = [t[h] EXCEPT !.kids = SubSeq(t[h].kids, 1, Len(t[h].kids) - 1)]
  <2>1. h \in 1 .. L + 1 /\ ~(h = l) /\ ~(h > l)
    BY <1>3
  <2> QED
    BY <1>5, <2>1 DEF NodeAt
<1>7. \A n \in 1 .. L : n < l /\ n # h => u[n] = t[n]
  <2> SUFFICES ASSUME NEW n \in 1 .. L, n < l, n # h PROVE u[n] = t[n]
    OBVIOUS
  <2>1. n \in 1 .. L + 1 /\ ~(n = l) /\ ~(n > l)
    BY <1>3
  <2> QED
    BY <1>5, <2>1 DEF NodeAt
<1>8. u[l] = [Blank("binop") EXCEPT !.op = op, !.kids = <<l + 1, r + 1>>]
  <2>1. l \in 1 .. L + 1 /\ l # h /\ ~(l < l)
    BY <1>3
  <2> QED
    BY <1>5, <2>1 DEF NodeAt
<1>9. \A n \in 1 .. L : n >= l => u[n + 1] = Moved(t[n], l)
  <2> SUFFICES ASSUME NEW n \in 1 .. L, n >= l PROVE u[n + 1] = Moved(t[n], l)
    OBVIOUS
  <2>1. /\ n + 1 \in 1 .. L + 1 /\ n + 1 # h /\ ~(n + 1 < l) /\ n + 1 # l /\ n + 1 > l
        /\ (n + 1) - 1 = n
    BY <1>3
  <2> QED
    BY <1>5, <2>1 DEF NodeAt
<1>10. u[h] \in Node /\ SameFields(u[h], t[h]) /\ u[h].kids = SubSeq(t[h].kids, 1, Len(t[h].kids) - 1)
  <2>1. PICK s : s = SubSeq(t[h].kids, 1, Len(t[h].kids) - 1)
    OBVIOUS
  <2>2. s \in Seq(Nat) /\ t[h] \in Node
    BY <1>3, <1>4, <2>1, SMTT(30)
  <2>3. u[h] = [t[h] EXCEPT !.kids = s]
    BY <1>6, <2>1
  <2> QED
    BY <2>1, <2>2, <2>3 DEF Node, SameFields
<1>11. /\ u[l] \in Node /\ u[l].kind = "binop" /\ u[l].op = op /\ u[l].par = "regular"
       /\ u[l].kids = <<l + 1, r + 1>>
  <2>1. PICK s : s = <<l + 1, r + 1>>
    OBVIOUS
  <2>2. s \in Seq(Nat)
    BY <1>3, <2>1
  <2>3. u[l] = [Blank("binop") EXCEPT !.op = op, !.kids = s]
    BY <1>8, <2>1
  <2>4. Blank("binop") \in Node /\ Blank("binop").kind = "binop" /\ Blank("binop").par = "regular"
    BY DEF Blank, Node, Kinds, ExprKinds, ParallelTypes
  <2> QED
    BY <2>1, <2>2, <2>3, <2>4 DEF Node
<1>12. ASSUME NEW n \in 1 .. L, n >= l
       PROVE  /\ u[n + 1] \in Node /\ SameFields(u[n + 1], t[n])
              /\ DOMAIN u[n + 1].kids = DOMAIN t[n].kids
              /\ \A i \in DOMAIN t[n].kids : u[n + 1].kids[i] = t[n].kids[i] + 1
  <2>1. PICK k \in Seq(Nat) : k = t[n].kids
    BY <1>4
  <2>2. PICK s : s = [i \in DOMAIN k |-> IF k[i] < l THEN k[i] ELSE k[i] + 1]
    OBVIOUS
  <2>3. \A i \in DOMAIN k : k[i] > n /\ k[i] \in Nat
    <3>1. \A i \in DOMAIN k : Under(t, n, k[i])
      BY <1>3, <2>1 DEF Under
    <3> QED
      BY <1>3, <3>1
  <2>4. DOMAIN s = DOMAIN k /\ \A i \in DOMAIN k : s[i] = k[i] + 1
    BY <1>3, <1>12, <2>2, <2>3
  <2>5. s \in Seq(Nat)
    <3>1. DOMAIN k = 1 .. Len(k) /\ Len(k) \in Nat
      OBVIOUS
    <3>2. s = [i \in 1 .. Len(k) |-> s[i]] /\ \A i \in 1 .. Len(k) : s[i] \in Nat
      BY <2>2, <2>3, <2>4, <3>1
    <3> QED
      BY <3>1, <3>2, IsASeq
  <2>6. u[n + 1] = [t[n] EXCEPT !.kids = s]
    BY <1>9, <1>12, <2>1, <2>2 DEF Moved
  <2>7. t[n] \in Node
    BY <1>4
  <2>8. u[n + 1] \in Node /\ SameFields(u[n + 1], t[n]) /\ u[n + 1].kids = s
    BY <2>5, <2>6, <2>7 DEF Node, SameFields
  <2> QED
    BY <2>1, <2>4, <2>8
<1>13. u \in Seq(Node) /\ Len(u) = L + 1
  <2>1. ASSUME NEW n \in 1 .. L + 1 PROVE u[n] \in Node
    <3>1. CASE n > l
      <4>1. n - 1 \in 1 .. L /\ n - 1 >= l /\ (n - 1) + 1 = n
        BY <1>3, <3>1
      <4>2. u[(n - 1) + 1] \in Node
        BY <1>12, <4>1
      <4> QED
        BY <4>1, <4>2
    <3>2. CASE n < l /\ n # h
      <4>1. n \in 1 .. L
        BY <1>3, <3>2
      <4> QED
        BY <1>4, <1>7, <3>2, <4>1
    <3> QED
      BY <1>3, <1>10, <1>11, <3>1, <3>2
  <2>2. u = [n \in 1 .. L + 1 |-> u[n]]
    BY <1>14
  <2>3. u \in Seq(Node)
    BY <2>1, <2>2, IsASeq
  <2> QED
    BY <1>5, <2>3
<1> QED
  BY <1>2, <1>5, <1>7, <1>10, <1>11, <1>12, <1>13 DEF Joins

(* Where each node is put then *)
LEMMA JoinUnder ==
  ASSUME NEW t, NEW h, NEW l, NEW r, Latest(t, h, l, r), NEW op, NEW u, Joins(t, h, op, l, r, u)
  PROVE  /\ \A p, c : p < l => (Under(u, p, c) <=> Under(t, p, c) /\ ~(p = h /\ c = r))
         /\ \A c : Under(u, l, c) <=> c \in {l + 1, r + 1}
         /\ \A p, c : p > l /\ Under(u, p, c) => /\ p - 1 \in 1 .. Len(t)
                                                 /\ c - 1 \in 1 .. Len(t) /\ c \in 1 .. Len(t) + 1
                                                 /\ Under(t, p - 1, c - 1)
         /\ \A p, c : p >= l /\ Under(t, p, c) => Under(u, p + 1, c + 1)
<1>1. Operands(t, h, l, r)
  BY OperandFacts
<1>2. PICK L \in Nat : L = Len(t)
  BY <1>1 DEF Operands
<1>3. /\ t \in Seq(Node) /\ DOMAIN t = 1 .. L /\ h \in 1 .. L /\ l \in 1 .. L /\ r \in 1 .. L
      /\ h < l /\ l < r /\ DOMAIN u = 1 .. L + 1
      /\ \A p, c : Under(t, p, c) => p \in 1 .. L /\ c \in 1 .. L /\ c > p
  BY <1>1, <1>2 DEF Operands, Joins
<1>4. ASSUME NEW p, NEW c, p < l PROVE Under(u, p, c) <=> Under(t, p, c) /\ ~(p = h /\ c = r)
  <2>1. CASE p = h
    <3>1. PICK k \in Seq(Nat) : k = t[h].kids
      <4>1. t[h] \in Node
        BY <1>3
      <4> QED
        BY <4>1 DEF Node
    <3>2. PICK K \in Nat : K = Len(k) /\ K >= 2 /\ DOMAIN k = 1 .. K /\ r = k[K]
      BY <3>1 DEF Latest
    <3>3. PICK s : s = SubSeq(k, 1, K - 1)
      OBVIOUS
    <3>4. DOMAIN s = 1 .. K - 1 /\ \A i \in 1 .. K - 1 : s[i] = k[i]
      BY <3>2, <3>3
    <3>5. u[h].kids = s
      BY <3>1, <3>2, <3>3 DEF Joins
    <3>6. \A i \in 1 .. K : k[i] = r <=> i = K
      <4>1. \A i, j \in 1 .. K : i < j => k[i] < k[j]
        BY <1>3, <3>1, <3>2 DEF Latest, TreeOK, Increasing
      <4>2. \A i \in 1 .. K : i = K \/ i < K
        BY <3>2
      <4>3. \A i \in 1 .. K : k[i] \in Nat
        BY <3>2
      <4> QED
        BY <3>2, <4>1, <4>2, <4>3
    <3>7. Under(u, h, c) => Under(t, h, c) /\ c # r
      <4> SUFFICES ASSUME Under(u, h, c) PROVE Under(t, h, c) /\ c # r
        OBVIOUS
      <4>1. PICK i \in 1 .. K - 1 : s[i] = c
        BY <3>4, <3>5 DEF Under
      <4>2. i \in 1 .. K /\ i # K /\ k[i] = c
        BY <3>2, <3>4, <4>1
      <4> QED
        BY <1>3, <3>1, <3>2, <3>6, <4>2 DEF Under
    <3>8. Under(t, h, c) /\ c # r => Under(u, h, c)
      <4> SUFFICES ASSUME Under(t, h, c), c # r PROVE Under(u, h, c)
        OBVIOUS
      <4>1. PICK i \in 1 .. K : k[i] = c
        BY <3>1, <3>2 DEF Under
      <4>2. i \in 1 .. K - 1
        BY <3>2, <3>6, <4>1
      <4>3. h \in 1 .. L + 1
        BY <1>3
      <4> QED
        BY <1>3, <3>4, <3>5, <4>1, <4>2, <4>3 DEF Under
    <3> QED
      BY <2>1, <3>7, <3>8
  <2>2. CASE p # h
    <3>1. p \in 1 .. L + 1 => p \in 1 .. L
      BY <1>3, <1>4
    <3>2. p \in 1 .. L => u[p] = t[p] /\ p \in 1 .. L + 1
      BY <1>2, <1>4, <2>2 DEF Joins
    <3> QED
      BY <1>3, <2>2, <3>1, <3>2 DEF Under
  <2> QED
    BY <2>1, <2>2
<1>5. ASSUME NEW c PROVE Under(u, l, c) <=> c \in {l + 1, r + 1}
  <2>1. l \in 1 .. L + 1 /\ u[l].kids = <<l + 1, r + 1>>
    BY <1>3 DEF Joins
  <2>2. PICK s : s = <<l + 1, r + 1>>
    OBVIOUS
  <2>3. DOMAIN s = 1 .. 2 /\ s[1] = l + 1 /\ s[2] = r + 1 /\ \A i \in 1 .. 2 : i = 1 \/ i = 2
    BY <2>2
  <2>4. 1 \in 1 .. 2 /\ 2 \in 1 .. 2
    OBVIOUS
  <2> QED
    BY <1>3, <2>1, <2>2, <2>3, <2>4 DEF Under
<1>6. ASSUME NEW p, NEW c, p > l, Under(u, p, c)
      PROVE  p - 1 \in 1 .. L /\ c - 1 \in 1 .. L /\ c \in 1 .. L + 1 /\ Under(t, p - 1, c - 1)
  <2>1. p \in 1 .. L + 1
    BY <1>3, <1>6 DEF Under
  <2>2. PICK n \in 1 .. L : n = p - 1 /\ n >= l /\ n + 1 = p
    BY <1>3, <1>6, <2>1
  <2>3. /\ DOMAIN u[n + 1].kids = DOMAIN t[n].kids
        /\ \A i \in DOMAIN t[n].kids : u[n + 1].kids[i] = t[n].kids[i] + 1
    BY <1>2, <2>2 DEF Joins
  <2>4. PICK i \in DOMAIN t[n].kids : t[n].kids[i] + 1 = c
    BY <1>6, <2>2, <2>3 DEF Under
  <2>5. Under(t, n, t[n].kids[i])
    BY <1>3, <2>2 DEF Under
  <2>6. t[n].kids[i] \in 1 .. L
    BY <1>3, <2>5
  <2>7. c - 1 = t[n].kids[i] /\ c \in 1 .. L + 1
    BY <2>4, <2>6
  <2> QED
    BY <2>2, <2>5, <2>6, <2>7
<1>7. ASSUME NEW p, NEW c, p >= l, Under(t, p, c) PROVE Under(u, p + 1, c + 1)
  <2>1. p \in 1 .. L /\ p + 1 \in 1 .. L + 1
    BY <1>3, <1>7
  <2>2. /\ DOMAIN u[p + 1].kids = DOMAIN t[p].kids
        /\ \A i \in DOMAIN t[p].kids : u[p + 1].kids[i] = t[p].kids[i] + 1
    BY <1>2, <1>7, <2>1 DEF Joins
  <2>3. PICK i \in DOMAIN t[p].kids : t[p].kids[i] = c
    BY <1>7 DEF Under
  <2> QED
    BY <1>3, <2>1, <2>2, <2>3 DEF Under
<1> QED
  BY <1>2, <1>4, <1>5, <1>6, <1>7

LEMMA JoinedIsTree ==
  ASSUME NEW t, NEW h, NEW l, NEW r, Latest(t, h, l, r), NEW op, NEW u, Joins(t, h, op, l, r, u)
  PROVE  /\ TreeOK(u)
         /\ \A k \in 1 .. h : AtTheEnd(t, k) => AtTheEnd(u, k)
<1>1. Operands(t, h, l, r)
  BY OperandFacts
<1>2. PICK L \in Nat : L = Len(t)
  BY <1>1 DEF Operands
<1>3. /\ t \in Seq(Node) /\ DOMAIN t = 1 .. L /\ h \in 1 .. L /\ l \in 1 .. L /\ r \in 1 .. L
      /\ h < l /\ l < r /\ Under(t, h, l) /\ Under(t, h, r)
      /\ u \in Seq(Node) /\ DOMAIN u = 1 .. L + 1
  BY <1>1, <1>2 DEF Operands, Joins
<1>4. \A p, c : Under(t, p, c) => p \in 1 .. L /\ c \in 1 .. L /\ c > p
  BY <1>1, <1>2 DEF Operands
<1>5. \A p, q, c : Under(t, p, c) /\ Under(t, q, c) => p = q
  BY <1>1 DEF Operands
<1>6. \A p, c : Under(t, p, c) /\ p < l => c < l \/ (p = h /\ c \in {l, r})
  BY <1>1 DEF Operands
<1>7. \A p, c : p < l => (Under(u, p, c) <=> Under(t, p, c) /\ ~(p = h /\ c = r))
  BY JoinUnder
<1>8. \A c : Under(u, l, c) <=> c \in {l + 1, r + 1}
  BY JoinUnder
<1>9. \A p, c : p > l /\ Under(u, p, c) => /\ p - 1 \in 1 .. L /\ c - 1 \in 1 .. L
                                           /\ c \in 1 .. L + 1 /\ Under(t, p - 1, c - 1)
  BY <1>2, JoinUnder
<1>10. \A p, c : p >= l /\ Under(t, p, c) => Under(u, p + 1, c + 1)
  BY JoinUnder
<1>11. TreeOK(t)
  BY DEF Latest
<1>12. \A p, c : Under(u, p, c) => p \in 1 .. L + 1 /\ (p < l \/ p = l \/ p > l)
  BY <1>3 DEF Under
(* Below the operator nothing is put before it. *)
<1>13. ASSUME NEW p, NEW c, p < l, Under(u, p, c)
       PROVE  p \in 1 .. L /\ c \in 1 .. l /\ c > p /\ (c = l => p = h) /\ Under(t, p, c)
  BY <1>3, <1>4, <1>6, <1>7, <1>13
<1>14. After1(u)
  <2> SUFFICES ASSUME NEW p, NEW c, Under(u, p, c) PROVE c \in 1 .. L + 1 /\ c > p
    BY <1>3 DEF After1
  <2>1. CASE p < l
    BY <1>3, <1>13, <2>1
  <2>2. CASE p = l
    BY <1>3, <1>8, <2>2
  <2>3. CASE p > l
    <3>1. c \in 1 .. L + 1 /\ c - 1 > p - 1
      BY <1>4, <1>9, <2>3
    <3>2. p \in 1 .. L + 1
      BY <1>12
    <3> QED
      BY <3>1, <3>2
  <2> QED
    BY <1>12, <2>1, <2>2, <2>3
<1>15. OnePlace(u)
  <2>0. \A n : (\E p \in 1 .. L + 1 : \A q : Under(u, q, n) <=> q = p)
               => \E p \in DOMAIN u : Parents(u, n) = {p}
    <3> SUFFICES ASSUME NEW n, NEW p \in 1 .. L + 1, \A q : Under(u, q, n) <=> q = p
                 PROVE  \E s \in DOMAIN u : Parents(u, n) = {s}
      OBVIOUS
    <3>1. Parents(u, n) = {p}
      BY ParentsAre
    <3> QED
      BY <1>3, <3>1
  <2> SUFFICES ASSUME NEW n \in 2 .. L + 1
               PROVE  \E p \in 1 .. L + 1 : \A q : Under(u, q, n) <=> q = p
    <3>1. \A n \in DOMAIN u \ {1} : n \in 2 .. L + 1
      BY <1>3
    <3> QED
      BY <2>0, <3>1 DEF OnePlace
  <2>1. \A m \in 2 .. L : \E p : Under(t, p, m)
    <3> SUFFICES ASSUME NEW m \in 2 .. L PROVE \E p : Under(t, p, m)
      OBVIOUS
    <3>1. m \in DOMAIN t \ {1}
      BY <1>3
    <3>2. PICK p : Parents(t, m) = {p}
      BY <1>11, <3>1 DEF TreeOK, OnePlace
    <3> QED
      BY <3>2, ParentsAre
  <2>2. CASE n < l
    <3>1. n \in 2 .. L
      BY <1>3, <2>2
    <3>2. PICK p : Under(t, p, n)
      BY <2>1, <3>1
    <3>3. p \in 1 .. L /\ p < n /\ p < l
      BY <1>3, <1>4, <2>2, <3>2
    <3>4. Under(u, p, n)
      BY <1>3, <1>7, <2>2, <3>2, <3>3
    <3>5. ASSUME NEW q, Under(u, q, n) PROVE q = p
      <4>1. q < l
        <5>1. q \in 1 .. L + 1 /\ n > q
          BY <1>3, <1>14, <3>5 DEF After1, Under
        <5> QED
          BY <1>3, <2>2, <5>1
      <4> QED
        BY <1>5, <1>7, <3>2, <3>5, <4>1
    <3> QED
      BY <1>3, <3>3, <3>4, <3>5
  <2>3. CASE n = l
    <3>1. Under(u, h, n)
      BY <1>3, <1>7, <2>3
    <3>2. ASSUME NEW q, Under(u, q, n) PROVE q = h
      <4>1. q < l
        <5>1. q \in 1 .. L + 1 /\ n > q
          BY <1>3, <1>14, <3>2 DEF After1, Under
        <5> QED
          BY <1>3, <2>3, <5>1
      <4> QED
        BY <1>13, <2>3, <3>2, <4>1
    <3> QED
      BY <1>3, <3>1, <3>2
  <2>4. CASE n = l + 1 \/ n = r + 1
    <3>1. Under(u, l, n)
      BY <1>8, <2>4
    <3>2. ASSUME NEW q, Under(u, q, n) PROVE q = l
      <4>1. ~(q < l)
        <5> SUFFICES ASSUME q < l PROVE FALSE
          OBVIOUS
        <5>1. n \in 1 .. l
          BY <1>13, <3>2
        <5> QED
          BY <1>3, <2>4, <5>1
      <4>2. ~(q > l)
        <5> SUFFICES ASSUME q > l PROVE FALSE
          OBVIOUS
        <5>1. q - 1 \in 1 .. L /\ Under(t, q - 1, n - 1) /\ q \in 1 .. L + 1
          BY <1>9, <1>12, <3>2
        <5>2. n - 1 = l \/ n - 1 = r
          BY <1>3, <2>4
        <5>3. q - 1 = h
          BY <1>3, <1>5, <5>1, <5>2
        <5> QED
          BY <1>3, <5>1, <5>3
      <4> QED
        BY <1>12, <3>2, <4>1, <4>2
    <3>3. l \in 1 .. L + 1
      BY <1>3
    <3> QED
      BY <3>1, <3>2, <3>3
  <2>5. CASE n > l + 1 /\ n # r + 1
    <3>1. n - 1 \in 2 .. L /\ n - 1 # l /\ n - 1 # r /\ ~(n - 1 < l) /\ (n - 1) + 1 = n
      BY <1>3, <2>5
    <3>2. PICK p : Under(t, p, n - 1)
      BY <2>1, <3>1
    <3>3. p \in 1 .. L /\ p >= l
      BY <1>3, <1>4, <1>6, <3>1, <3>2
    <3>4. Under(u, p + 1, n)
      BY <1>10, <3>1, <3>2, <3>3
    <3>5. ASSUME NEW q, Under(u, q, n) PROVE q = p + 1
      <4>1. ~(q < l)
        <5> SUFFICES ASSUME q < l PROVE FALSE
          OBVIOUS
        <5>1. n \in 1 .. l
          BY <1>13, <3>5
        <5> QED
          BY <1>3, <2>5, <5>1
      <4>2. q # l
        <5> SUFFICES ASSUME q = l PROVE FALSE
          OBVIOUS
        <5>1. n \in {l + 1, r + 1}
          BY <1>8, <3>5
        <5> QED
          BY <1>3, <2>5, <5>1
      <4>3. q > l /\ q \in 1 .. L + 1
        BY <1>12, <3>5, <4>1, <4>2
      <4>4. q - 1 = p
        BY <1>5, <1>9, <3>2, <3>5, <4>3
      <4> QED
        BY <3>3, <4>3, <4>4
    <3>6. p + 1 \in 1 .. L + 1
      BY <3>3
    <3> QED
      BY <3>4, <3>5, <3>6
  <2> QED
    BY <1>3, <2>2, <2>3, <2>4, <2>5
<1>16. Nested(u)
  <2> SUFFICES ASSUME NEW p, NEW c, Under(u, p, c), NEW m \in p + 1 .. c, NEW q, Under(u, q, m)
               PROVE  q >= p
    BY DEF Nested
  <2>0. p \in 1 .. L + 1 /\ c \in 1 .. L + 1 /\ q \in 1 .. L + 1 /\ m > q /\ m \in Int
    BY <1>3, <1>12, <1>14 DEF After1
  <2>1. CASE p < l
    <3>1. c \in 1 .. l /\ (c = l => p = h) /\ Under(t, p, c)
      BY <1>13, <2>1
    <3>2. q < l
      BY <1>3, <2>0, <3>1
    <3>3. Under(t, q, m)
      BY <1>13, <3>2
    <3> QED
      BY <1>11, <3>1, <3>3 DEF TreeOK, Nested
  <2>2. CASE p = l
    <3>1. m > l
      BY <1>3, <2>0, <2>2
    <3>2. q < l => m \in 1 .. l
      BY <1>13
    <3> QED
      BY <1>3, <2>0, <2>2, <3>1, <3>2
  <2>3. CASE p > l
    <3>1. /\ p - 1 \in 1 .. L /\ c - 1 \in 1 .. L /\ Under(t, p - 1, c - 1)
          /\ m - 1 \in (p - 1) + 1 .. c - 1 /\ m > l + 1
      BY <1>3, <1>9, <2>0, <2>3
    <3>2. CASE q < l
      BY <1>3, <1>13, <3>1, <3>2
    <3>3. CASE q = l
      <4>1. m - 1 = r
        BY <1>3, <1>8, <2>0, <3>1, <3>3
      <4>2. h >= p - 1
        BY <1>3, <1>11, <3>1, <4>1 DEF TreeOK, Nested
      <4> QED
        BY <1>3, <2>0, <2>3, <4>2
    <3>4. CASE q > l
      <4>1. Under(t, q - 1, m - 1)
        BY <1>9, <3>4
      <4>2. q - 1 >= p - 1
        BY <1>11, <3>1, <4>1 DEF TreeOK, Nested
      <4> QED
        BY <2>0, <4>2
    <3> QED
      BY <1>3, <2>0, <3>2, <3>3, <3>4
  <2> QED
    BY <1>3, <2>0, <2>1, <2>2, <2>3
<1>17. \A k \in 1 .. h : AtTheEnd(t, k) => AtTheEnd(u, k)
  <2> SUFFICES ASSUME NEW k \in 1 .. h, AtTheEnd(t, k), NEW m, NEW q, Under(u, q, m), m > k
               PROVE  q >= k
    BY DEF AtTheEnd
  <2>1. q < l => Under(t, q, m)
    BY <1>7
  <2>2. q < l => q >= k
    BY <2>1 DEF AtTheEnd
  <2> QED
    BY <1>3, <1>12, <2>2
<1>18. Increasing(u)
  <2> SUFFICES ASSUME NEW n \in 1 .. L + 1, NEW i \in DOMAIN u[n].kids, NEW j \in DOMAIN u[n].kids,
                      i < j
               PROVE  u[n].kids[i] < u[n].kids[j]
    BY <1>3 DEF Increasing
  <2>0. \A m \in 1 .. L : \A x, y \in DOMAIN t[m].kids : x < y => t[m].kids[x] < t[m].kids[y]
    BY <1>3, <1>11 DEF TreeOK, Increasing
  <2>1. CASE n = h
    <3>1. PICK k \in Seq(Nat) : k = t[h].kids
      <4>1. t[h] \in Node
        BY <1>3
      <4> QED
        BY <4>1 DEF Node
    <3>2. PICK K \in Nat : K = Len(k) /\ DOMAIN k = 1 .. K
      OBVIOUS
    <3>3. u[n].kids = SubSeq(k, 1, K - 1) /\ K >= 2
      BY <2>1, <3>1, <3>2 DEF Joins, Latest
    <3>4. DOMAIN u[n].kids = 1 .. K - 1 /\ \A x \in 1 .. K - 1 : u[n].kids[x] = k[x]
      BY <3>2, <3>3, SMTT(30)
    <3>5. i \in 1 .. K /\ j \in 1 .. K
      BY <3>2, <3>4
    <3>6. h \in 1 .. L
      BY <1>3
    <3>7. k[i] < k[j]
      BY <2>0, <3>1, <3>2, <3>5, <3>6
    <3> QED
      BY <3>4, <3>7
  <2>2. CASE n < l /\ n # h
    <3>1. n \in 1 .. L /\ u[n] = t[n]
      BY <1>2, <1>3, <2>2 DEF Joins
    <3> QED
      BY <2>0, <3>1
  <2>3. CASE n = l
    <3>1. PICK s : s = <<l + 1, r + 1>>
      OBVIOUS
    <3>2. u[n].kids = s
      BY <2>3, <3>1 DEF Joins
    <3>3. DOMAIN s = 1 .. 2 /\ s[1] = l + 1 /\ s[2] = r + 1
      BY <3>1
    <3>4. i = 1 /\ j = 2
      BY <3>2, <3>3
    <3> QED
      BY <1>3, <3>2, <3>3, <3>4
  <2>4. CASE n > l
    <3>1. PICK m \in 1 .. L : n = m + 1 /\ m >= l
      <4>1. n - 1 \in 1 .. L /\ n = (n - 1) + 1 /\ n - 1 >= l
        BY <1>3, <2>4
      <4> QED
        BY <4>1
    <3>2. /\ DOMAIN u[n].kids = DOMAIN t[m].kids
          /\ \A x \in DOMAIN t[m].kids : u[n].kids[x] = t[m].kids[x] + 1
      BY <1>2, <3>1 DEF Joins
    <3>3. \A x \in DOMAIN t[m].kids : t[m].kids[x] \in Nat
      <4>1. t[m] \in Node
        BY <1>3
      <4>2. t[m].kids \in Seq(Nat)
        BY <4>1 DEF Node
      <4> QED
        BY <4>2
    <3>4. i \in DOMAIN t[m].kids /\ j \in DOMAIN t[m].kids /\ t[m].kids[i] < t[m].kids[j]
      BY <2>0, <3>1, <3>2
    <3> QED
      BY <3>2, <3>3, <3>4
  <2> QED
    BY <1>3, <2>1, <2>2, <2>3, <2>4
<1>19. \A n \in 1 .. L + 1 : PlainPar(u[n])
  <2> SUFFICES ASSUME NEW n \in 1 .. L + 1 PROVE PlainPar(u[n])
    OBVIOUS
  <2>0. \A m \in 1 .. L : PlainPar(t[m])
    BY <1>3, <1>11 DEF TreeOK
  <2>1. CASE n = h
    BY <1>3, <2>0, <2>1 DEF Joins, SameFields, PlainPar
  <2>2. CASE n < l /\ n # h
    <3>1. n \in 1 .. L /\ u[n] = t[n]
      BY <1>2, <1>3, <2>2 DEF Joins
    <3> QED
      BY <2>0, <3>1
  <2>3. CASE n = l
    BY <2>3 DEF Joins, PlainPar
  <2>4. CASE n > l
    <3>1. PICK m \in 1 .. L : n = m + 1 /\ m >= l
      <4>1. n - 1 \in 1 .. L /\ n = (n - 1) + 1 /\ n - 1 >= l
        BY <1>3, <2>4
      <4> QED
        BY <4>1
    <3>2. SameFields(u[n], t[m])
      BY <1>2, <3>1 DEF Joins
    <3> QED
      BY <2>0, <3>2 DEF SameFields, PlainPar
  <2> QED
    BY <1>3, <2>1, <2>2, <2>3, <2>4
<1>20. u # <<>> /\ u[1].kind = "program"
  <2>1. t[1].kind = "program" /\ 1 \in 1 .. L /\ 1 \in 1 .. L + 1 /\ 1 < l
    BY <1>3, <1>11 DEF TreeOK
  <2>2. CASE h = 1
    BY <2>1, <2>2 DEF Joins, SameFields
  <2>3. CASE h # 1
    BY <1>2, <2>1, <2>3 DEF Joins
  <2>4. u[1].kind = "program"
    BY <2>2, <2>3
  <2> QED
    BY <1>3, <2>1, <2>4
<1> QED
  BY <1>3, <1>14, <1>15, <1>16, <1>17, <1>18, <1>19, <1>20 DEF TreeOK

-----------------------------------------------------------------------------
(* What a node looks like to the operations that complete it: its kind and *)
(* fields, and the kinds of its parts.                                     *)

Faces == [kind : Kinds, par : ParallelTypes]
Looks == [kind : Kinds, name : Names \cup {"-"}, type : Types \cup {"void", "-"},
          par : ParallelTypes, op : BinaryOps \cup UpdateOps \cup {"-"}, kids : Seq(Faces)]

Face(nd) == [kind |-> nd.kind, par |-> IF nd.kind = "call" THEN nd.par ELSE "regular"]
FaceOf(kind) == [kind |-> kind, par |-> "regular"]

Look(tree, n) ==
  LET nd == tree[n]
  IN  [kind |-> nd.kind, name |-> nd.name, type |-> nd.type, par |-> nd.par, op |-> nd.op,
       kids |-> [i \in DOMAIN nd.kids |-> Face(tree[nd.kids[i]])]]

ExprFaces == {f \in Faces : f.kind \in ExprKinds}
StmtFaces == {f \in Faces : f.kind \in StmtKinds /\ (f.kind = "call" => f.par # "regular")}

AllKids(l, from, kinds) == \A i \in DOMAIN l.kids : i >= from => l.kids[i].kind \in kinds

(* Shape, of a look *)
Good(l) ==
  CASE l.kind \in {"program", "block", "thread", "func"} ->
         /\ AllKids(l, 1, StmtKinds)
         /\ l.kind = "func" => l.name \in Names
         /\ \A i \in DOMAIN l.kids : l.kids[i].kind = "call" => l.kids[i].par # "regular"
    [] l.kind = "decl" ->
         /\ l.name \in Names /\ l.type \in Types
         /\ Len(l.kids) = 1 /\ l.kids[1].kind \in ExprKinds
         /\ l.par # "regular" => l.kids[1].kind = "call" /\ l.kids[1].par = l.par
    [] l.kind = "update" ->
         /\ l.name \in Names /\ l.op \in UpdateOps
         /\ Len(l.kids) = IF l.op = "++" THEN 0 ELSE 1
         /\ AllKids(l, 1, ExprKinds)
    [] l.kind = "if" ->
         /\ Len(l.kids) \in {2, 3}
         /\ l.kids[1].kind \in ExprKinds /\ l.kids[2].kind = "block"
         /\ AllKids(l, 3, {"block", "if"})
    [] l.kind = "for" ->
         /\ Len(l.kids) = 4
         /\ l.kids[1].kind = "decl" /\ l.kids[2].kind \in ExprKinds
         /\ l.kids[3].kind = "update" /\ l.kids[4].kind = "block"
    [] l.kind \in {"return", "print", "unary"} ->
         Len(l.kids) = 1 /\ l.kids[1].kind \in ExprKinds
    [] l.kind = "await" -> AllKids(l, 1, {"ident"})
    [] l.kind = "call"  -> l.name \in Names /\ AllKids(l, 1, ExprKinds)
    [] l.kind = "binop" ->
         /\ l.op \in BinaryOps /\ Len(l.kids) = 2
         /\ AllKids(l, 1, ExprKinds)
    [] l.kind = "ident" -> l.name \in Names /\ l.kids = <<>>
    [] OTHER -> l.kids = <<>>

GoodLooks == {l \in Looks : Good(l)}

-----------------------------------------------------------------------------
(* What an item needs, and what it may make of the node.                   *)

Single == {"statement", "unary", "call", "block", "if", "declaration", "update",
           "inline", "awaited"}
Ops    == Single \cup {"eat", "list", "comma", "type", "param", "else", "value", "assign",
                       "more", "join"}
Whats  == Words \cup Marks \cup Content \cup Types \cup BinaryOps
            \cup {"program", "statements", "arguments", "params", "names"}
            \cup {"-", "decl", "param"}
Items  == [op : Ops, what : Whats, level : Nat]

Bigger(l, f) == [l EXCEPT !.kids = Append(@, f)]

(* The part that an item adds which adds one. *)
PartOf(x) ==
  CASE x.op = "statement"   -> StmtFaces
    [] x.op = "unary"       -> ExprFaces
    [] x.op = "call"        -> {[kind |-> "call", par |-> x.what]}
    [] x.op = "block"       -> {FaceOf("block")}
    [] x.op = "if"          -> {FaceOf("if")}
    [] x.op = "declaration" -> {FaceOf("decl")}
    [] x.op = "update"      -> {FaceOf("update")}
    [] x.op = "inline"      -> {FaceOf("thread")}
    [] x.op = "awaited"     -> {FaceOf("ident")}

(* The parts of a list *)
PartsOf(what) == CASE what \in {"program", "statements"} -> StmtFaces
                   [] what = "arguments" -> ExprFaces
                   [] what = "names"     -> {FaceOf("ident")}

Idle(x) == \/ x.op = "eat" /\ x.what # "name"
           \/ x.op = "comma"
           \/ x.op = "param"
           \/ x.op = "type" /\ x.what = "param"
           \/ x.op = "list" /\ x.what = "params"

LastFace(l, k) == l.kids[Len(l.kids) - k]

Can(x, l) ==
  \/ Idle(x) /\ (x.op = "param" => x.what \in Types)
  \/ x.op = "eat" /\ x.what = "name" /\ l.kids = <<>>
  \/ x.op \in Single /\ (x.op = "call" => x.what \in {"thread", "process"})
  \/ x.op = "type" /\ x.what \in {"func", "decl"}
  \/ x.op = "list" /\ x.what \in {"program", "statements", "arguments", "names"}
  \/ x.op = "more" /\ x.level \in 1 .. 4 /\ Len(l.kids) >= 1 /\ LastFace(l, 0) \in ExprFaces
  \/ /\ x.op = "join" /\ x.what \in BinaryOps /\ Len(l.kids) >= 2
     /\ LastFace(l, 0) \in ExprFaces /\ LastFace(l, 1) \in ExprFaces
  \/ x.op = "else"
  \/ x.op = "value" /\ l.kind = "decl"
  \/ x.op = "assign"

Effect(x, l) ==
  CASE Idle(x)          -> {l}
    [] x.op = "eat" /\ ~Idle(x) -> {[l EXCEPT !.name = v] : v \in Names}
    [] x.op \in Single  -> {Bigger(l, f) : f \in PartOf(x)}
    [] x.op = "type" /\ ~Idle(x) ->
         {[l EXCEPT !.type = t] : t \in IF x.what = "func" THEN Types \cup {"void"} ELSE Types}
    [] x.op = "list" /\ ~Idle(x) -> {[l EXCEPT !.kids = @ \o fs] : fs \in Seq(PartsOf(x.what))}
    [] x.op = "more"    ->
         {[l EXCEPT !.kids = Append(SubSeq(@, 1, Len(@) - 1), f)] : f \in ExprFaces}
    [] x.op = "join"    ->
         {[l EXCEPT !.kids = Append(SubSeq(@, 1, Len(@) - 2), FaceOf("binop"))]}
    [] x.op = "else"    -> {l} \cup {Bigger(l, FaceOf(k)) : k \in {"block", "if"}}
    [] x.op = "value"   ->
         {[Bigger(l, f) EXCEPT !.par = "regular"] : f \in ExprFaces}
           \cup {[Bigger(l, [kind |-> "call", par |-> p]) EXCEPT !.par = p] :
                   p \in {"thread", "process"}}
    [] x.op = "assign"  ->
         {[l EXCEPT !.op = "++"]}
           \cup {[Bigger(l, f) EXCEPT !.op = o] : f \in ExprFaces, o \in UpdateOps \ {"++"}}

LEMMA EffectLooks ==
  ASSUME NEW x \in Items, NEW l \in Looks, Can(x, l)
  PROVE  Effect(x, l) \in SUBSET Looks
<1>1. /\ l.kids \in Seq(Faces) /\ ExprFaces \subseteq Faces /\ StmtFaces \subseteq Faces
      /\ \A k \in Kinds : FaceOf(k) \in Faces
      /\ \A p \in ParallelTypes : [kind |-> "call", par |-> p] \in Faces
  BY DEF Looks, Faces, ExprFaces, StmtFaces, FaceOf, Kinds, StmtKinds, ParallelTypes
<1>2. \A f \in Faces : Bigger(l, f) \in Looks
  BY <1>1 DEF Looks, Bigger
<1>3. \A s \in Seq(Faces) : [l EXCEPT !.kids = s] \in Looks
  BY DEF Looks
<1>4. {"block", "if", "decl", "update", "thread", "ident", "binop"} \subseteq Kinds
  BY DEF Kinds, StmtKinds, ExprKinds
<1>5. CASE Idle(x)
  <2>1. Effect(x, l) = {l}
    BY <1>5 DEF Effect, Idle, Single
  <2> QED
    BY <2>1
<1>6. CASE x.op = "eat" /\ ~Idle(x)
  <2>1. \A v \in Names : [l EXCEPT !.name = v] \in Looks
    BY DEF Looks
  <2>2. Effect(x, l) = {[l EXCEPT !.name = v] : v \in Names}
    BY <1>6 DEF Effect, Idle, Single
  <2> QED
    BY <2>1, <2>2
<1>7. CASE x.op \in Single /\ ~Idle(x)
  <2>1. PartOf(x) \subseteq Faces
    BY <1>1, <1>4, <1>7 DEF PartOf, Single, Can, Idle, ParallelTypes
  <2>2. Effect(x, l) = {Bigger(l, f) : f \in PartOf(x)}
    BY <1>7 DEF Effect, Single
  <2> QED
    BY <1>2, <2>1, <2>2
<1>8. CASE x.op = "type" /\ ~Idle(x)
  <2>1. \A t \in Types \cup {"void"} : [l EXCEPT !.type = t] \in Looks
    BY DEF Looks
  <2>2. Effect(x, l) = {[l EXCEPT !.type = t] :
                        t \in IF x.what = "func" THEN Types \cup {"void"} ELSE Types}
    BY <1>8 DEF Effect, Single
  <2> QED
    BY <2>1, <2>2
<1>9. CASE x.op = "list" /\ ~Idle(x)
  <2>1. PartsOf(x.what) \subseteq Faces
    BY <1>1, <1>4, <1>9 DEF PartsOf, Can, Idle, Single
  <2>2. \A fs \in Seq(PartsOf(x.what)) : l.kids \o fs \in Seq(Faces)
    BY <1>1, <2>1, SeqMonotonic, ConcatProperties
  <2>3. Effect(x, l) = {[l EXCEPT !.kids = @ \o fs] : fs \in Seq(PartsOf(x.what))}
    BY <1>9 DEF Effect, Single
  <2> QED
    BY <1>3, <2>2, <2>3
<1>10. CASE x.op = "more"
  <2>1. SubSeq(l.kids, 1, Len(l.kids) - 1) \in Seq(Faces)
    BY <1>1
  <2>2. \A f \in ExprFaces : Append(SubSeq(l.kids, 1, Len(l.kids) - 1), f) \in Seq(Faces)
    BY <1>1, <2>1
  <2>3. Effect(x, l) = {[l EXCEPT !.kids = Append(SubSeq(@, 1, Len(@) - 1), f)] :
                        f \in ExprFaces}
    BY <1>10 DEF Effect, Single, Idle
  <2> QED
    BY <1>3, <2>2, <2>3
<1>11. CASE x.op = "join"
  <2>1. SubSeq(l.kids, 1, Len(l.kids) - 2) \in Seq(Faces)
    BY <1>1
  <2>2. Append(SubSeq(l.kids, 1, Len(l.kids) - 2), FaceOf("binop")) \in Seq(Faces)
    BY <1>1, <1>4, <2>1
  <2>3. Effect(x, l) = {[l EXCEPT !.kids = Append(SubSeq(@, 1, Len(@) - 2), FaceOf("binop"))]}
    BY <1>11 DEF Effect, Single, Idle
  <2> QED
    BY <1>3, <2>2, <2>3
<1>12. CASE x.op = "else"
  <2>1. Effect(x, l) = {l} \cup {Bigger(l, FaceOf(k)) : k \in {"block", "if"}}
    BY <1>12 DEF Effect, Single, Idle
  <2> QED
    BY <1>1, <1>2, <1>4, <2>1
<1>13. CASE x.op = "value"
  <2>1. \A m \in Looks : \A p \in ParallelTypes : [m EXCEPT !.par = p] \in Looks
    BY DEF Looks
  <2>2. Effect(x, l) = {[Bigger(l, f) EXCEPT !.par = "regular"] : f \in ExprFaces}
           \cup {[Bigger(l, [kind |-> "call", par |-> p]) EXCEPT !.par = p] :
                   p \in {"thread", "process"}}
    BY <1>13 DEF Effect, Single, Idle
  <2> QED
    BY <1>1, <1>2, <2>1, <2>2 DEF ParallelTypes
<1>14. CASE x.op = "assign"
  <2>1. \A m \in Looks : \A o \in UpdateOps : [m EXCEPT !.op = o] \in Looks
    BY DEF Looks
  <2>2. Effect(x, l) = {[l EXCEPT !.op = "++"]}
           \cup {[Bigger(l, f) EXCEPT !.op = o] : f \in ExprFaces, o \in UpdateOps \ {"++"}}
    BY <1>14 DEF Effect, Single, Idle
  <2>3. [l EXCEPT !.op = "++"] \in Looks
    BY <2>1 DEF UpdateOps
  <2>4. \A f \in ExprFaces : \A o \in UpdateOps : [Bigger(l, f) EXCEPT !.op = o] \in Looks
    BY <1>1, <1>2, <2>1
  <2> QED
    BY <2>2, <2>3, <2>4
<1>15. \/ Idle(x)
       \/ ~Idle(x) /\ (x.op \in Single \/ x.op \in {"eat", "type", "list"})
       \/ x.op \in {"more", "join", "else", "value", "assign"}
  BY DEF Can
<1> QED
  BY <1>5, <1>6, <1>7, <1>8, <1>9, <1>10, <1>11, <1>12, <1>13, <1>14, <1>15

-----------------------------------------------------------------------------
(* Items that lead from a look to looks in T, whatever each makes of it.   *)
(* A plan has what there can be before each of them, and after the last.   *)

PlanFor(W, g, T) ==
  /\ W \in [1 .. Len(g) + 1 -> SUBSET Looks] /\ W[Len(g) + 1] \subseteq T
  /\ \A i \in 1 .. Len(g) : \A l \in W[i] : Can(g[i], l) /\ Effect(g[i], l) \subseteq W[i + 1]

Leads(g, l, T) == \E W : PlanFor(W, g, T) /\ l \in W[1]

LEMMA LeadsNowhere ==
  ASSUME NEW T \in SUBSET Looks, NEW l \in Looks
  PROVE  Leads(<<>>, l, T) <=> l \in T
<1>1. ASSUME Leads(<<>>, l, T) PROVE l \in T
  BY <1>1 DEF Leads, PlanFor
<1>2. ASSUME l \in T PROVE Leads(<<>>, l, T)
  <2> DEFINE W == [i \in 1 .. 1 |-> {l}]
  <2>1. PlanFor(W, <<>>, T) /\ l \in W[1]
    BY <1>2 DEF PlanFor
  <2> QED
    BY <2>1 DEF Leads
<1> QED
  BY <1>1, <1>2

LEMMA LeadsFirst ==
  ASSUME NEW g \in Seq(Items), g # <<>>, NEW l \in Looks, NEW T, Leads(g, l, T)
  PROVE  Can(g[1], l) /\ \A m \in Effect(g[1], l) : Leads(Tail(g), m, T)
<1>1. PICK W : PlanFor(W, g, T) /\ l \in W[1]
  BY DEF Leads
<1>2. /\ Len(g) \in Nat /\ Len(g) >= 1 /\ Len(Tail(g)) = Len(g) - 1
      /\ \A i \in 1 .. Len(g) - 1 : Tail(g)[i] = g[i + 1]
  OBVIOUS
<1>3. Can(g[1], l) /\ Effect(g[1], l) \subseteq W[2]
  BY <1>1, <1>2 DEF PlanFor
<1> DEFINE V == [i \in 1 .. Len(Tail(g)) + 1 |-> W[i + 1]]
<1>4. PlanFor(V, Tail(g), T)
  <2>1. V \in [1 .. Len(Tail(g)) + 1 -> SUBSET Looks]
    BY <1>1, <1>2 DEF PlanFor
  <2>2. V[Len(Tail(g)) + 1] \subseteq T
    BY <1>1, <1>2 DEF PlanFor
  <2>3. ASSUME NEW i \in 1 .. Len(Tail(g)), NEW k \in V[i]
        PROVE  Can(Tail(g)[i], k) /\ Effect(Tail(g)[i], k) \subseteq V[i + 1]
    <3>1. i + 1 \in 1 .. Len(g) /\ V[i] = W[i + 1] /\ V[i + 1] = W[i + 2] /\ Tail(g)[i] = g[i + 1]
      BY <1>2
    <3>2. Can(g[i + 1], k) /\ Effect(g[i + 1], k) \subseteq W[(i + 1) + 1]
      BY <1>1, <3>1 DEF PlanFor
    <3> QED
      BY <3>1, <3>2
  <2> QED
    BY <2>1, <2>2, <2>3 DEF PlanFor
<1>5. V[1] = W[2]
  BY <1>2
<1> QED
  BY <1>3, <1>4, <1>5 DEF Leads

(* First some items and then others, from each look that the first lead to *)
LEMMA LeadsOn ==
  ASSUME NEW a \in Seq(Items), NEW b \in Seq(Items), NEW l \in Looks, NEW T,
         NEW M \in SUBSET Looks, Leads(a, l, M), \A m \in M : Leads(b, m, T)
  PROVE  Leads(a \o b, l, T)
<1>1. PICK W : PlanFor(W, a, M) /\ l \in W[1]
  BY DEF Leads
<1>2. PICK A : A = Len(a)
  OBVIOUS
<1>3. PICK B : B = Len(b)
  OBVIOUS
<1>4. PICK g : g = a \o b
  OBVIOUS
<1>5. /\ A \in Nat /\ B \in Nat /\ Len(g) = A + B
      /\ \A i \in 1 .. A + B : g[i] = IF i <= A THEN a[i] ELSE b[i - A]
  BY <1>2, <1>3, <1>4, ConcatProperties
<1> DEFINE Plans == {V \in [1 .. B + 1 -> SUBSET Looks] : PlanFor(V, b, T)}
           U == [i \in 1 .. A + B + 1 |-> IF i <= A THEN W[i] ELSE UNION {V[i - A] : V \in Plans}]
<1>6. U \in [1 .. A + B + 1 -> SUBSET Looks]
  <2>1. ASSUME NEW i \in 1 .. A + B + 1 PROVE U[i] \in SUBSET Looks
    <3>1. CASE i <= A
      <4>1. i \in 1 .. A + 1 /\ U[i] = W[i]
        BY <1>5, <3>1
      <4> QED
        BY <1>1, <1>2, <4>1 DEF PlanFor
    <3>2. CASE ~(i <= A)
      <4>1. i - A \in 1 .. B + 1 /\ U[i] = UNION {V[i - A] : V \in Plans}
        BY <1>5, <3>2
      <4>2. \A V \in Plans : V[i - A] \in SUBSET Looks
        BY <4>1
      <4> QED
        BY <4>1, <4>2
    <3> QED
      BY <3>1, <3>2
  <2> QED
    BY <2>1
<1>7. M \subseteq U[A + 1]
  <2> SUFFICES ASSUME NEW m \in M PROVE m \in U[A + 1]
    OBVIOUS
  <2>1. PICK V : PlanFor(V, b, T) /\ m \in V[1]
    BY DEF Leads
  <2>2. V \in Plans
    BY <1>3, <2>1 DEF PlanFor
  <2>3. A + 1 \in 1 .. A + B + 1 /\ ~(A + 1 <= A) /\ (A + 1) - A = 1
    BY <1>5
  <2>4. U[A + 1] = UNION {V2[1] : V2 \in Plans}
    BY <2>3
  <2> QED
    BY <2>1, <2>2, <2>4
<1>8. U[A + B + 1] \subseteq T
  <2>1. A + B + 1 \in 1 .. A + B + 1 /\ ~(A + B + 1 <= A) /\ (A + B + 1) - A = B + 1
    BY <1>5
  <2>2. U[A + B + 1] = UNION {V2[B + 1] : V2 \in Plans}
    BY <2>1
  <2>3. \A V \in Plans : V[B + 1] \subseteq T
    BY <1>3 DEF PlanFor
  <2> QED
    BY <2>2, <2>3
<1>9. ASSUME NEW i \in 1 .. A + B, NEW k \in U[i]
      PROVE  Can(g[i], k) /\ Effect(g[i], k) \subseteq U[i + 1]
  <2>1. CASE i <= A
    <3>1. /\ i \in 1 .. Len(a) /\ i \in 1 .. A + B + 1 /\ i + 1 \in 1 .. A + B + 1
          /\ U[i] = W[i] /\ g[i] = a[i]
      BY <1>2, <1>5, <2>1
    <3>2. Can(g[i], k) /\ Effect(g[i], k) \subseteq W[i + 1]
      BY <1>1, <3>1 DEF PlanFor
    <3>3. W[i + 1] \subseteq U[i + 1]
      <4>1. CASE i + 1 <= A
        BY <3>1, <4>1
      <4>2. CASE ~(i + 1 <= A)
        <5>1. i + 1 = A + 1
          BY <1>5, <2>1, <4>2
        <5>2. W[A + 1] \subseteq M
          BY <1>1, <1>2 DEF PlanFor
        <5> QED
          BY <1>7, <5>1, <5>2
      <4> QED
        BY <4>1, <4>2
    <3> QED
      BY <3>2, <3>3
  <2>2. CASE ~(i <= A)
    <3>1. /\ i - A \in 1 .. B /\ i \in 1 .. A + B + 1 /\ i + 1 \in 1 .. A + B + 1
          /\ ~(i + 1 <= A) /\ (i + 1) - A = (i - A) + 1 /\ g[i] = b[i - A]
      BY <1>5, <2>2, SMTT(30)
    <3>2. U[i] = UNION {V[i - A] : V \in Plans}
      BY <2>2, <3>1
    <3>3. PICK V \in Plans : k \in V[i - A]
      BY <3>2
    <3>4. Can(b[i - A], k) /\ Effect(b[i - A], k) \subseteq V[(i - A) + 1]
      BY <1>3, <3>1, <3>3 DEF PlanFor
    <3>5. U[i + 1] = UNION {V2[(i - A) + 1] : V2 \in Plans}
      BY <3>1
    <3> QED
      BY <3>1, <3>3, <3>4, <3>5
  <2> QED
    BY <2>1, <2>2
<1>10. l \in U[1]
  <2>1. CASE 1 <= A
    BY <1>1, <1>5, <2>1
  <2>2. CASE ~(1 <= A)
    <3>1. A = 0
      BY <1>5, <2>2
    <3>2. W[1] \subseteq M
      BY <1>1, <1>2, <3>1 DEF PlanFor
    <3> QED
      BY <1>1, <1>7, <3>1, <3>2
  <2> QED
    BY <2>1, <2>2
<1> HIDE DEF U
<1>11. PlanFor(U, g, T)
  <2>1. Len(g) + 1 = A + B + 1
    BY <1>5
  <2> QED
    BY <1>5, <1>6, <1>8, <1>9, <2>1 DEF PlanFor
<1> QED
  BY <1>4, <1>10, <1>11 DEF Leads

LEMMA LeadsByOne ==
  ASSUME NEW x \in Items, NEW g \in Seq(Items), NEW l \in Looks, NEW T,
         Can(x, l), \A m \in Effect(x, l) : Leads(g, m, T)
  PROVE  Leads(<<x>> \o g, l, T)
<1> DEFINE W == [i \in 1 .. 2 |-> IF i = 1 THEN {l} ELSE Effect(x, l)]
<1>1. Effect(x, l) \in SUBSET Looks
  BY EffectLooks
<1>2. PlanFor(W, <<x>>, Effect(x, l))
  <2>1. Len(<<x>>) = 1 /\ <<x>>[1] = x
    OBVIOUS
  <2>2. W \in [1 .. 2 -> SUBSET Looks] /\ W[1] = {l} /\ W[2] = Effect(x, l)
    BY <1>1
  <2> HIDE DEF W
  <2> QED
    BY <2>1, <2>2 DEF PlanFor
<1>3. l \in W[1]
  OBVIOUS
<1>4. Leads(<<x>>, l, Effect(x, l))
  BY <1>2, <1>3 DEF Leads
<1>5. <<x>> \in Seq(Items)
  OBVIOUS
<1> QED
  BY <1>1, <1>4, <1>5, LeadsOn

LEMMA LeadsFurther ==
  ASSUME NEW g, NEW l, NEW T, NEW U, T \subseteq U, Leads(g, l, T)
  PROVE  Leads(g, l, U)
BY DEF Leads, PlanFor

-----------------------------------------------------------------------------
(* Items that come after one another *)

LEMMA ItemFacts ==
  /\ \A k \in Whats : /\ Eat(k) \in Items /\ Eat(k).op = "eat" /\ Eat(k).what = k
                      /\ List(k) \in Items /\ List(k).op = "list" /\ List(k).what = k
                      /\ CallIn(k) \in Items /\ CallIn(k).op = "call" /\ CallIn(k).what = k
  /\ \A o \in Ops : Enter(o) \in Items /\ Enter(o).op = o /\ Enter(o).what = "-"
  /\ \A n \in Nat : More(n) \in Items /\ More(n).op = "more" /\ More(n).level = n
  /\ \A o \in Ops, w \in Whats : /\ Item(o, w, 0) \in Items
                                 /\ Item(o, w, 0).op = o /\ Item(o, w, 0).what = w
<1>1. "-" \in Whats /\ {"eat", "list", "call", "more"} \subseteq Ops
  BY DEF Ops, Single, Whats
<1>2. \A o \in Ops, w \in Whats, n \in Nat :
        /\ Item(o, w, n) \in Items
        /\ Item(o, w, n).op = o /\ Item(o, w, n).what = w /\ Item(o, w, n).level = n
  BY DEF Item, Items
<1>3. 0 \in Nat
  OBVIOUS
<1> QED
  BY <1>1, <1>2, <1>3 DEF Eat, Enter, List, CallIn, More

LEMMA EffectOfIdle ==
  ASSUME NEW x, NEW l, Idle(x)
  PROVE  Effect(x, l) = {l}
BY DEF Effect, Idle, Single

LEMMA EffectOfSingle ==
  ASSUME NEW x, NEW l, x.op \in Single
  PROVE  Effect(x, l) = {Bigger(l, f) : f \in PartOf(x)}
BY DEF Effect, Idle, Single

LEMMA EffectOfMore ==
  ASSUME NEW x, NEW l, x.op = "more"
  PROVE  Effect(x, l) = {[l EXCEPT !.kids = Append(SubSeq(@, 1, Len(@) - 1), f)] :
                           f \in ExprFaces}
BY DEF Effect, Idle, Single

LEMMA LeadsIdle ==
  ASSUME NEW g \in Seq(Items), NEW l \in Looks, NEW T, l \in T,
         \A i \in 1 .. Len(g) : Idle(g[i]) /\ g[i].op # "param"
  PROVE  Leads(g, l, T)
<1> DEFINE W == [i \in 1 .. Len(g) + 1 |-> {l}]
<1>1. Len(g) \in Nat
  OBVIOUS
<1>2. \A i \in 1 .. Len(g) : Can(g[i], l) /\ Effect(g[i], l) = {l}
  BY EffectOfIdle DEF Can
<1>3. PlanFor(W, g, T)
  <2>1. W \in [1 .. Len(g) + 1 -> SUBSET Looks] /\ W[Len(g) + 1] \subseteq T
    BY <1>1
  <2>2. \A i \in 1 .. Len(g) : W[i] = {l} /\ W[i + 1] = {l}
    BY <1>1
  <2> HIDE DEF W
  <2> QED
    BY <1>2, <2>1, <2>2 DEF PlanFor
<1>4. l \in W[1]
  BY <1>1
<1> QED
  BY <1>3, <1>4 DEF Leads

(* One more item in front *)
LEMMA LeadsIdleFirst ==
  ASSUME NEW x \in Items, NEW g \in Seq(Items), NEW l \in Looks, NEW T,
         Idle(x), x.op # "param", Leads(g, l, T)
  PROVE  Leads(<<x>> \o g, l, T)
BY LeadsByOne, EffectOfIdle DEF Can

LEMMA LeadsSingle ==
  ASSUME NEW x \in Items, NEW g \in Seq(Items), NEW l \in Looks, NEW T,
         x.op \in Single, x.op = "call" => x.what \in {"thread", "process"},
         \A f \in PartOf(x) : Leads(g, Bigger(l, f), T)
  PROVE  Leads(<<x>> \o g, l, T)
<1>1. Can(x, l)
  BY DEF Can
<1>2. \A m \in Effect(x, l) : Leads(g, m, T)
  BY EffectOfSingle
<1> QED
  BY <1>1, <1>2, LeadsByOne

LEMMA LeadsOne ==
  ASSUME NEW x \in Items, NEW l \in Looks, NEW T, Can(x, l), Effect(x, l) \subseteq T
  PROVE  Leads(<<x>>, l, T)
<1>1. Effect(x, l) \in SUBSET Looks
  BY EffectLooks
<1>2. \A m \in Effect(x, l) : Leads(<<>>, m, Effect(x, l))
  BY <1>1, LeadsNowhere
<1>3. \A m \in Effect(x, l) : Leads(<<>>, m, T)
  BY <1>2, LeadsFurther
<1>4. <<>> \in Seq(Items) /\ <<x>> \o <<>> = <<x>>
  OBVIOUS
<1>5. Leads(<<x>> \o <<>>, l, T)
  BY <1>3, <1>4, LeadsByOne
<1> QED
  BY <1>4, <1>5

LEMMA BiggerFacts ==
  ASSUME NEW l \in Looks, NEW f \in Faces
  PROVE  /\ Bigger(l, f) \in Looks
         /\ Bigger(l, f).kids = Append(l.kids, f)
         /\ Bigger(l, f).kind = l.kind /\ Bigger(l, f).name = l.name
         /\ Bigger(l, f).type = l.type /\ Bigger(l, f).par = l.par
         /\ Bigger(l, f).op = l.op
BY DEF Bigger, Looks

LEMMA FaceFacts ==
  /\ ExprFaces \subseteq Faces /\ StmtFaces \subseteq Faces
  /\ \A k \in Kinds : FaceOf(k) \in Faces /\ FaceOf(k).kind = k /\ FaceOf(k).par = "regular"
  /\ \A k \in ExprKinds : FaceOf(k) \in ExprFaces
  /\ \A k \in StmtKinds \ {"call"} : FaceOf(k) \in StmtFaces
  /\ \A p \in {"thread", "process"} :
       /\ [kind |-> "call", par |-> p] \in StmtFaces
       /\ [kind |-> "call", par |-> p] \in ExprFaces
BY DEF Faces, ExprFaces, StmtFaces, FaceOf, Kinds, StmtKinds, ExprKinds, ParallelTypes

With1(l) == {Bigger(l, f) : f \in ExprFaces}

LEMMA LeadsOperand ==
  ASSUME NEW k \in 1 .. 5, NEW l \in Looks
  PROVE  /\ Operand(k) \in Seq(Items)
         /\ Leads(Operand(k), l, With1(l))
<1> DEFINE mores == [i \in 1 .. 5 - k |-> More(5 - i)]
           M == With1(l)
<1>1. \A i \in 1 .. 5 - k : /\ More(5 - i) \in Items /\ More(5 - i).op = "more"
                            /\ More(5 - i).level \in 1 .. 4
  BY ItemFacts
<1>2. mores \in Seq(Items) /\ Len(mores) = 5 - k /\ 5 - k \in Nat
  BY <1>1
<1>3. M \subseteq Looks
  BY BiggerFacts, FaceFacts DEF With1
<1>4. ASSUME NEW m \in M, NEW i \in 1 .. Len(mores)
      PROVE  Can(mores[i], m) /\ Effect(mores[i], m) \subseteq M
  <2>1. PICK f \in ExprFaces : m = Bigger(l, f)
    BY DEF With1
  <2>2. f \in Faces /\ l.kids \in Seq(Faces)
    BY <2>1, FaceFacts DEF Looks
  <2>9. m.kids = Append(l.kids, f) /\ m \in Looks
    BY <2>1, <2>2, BiggerFacts
  <2>3. /\ Len(m.kids) = Len(l.kids) + 1 /\ Len(l.kids) \in Nat
        /\ m.kids[Len(m.kids)] = f /\ SubSeq(m.kids, 1, Len(m.kids) - 1) = l.kids
    BY <2>2, <2>9
  <2>4. LastFace(m, 0) = f
    BY <2>3 DEF LastFace
  <2>5. mores[i].op = "more" /\ mores[i].level \in 1 .. 4
    BY <1>1, <1>2
  <2>6. Can(mores[i], m)
    BY <2>3, <2>4, <2>5 DEF Can
  <2>7. Effect(mores[i], m)
          = {[m EXCEPT !.kids = Append(SubSeq(@, 1, Len(@) - 1), h)] : h \in ExprFaces}
    BY <2>5, EffectOfMore
  <2>8. \A h \in ExprFaces :
          [m EXCEPT !.kids = Append(SubSeq(@, 1, Len(@) - 1), h)] = Bigger(l, h)
    BY <2>1, <2>3 DEF Bigger, Looks
  <2> QED
    BY <2>6, <2>7, <2>8 DEF With1
<1> HIDE DEF mores, M
<1>5. ASSUME NEW m \in M PROVE Leads(mores, m, M)
  <2> DEFINE W == [i \in 1 .. Len(mores) + 1 |-> M]
  <2>1. W \in [1 .. Len(mores) + 1 -> SUBSET Looks] /\ W[Len(mores) + 1] \subseteq M
    BY <1>2, <1>3
  <2>2. /\ \A i \in 1 .. Len(mores) : W[i] = M /\ W[i + 1] = M
        /\ m \in W[1]
    BY <1>2
  <2> HIDE DEF W
  <2> QED
    BY <1>4, <2>1, <2>2 DEF PlanFor, Leads
<1>6. Enter("unary") \in Items /\ Enter("unary").op = "unary"
  BY ItemFacts DEF Ops, Single
<1>7. PartOf(Enter("unary")) = ExprFaces
  BY <1>6 DEF PartOf
<1>8. \A f \in ExprFaces : Bigger(l, f) \in M
  BY DEF M, With1
<1>9. Leads(<<Enter("unary")>> \o mores, l, M)
  BY <1>2, <1>5, <1>6, <1>7, <1>8, LeadsSingle DEF Single
<1>10. Operand(k) = <<Enter("unary")>> \o mores
  BY DEF Operand, mores
<1>11. Operand(k) \in Seq(Items)
  BY <1>2, <1>6, <1>10, ConcatProperties
<1> QED
  BY <1>9, <1>10, <1>11 DEF M

LEMMA LeadsExpression ==
  ASSUME NEW g \in Seq(Items), NEW l \in Looks, NEW T,
         \A f \in ExprFaces : Leads(g, Bigger(l, f), T)
  PROVE  Expression \in Seq(Items) /\ Leads(Expression \o g, l, T)
<1>1. 1 \in 1 .. 5
  OBVIOUS
<1>2. Expression \in Seq(Items) /\ Leads(Expression, l, With1(l))
  BY <1>1, LeadsOperand DEF Expression
<1>3. With1(l) \in SUBSET Looks
  BY BiggerFacts, FaceFacts DEF With1
<1>4. \A m \in With1(l) : Leads(g, m, T)
  BY DEF With1
<1> QED
  BY <1>2, <1>3, <1>4, LeadsOn

AllIdle(g) == \A i \in 1 .. Len(g) : Idle(g[i]) /\ g[i].op # "param"

LEMMA LeadsAfterIdle ==
  ASSUME NEW a \in Seq(Items), NEW b \in Seq(Items), NEW l \in Looks, NEW T,
         AllIdle(a), Leads(b, l, T)
  PROVE  Leads(a \o b, l, T)
<1>1. Leads(a, l, {l})
  BY LeadsIdle DEF AllIdle
<1> QED
  BY <1>1, LeadsOn

LEMMA LeadsAround ==
  ASSUME NEW a \in Seq(Items), NEW g \in Seq(Items), NEW l \in Looks, NEW T,
         AllIdle(a), \A f \in ExprFaces : Leads(g, Bigger(l, f), T)
  PROVE  /\ (a \o Expression) \o g \in Seq(Items)
         /\ Leads((a \o Expression) \o g, l, T)
<1>1. Expression \in Seq(Items) /\ Leads(Expression \o g, l, T)
  BY LeadsExpression
<1>2. Expression \o g \in Seq(Items) /\ a \o (Expression \o g) \in Seq(Items)
  BY <1>1, ConcatProperties
<1>3. Leads(a \o (Expression \o g), l, T)
  BY <1>1, <1>2, LeadsAfterIdle
<1>4. (a \o Expression) \o g = a \o (Expression \o g)
  BY <1>1, ConcatAssociative
<1> QED
  BY <1>2, <1>3, <1>4

(* The words of the constructs *)
LEMMA Spoken ==
  /\ {"print", "if", "else", "for", "func", "return", "process", "thread", "await",
      ";", "(", ")", "{", "}", ",", "=", "name", "number", "decl", "param"} \subseteq Whats
  /\ {"program", "statements", "arguments", "params", "names"} \subseteq Whats
  /\ BinaryOps \subseteq Whats /\ Types \cup TypeWords \subseteq Whats
BY DEF Whats, Words, Marks, UpdateOps, Content, TypeWords

LEMMA EatIsIdle ==
  ASSUME NEW k \in Whats, k # "name"
  PROVE  /\ Eat(k) \in Items /\ Idle(Eat(k)) /\ Eat(k).op # "param"
BY ItemFacts DEF Idle

LEMMA EatsIdle ==
  /\ \A j \in Whats \ {"name"} : <<Eat(j)>> \in Seq(Items) /\ AllIdle(<<Eat(j)>>)
  /\ \A j, k \in Whats \ {"name"} :
       <<Eat(j), Eat(k)>> \in Seq(Items) /\ AllIdle(<<Eat(j), Eat(k)>>)
  /\ \A j, k, m \in Whats \ {"name"} :
       <<Eat(j), Eat(k), Eat(m)>> \in Seq(Items) /\ AllIdle(<<Eat(j), Eat(k), Eat(m)>>)
<1>1. ASSUME NEW j \in Whats \ {"name"}
      PROVE  <<Eat(j)>> \in Seq(Items) /\ AllIdle(<<Eat(j)>>)
  BY EatIsIdle DEF AllIdle
<1>2. ASSUME NEW j \in Whats \ {"name"}, NEW k \in Whats \ {"name"}
      PROVE  <<Eat(j), Eat(k)>> \in Seq(Items) /\ AllIdle(<<Eat(j), Eat(k)>>)
  <2>1. /\ Eat(j) \in Items /\ Idle(Eat(j)) /\ Eat(j).op # "param"
        /\ Eat(k) \in Items /\ Idle(Eat(k)) /\ Eat(k).op # "param"
    BY EatIsIdle
  <2>2. \A i \in 1 .. 2 : i = 1 \/ i = 2
    OBVIOUS
  <2> QED
    BY <2>1, <2>2 DEF AllIdle
<1>3. ASSUME NEW j \in Whats \ {"name"}, NEW k \in Whats \ {"name"}, NEW m \in Whats \ {"name"}
      PROVE  <<Eat(j), Eat(k), Eat(m)>> \in Seq(Items) /\ AllIdle(<<Eat(j), Eat(k), Eat(m)>>)
  <2>1. /\ Eat(j) \in Items /\ Idle(Eat(j)) /\ Eat(j).op # "param"
        /\ Eat(k) \in Items /\ Idle(Eat(k)) /\ Eat(k).op # "param"
        /\ Eat(m) \in Items /\ Idle(Eat(m)) /\ Eat(m).op # "param"
    BY EatIsIdle
  <2>2. \A i \in 1 .. 3 : i = 1 \/ i = 2 \/ i = 3
    OBVIOUS
  <2> QED
    BY <2>1, <2>2 DEF AllIdle
<1> QED
  BY <1>1, <1>2, <1>3

(* A row of items, from the front *)
LEMMA Rows ==
  /\ <<>> \in Seq(Items) /\ AllIdle(<<>>)
  /\ \A s \in Seq(Items) : <<>> \o s = s /\ s \o <<>> = s
BY DEF AllIdle

LEMMA Row2 ==
  ASSUME NEW a \in Items, NEW b \in Items
  PROVE  <<a, b>> \in Seq(Items) /\ <<a, b>> = <<a>> \o <<b>>
<1> DEFINE u == <<a>>
           v == <<b>>
<1>1. /\ u \in Seq(Items) /\ Len(u) = 1 /\ u[1] = a
      /\ v \in Seq(Items) /\ Len(v) = 1 /\ v[1] = b
  OBVIOUS
<1> HIDE DEF u, v
<1>2. u \o v \in Seq(Items) /\ Len(u \o v) = 2 /\ (u \o v)[1] = a /\ (u \o v)[2] = b
  BY <1>1, ConcatProperties
<1>3. \A w \in Seq(Items) : Len(w) = 2 => w = <<w[1], w[2]>>
  OBVIOUS
<1> QED
  BY <1>2, <1>3 DEF u, v

LEMMA Row3 ==
  ASSUME NEW a \in Items, NEW b \in Items, NEW c \in Items
  PROVE  <<a, b, c>> \in Seq(Items) /\ <<a, b, c>> = <<a>> \o <<b, c>>
OBVIOUS

LEMMA Row4 ==
  ASSUME NEW a \in Items, NEW b \in Items, NEW c \in Items, NEW d \in Items
  PROVE  <<a, b, c, d>> \in Seq(Items) /\ <<a, b, c, d>> = <<a>> \o <<b, c, d>>
OBVIOUS

LEMMA Row5 ==
  ASSUME NEW a \in Items, NEW b \in Items, NEW c \in Items, NEW d \in Items, NEW e \in Items
  PROVE  <<a, b, c, d, e>> \in Seq(Items) /\ <<a, b, c, d, e>> = <<a>> \o <<b, c, d, e>>
OBVIOUS

LEMMA LeadsEats ==
  ASSUME NEW g \in Seq(Items), AllIdle(g), NEW l \in Looks, NEW T, l \in T
  PROVE  Leads(g, l, T)
BY LeadsIdle DEF AllIdle

-----------------------------------------------------------------------------
(* Each construct: what its call has to do makes a good node of a new one. *)

Start(nd) == [kind |-> nd.kind, name |-> nd.name, type |-> nd.type, par |-> nd.par,
              op |-> nd.op, kids |-> <<>>]

LEMMA StartFacts ==
  ASSUME NEW nd \in Node
  PROVE  /\ Start(nd) \in Looks /\ Start(nd).kids = <<>> /\ Start(nd).kind = nd.kind
         /\ Start(nd).name = nd.name /\ Start(nd).par = nd.par /\ Start(nd).op = nd.op
         /\ Start(nd).type = nd.type
BY DEF Start, Node, Looks

LEMMA BlankFacts ==
  ASSUME NEW kind \in Kinds
  PROVE  /\ Blank(kind) \in Node /\ Blank(kind).kind = kind /\ Blank(kind).kids = <<>>
         /\ Blank(kind).par = "regular" /\ Blank(kind).name = "-"
BY DEF Blank, Node, ParallelTypes

LEMMA KindFacts == StmtKinds \cup ExprKinds \cup {"program", "block"} = Kinds
BY DEF Kinds

(* One part that is an expression *)
LEMMA OneExpression ==
  ASSUME NEW l \in Looks, l.kids = <<>>, l.kind \in {"print", "return", "unary"},
         NEW f \in ExprFaces
  PROVE  Bigger(l, f) \in GoodLooks
<1>1. f \in Faces /\ f.kind \in ExprKinds
  BY FaceFacts DEF ExprFaces
<1>2. Bigger(l, f) \in Looks /\ Bigger(l, f).kids = Append(<<>>, f) /\ Bigger(l, f).kind = l.kind
  BY <1>1, BiggerFacts
<1>3. Len(Bigger(l, f).kids) = 1 /\ Bigger(l, f).kids[1] = f
  BY <1>2
<1> QED
  BY <1>1, <1>2, <1>3 DEF GoodLooks, Good

LEMMA PrintLeads ==
  ASSUME NEW l \in Looks, l.kids = <<>>, l.kind = "print"
  PROVE  LET g == <<Eat("print"), Eat("(")>> \o Expression \o <<Eat(")"), Eat(";")>>
         IN  g \in Seq(Items) /\ Leads(g, l, GoodLooks)
<1> DEFINE a == <<Eat("print"), Eat("(")>>
           b == <<Eat(")"), Eat(";")>>
<1>1. a \in Seq(Items) /\ AllIdle(a) /\ b \in Seq(Items) /\ AllIdle(b)
  BY Spoken, EatsIdle
<1> HIDE DEF a, b
<1>2. \A f \in ExprFaces : Bigger(l, f) \in GoodLooks
  BY OneExpression
<1>3. \A f \in ExprFaces : Leads(b, Bigger(l, f), GoodLooks)
  BY <1>1, <1>2, LeadsEats DEF GoodLooks
<1>4. (a \o Expression) \o b \in Seq(Items) /\ Leads((a \o Expression) \o b, l, GoodLooks)
  BY <1>1, <1>3, LeadsAround
<1> QED
  BY <1>4 DEF a, b

LEMMA ReturnLeads ==
  ASSUME NEW l \in Looks, l.kids = <<>>, l.kind = "return"
  PROVE  LET g == <<Eat("return")>> \o Expression \o <<Eat(";")>>
         IN  g \in Seq(Items) /\ Leads(g, l, GoodLooks)
<1> DEFINE a == <<Eat("return")>>
           b == <<Eat(";")>>
<1>1. a \in Seq(Items) /\ AllIdle(a) /\ b \in Seq(Items) /\ AllIdle(b)
  BY Spoken, EatsIdle
<1> HIDE DEF a, b
<1>2. \A f \in ExprFaces : Bigger(l, f) \in GoodLooks
  BY OneExpression
<1>3. \A f \in ExprFaces : Leads(b, Bigger(l, f), GoodLooks)
  BY <1>1, <1>2, LeadsEats DEF GoodLooks
<1>4. (a \o Expression) \o b \in Seq(Items) /\ Leads((a \o Expression) \o b, l, GoodLooks)
  BY <1>1, <1>3, LeadsAround
<1> QED
  BY <1>4 DEF a, b

LEMMA NegationLeads ==
  ASSUME NEW l \in Looks, l.kids = <<>>, l.kind = "unary"
  PROVE  <<Enter("unary")>> \in Seq(Items) /\ Leads(<<Enter("unary")>>, l, GoodLooks)
<1>1. Enter("unary") \in Items /\ Enter("unary").op = "unary"
  BY ItemFacts DEF Ops, Single
<1>2. PartOf(Enter("unary")) = ExprFaces /\ Can(Enter("unary"), l)
  BY <1>1 DEF PartOf, Can, Single
<1>3. Effect(Enter("unary"), l) \subseteq GoodLooks
  BY <1>1, <1>2, EffectOfSingle, OneExpression DEF Single
<1> QED
  BY <1>1, <1>2, <1>3, LeadsOne

(* A list of parts, between words *)
EffectOfList(l, what) == {[l EXCEPT !.kids = @ \o fs] : fs \in Seq(PartsOf(what))}

LEMMA LeadsList ==
  ASSUME NEW what \in {"program", "statements", "arguments", "names"}, NEW l \in Looks
  PROVE  /\ List(what) \in Items /\ Can(List(what), l)
         /\ Effect(List(what), l) = EffectOfList(l, what)
         /\ EffectOfList(l, what) \in SUBSET Looks
<1>0. what \in Whats
  BY Spoken
<1>1. List(what) \in Items /\ List(what).op = "list" /\ List(what).what = what
  BY <1>0, ItemFacts
<1>2. Can(List(what), l) /\ ~Idle(List(what))
  BY <1>1 DEF Can, Idle
<1>3. Effect(List(what), l) = EffectOfList(l, what)
  BY <1>1, <1>2 DEF Effect, Single, EffectOfList
<1> QED
  BY <1>1, <1>2, <1>3, EffectLooks

LEMMA LeadsInBrackets ==
  ASSUME NEW what \in {"program", "statements", "arguments", "names"}, NEW l \in Looks,
         NEW a \in Seq(Items), AllIdle(a), NEW b \in Seq(Items), AllIdle(b), NEW T,
         EffectOfList(l, what) \subseteq T
  PROVE  /\ a \o (<<List(what)>> \o b) \in Seq(Items)
         /\ Leads(a \o (<<List(what)>> \o b), l, T)
<1>1. /\ List(what) \in Items /\ Can(List(what), l)
      /\ Effect(List(what), l) = EffectOfList(l, what)
      /\ EffectOfList(l, what) \in SUBSET Looks
  BY LeadsList
<1>2. \A m \in EffectOfList(l, what) : Leads(b, m, T)
  BY <1>1, LeadsEats
<1>3. Leads(<<List(what)>> \o b, l, T)
  BY <1>1, <1>2, LeadsByOne
<1>4. <<List(what)>> \o b \in Seq(Items)
  BY <1>1, ConcatProperties
<1> QED
  BY <1>3, <1>4, LeadsAfterIdle, ConcatProperties

(* What a list leaves, by its kind *)
LEMMA ListMakes ==
  ASSUME NEW what \in {"program", "statements", "arguments", "names"}, NEW l \in Looks,
         l.kids = <<>>,
         \/ what \in {"program", "statements"} /\ l.kind \in {"program", "block", "thread"}
         \/ what = "statements" /\ l.kind = "func" /\ l.name \in Names
         \/ what = "arguments" /\ l.kind = "call" /\ l.name \in Names
         \/ what = "names" /\ l.kind = "await"
  PROVE  EffectOfList(l, what) \subseteq GoodLooks
<1> SUFFICES ASSUME NEW fs \in Seq(PartsOf(what)) PROVE [l EXCEPT !.kids = @ \o fs] \in GoodLooks
  BY DEF EffectOfList
<1> DEFINE m == [l EXCEPT !.kids = @ \o fs]
<1>1. m \in Looks
  BY LeadsList DEF EffectOfList
<1>2. PICK P : P = PartsOf(what)
  OBVIOUS
<1>3. <<>> \o fs = fs /\ fs \in Seq(P)
  BY <1>2
<1>4. m.kids = fs /\ m.kind = l.kind /\ m.name = l.name
  BY <1>3 DEF Looks
<1>5. \A i \in DOMAIN m.kids : m.kids[i] \in P
  BY <1>3, <1>4
<1> HIDE DEF m
<1>6. ASSUME what \in {"program", "statements"} PROVE m \in GoodLooks
  <2>1. P = StmtFaces
    BY <1>2, <1>6 DEF PartsOf
  <2>2. /\ AllKids(m, 1, StmtKinds)
        /\ \A i \in DOMAIN m.kids : m.kids[i].kind = "call" => m.kids[i].par # "regular"
    BY <1>5, <2>1 DEF AllKids, StmtFaces
  <2> QED
    BY <1>1, <1>4, <1>6, <2>2 DEF GoodLooks, Good
<1>7. ASSUME what = "arguments" PROVE m \in GoodLooks
  <2>1. P = ExprFaces
    BY <1>2, <1>7 DEF PartsOf
  <2>2. AllKids(m, 1, ExprKinds)
    BY <1>5, <2>1 DEF AllKids, ExprFaces
  <2> QED
    BY <1>1, <1>4, <1>7, <2>2 DEF GoodLooks, Good
<1>8. ASSUME what = "names" PROVE m \in GoodLooks
  <2>1. P = {FaceOf("ident")}
    BY <1>2, <1>8 DEF PartsOf
  <2>2. AllKids(m, 1, {"ident"})
    BY <1>5, <2>1 DEF AllKids, FaceOf
  <2> QED
    BY <1>1, <1>4, <1>8, <2>2 DEF GoodLooks, Good
<1> QED
  BY <1>6, <1>7, <1>8 DEF m

LEMMA ProgramLeads ==
  ASSUME NEW l \in Looks, l.kids = <<>>, l.kind = "program"
  PROVE  <<List("program")>> \in Seq(Items) /\ Leads(<<List("program")>>, l, GoodLooks)
<1>1. EffectOfList(l, "program") \subseteq GoodLooks
  BY ListMakes
<1> QED
  BY <1>1, LeadsList, LeadsOne

LEMMA BracesAre ==
  ASSUME NEW list \in {"statements", "names"}
  PROVE  Braces(list) = <<Eat("{")>> \o (<<List(list)>> \o <<Eat("}")>>)
<1>1. Eat("{") \in Items /\ List(list) \in Items /\ Eat("}") \in Items
  BY Spoken, ItemFacts
<1>2. \A a, b, c \in Items : <<a, b, c>> = <<a>> \o (<<b>> \o <<c>>)
  <2> SUFFICES ASSUME NEW a \in Items, NEW b \in Items, NEW c \in Items
               PROVE  <<a, b, c>> = <<a>> \o (<<b>> \o <<c>>)
    OBVIOUS
  <2>1. <<a, b, c>> = <<a>> \o <<b, c>>
    BY Row3, Zenon
  <2>2. <<b, c>> = <<b>> \o <<c>>
    BY Row2, Zenon
  <2> QED
    BY <2>1, <2>2, Zenon
<1>3. Braces(list) = <<Eat("{"), List(list), Eat("}")>>
  BY Zenon DEF Braces
<1> QED
  BY <1>1, <1>2, <1>3, Zenon

LEMMA BracesLead ==
  ASSUME NEW list \in {"statements", "names"}, NEW l \in Looks, NEW T,
         EffectOfList(l, list) \subseteq T
  PROVE  Braces(list) \in Seq(Items) /\ Leads(Braces(list), l, T)
<1>1. /\ <<Eat("{")>> \in Seq(Items) /\ AllIdle(<<Eat("{")>>)
      /\ <<Eat("}")>> \in Seq(Items) /\ AllIdle(<<Eat("}")>>)
  BY Spoken, EatsIdle
<1> DEFINE a == <<Eat("{")>>
           b == <<Eat("}")>>
<1> HIDE DEF a, b
<1>2. a \in Seq(Items) /\ AllIdle(a) /\ b \in Seq(Items) /\ AllIdle(b)
  BY <1>1 DEF a, b
<1>3. a \o (<<List(list)>> \o b) \in Seq(Items) /\ Leads(a \o (<<List(list)>> \o b), l, T)
  BY <1>2, LeadsInBrackets
<1> QED
  BY <1>3, BracesAre DEF a, b

LEMMA BlockLeads ==
  ASSUME NEW l \in Looks, l.kids = <<>>, l.kind \in {"block", "thread"}
  PROVE  Braces("statements") \in Seq(Items) /\ Leads(Braces("statements"), l, GoodLooks)
BY BracesLead, ListMakes

LEMMA AwaitLeads ==
  ASSUME NEW l \in Looks, l.kids = <<>>, l.kind = "await"
  PROVE  LET g == <<Eat("await")>> \o Braces("names") \o <<Eat(";")>>
         IN  g \in Seq(Items) /\ Leads(g, l, GoodLooks)
<1> DEFINE a == <<Eat("await")>>
           b == <<Eat(";")>>
<1>1. a \in Seq(Items) /\ AllIdle(a) /\ b \in Seq(Items) /\ AllIdle(b)
  BY Spoken, EatsIdle
<1> HIDE DEF a, b
<1>2. EffectOfList(l, "names") \subseteq GoodLooks
  BY ListMakes
<1>3. Braces("names") \in Seq(Items) /\ Leads(Braces("names"), l, GoodLooks)
  BY <1>2, BracesLead
<1>4. a \o Braces("names") \in Seq(Items) /\ Leads(a \o Braces("names"), l, GoodLooks)
  BY <1>1, <1>3, LeadsAfterIdle, ConcatProperties
<1>5. \A m \in GoodLooks : Leads(b, m, GoodLooks)
  BY <1>1, LeadsEats DEF GoodLooks
<1>6. Leads((a \o Braces("names")) \o b, l, GoodLooks)
  BY <1>1, <1>4, <1>5, LeadsOn DEF GoodLooks
<1>7. (a \o Braces("names")) \o b \in Seq(Items)
  BY <1>1, <1>4, ConcatProperties
<1> QED
  BY <1>6, <1>7 DEF a, b

(* A name is read, before any part. *)
Named(l, v) == [l EXCEPT !.name = v]

LEMMA LeadsName ==
  ASSUME NEW g \in Seq(Items), NEW l \in Looks, l.kids = <<>>, NEW T,
         \A v \in Names : Leads(g, Named(l, v), T)
  PROVE  /\ <<Eat("name")>> \o g \in Seq(Items) /\ Leads(<<Eat("name")>> \o g, l, T)
<1>1. Eat("name") \in Items /\ Eat("name").op = "eat" /\ Eat("name").what = "name"
  BY Spoken, ItemFacts
<1>2. Can(Eat("name"), l) /\ ~Idle(Eat("name"))
  BY <1>1 DEF Can, Idle
<1>3. Effect(Eat("name"), l) = {Named(l, v) : v \in Names}
  BY <1>1, <1>2 DEF Effect, Named, Single
<1> QED
  BY <1>1, <1>2, <1>3, LeadsByOne, ConcatProperties

LEMMA NamedFacts ==
  ASSUME NEW l \in Looks, NEW v \in Names
  PROVE  /\ Named(l, v) \in Looks /\ Named(l, v).name = v /\ Named(l, v).kids = l.kids
         /\ Named(l, v).kind = l.kind /\ Named(l, v).type = l.type
         /\ Named(l, v).par = l.par /\ Named(l, v).op = l.op
BY DEF Named, Looks

LEMMA ArgumentsLead ==
  ASSUME NEW l \in Looks, l.kids = <<>>, l.kind = "call", l.name \in Names
  PROVE  /\ <<List("arguments"), Eat(")")>> \in Seq(Items)
         /\ Leads(<<List("arguments"), Eat(")")>>, l, GoodLooks)
         /\ LET g == <<Eat("("), List("arguments"), Eat(")"), Eat(";")>>
            IN  g \in Seq(Items) /\ Leads(g, l, GoodLooks)
<1>1. EffectOfList(l, "arguments") \subseteq GoodLooks
  BY ListMakes
<1>2. /\ <<Eat("(")>> \in Seq(Items) /\ AllIdle(<<Eat("(")>>)
      /\ <<Eat(")")>> \in Seq(Items) /\ AllIdle(<<Eat(")")>>)
      /\ <<Eat(")"), Eat(";")>> \in Seq(Items) /\ AllIdle(<<Eat(")"), Eat(";")>>)
      /\ <<>> \in Seq(Items) /\ AllIdle(<<>>)
  BY Spoken, EatsIdle, Rows
<1>7. /\ Eat("(") \in Items /\ List("arguments") \in Items
      /\ Eat(")") \in Items /\ Eat(";") \in Items
  BY Spoken, ItemFacts
<1>3. /\ <<List("arguments"), Eat(")")>> = <<>> \o (<<List("arguments")>> \o <<Eat(")")>>)
      /\ <<Eat("("), List("arguments"), Eat(")"), Eat(";")>>
           = <<Eat("(")>> \o (<<List("arguments")>> \o <<Eat(")"), Eat(";")>>)
  <2>1. <<List("arguments"), Eat(")")>> = <<List("arguments")>> \o <<Eat(")")>>
    BY <1>7, Row2
  <2>2. <<List("arguments"), Eat(")"), Eat(";")>> = <<List("arguments")>> \o <<Eat(")"), Eat(";")>>
    BY <1>7, Row3
  <2>3. <<Eat("("), List("arguments"), Eat(")"), Eat(";")>>
          = <<Eat("(")>> \o <<List("arguments"), Eat(")"), Eat(";")>>
    <3>1. PICK p1 \in Items, p2 \in Items, p3 \in Items, p4 \in Items :
            p1 = Eat("(") /\ p2 = List("arguments") /\ p3 = Eat(")") /\ p4 = Eat(";")
      BY <1>7
    <3>2. <<p1, p2, p3, p4>> = <<p1>> \o <<p2, p3, p4>>
      OBVIOUS
    <3> QED
      BY <3>1, <3>2
  <2>4. <<List("arguments"), Eat(")")>> \in Seq(Items)
    BY <1>7, Row2
  <2> QED
    BY <2>1, <2>2, <2>3, <2>4, Rows
<1>4. /\ <<>> \o (<<List("arguments")>> \o <<Eat(")")>>) \in Seq(Items)
      /\ Leads(<<>> \o (<<List("arguments")>> \o <<Eat(")")>>), l, GoodLooks)
  BY <1>1, <1>2, LeadsInBrackets
<1>5. /\ <<Eat("(")>> \o (<<List("arguments")>> \o <<Eat(")"), Eat(";")>>) \in Seq(Items)
      /\ Leads(<<Eat("(")>> \o (<<List("arguments")>> \o <<Eat(")"), Eat(";")>>), l, GoodLooks)
  BY <1>1, <1>2, LeadsInBrackets
<1> QED
  BY <1>3, <1>4, <1>5

LEMMA CallLeads ==
  ASSUME NEW l \in Looks, l.kids = <<>>, l.kind = "call", NEW process \in BOOLEAN
  PROVE  LET g == (IF process THEN <<Eat("process")>> ELSE <<>>)
                    \o <<Eat("name"), Eat("("), List("arguments"), Eat(")"), Eat(";")>>
         IN  g \in Seq(Items) /\ Leads(g, l, GoodLooks)
<1> DEFINE a == IF process THEN <<Eat("process")>> ELSE <<>>
           b == <<Eat("("), List("arguments"), Eat(")"), Eat(";")>>
<1>1. a \in Seq(Items) /\ AllIdle(a)
  BY Spoken, EatsIdle, Rows
<1>0. /\ Eat("(") \in Items /\ List("arguments") \in Items
      /\ Eat(")") \in Items /\ Eat(";") \in Items /\ Eat("name") \in Items
  BY Spoken, ItemFacts
<1>2. <<Eat("name"), Eat("("), List("arguments"), Eat(")"), Eat(";")>> = <<Eat("name")>> \o b
  <2>1. PICK p1 \in Items, p2 \in Items, p3 \in Items, p4 \in Items, p5 \in Items :
          /\ p1 = Eat("name") /\ p2 = Eat("(") /\ p3 = List("arguments")
          /\ p4 = Eat(")") /\ p5 = Eat(";")
    BY <1>0
  <2>2. <<p1, p2, p3, p4, p5>> = <<p1>> \o <<p2, p3, p4, p5>>
    OBVIOUS
  <2> QED
    BY <2>1, <2>2
<1>3. \A v \in Names : b \in Seq(Items) /\ Leads(b, Named(l, v), GoodLooks)
  BY NamedFacts, ArgumentsLead
<1>4. b \in Seq(Items)
  BY <1>0, Row4
<1> HIDE DEF a, b
<1>5. <<Eat("name")>> \o b \in Seq(Items) /\ Leads(<<Eat("name")>> \o b, l, GoodLooks)
  BY <1>3, <1>4, LeadsName
<1>6. /\ a \o (<<Eat("name")>> \o b) \in Seq(Items)
      /\ Leads(a \o (<<Eat("name")>> \o b), l, GoodLooks)
  BY <1>1, <1>5, LeadsAfterIdle, ConcatProperties
<1> QED
  BY <1>2, <1>6 DEF a, b

(* An item that leads to the others, in a row *)
LEMMA LeadsRow ==
  ASSUME NEW g \in Seq(Items), g # <<>>, NEW l \in Looks, NEW T,
         Can(g[1], l), \A m \in Effect(g[1], l) : Leads(Tail(g), m, T)
  PROVE  Leads(g, l, T)
<1>1. g[1] \in Items /\ Tail(g) \in Seq(Items)
  OBVIOUS
<1>2. Leads(<<g[1]>> \o Tail(g), l, T)
  BY <1>1, LeadsByOne
<1>3. <<g[1]>> \o Tail(g) = g
  OBVIOUS
<1> QED
  BY <1>2, <1>3

LEMMA LeadsRowIdle ==
  ASSUME NEW g \in Seq(Items), g # <<>>, NEW l \in Looks, NEW T,
         Idle(g[1]), g[1].op # "param", Leads(Tail(g), l, T)
  PROVE  Leads(g, l, T)
BY LeadsRow, EffectOfIdle DEF Can

(* The parts that there are one of *)
Part(op) == CASE op = "block" -> FaceOf("block") [] op = "if" -> FaceOf("if")
              [] op = "declaration" -> FaceOf("decl") [] op = "update" -> FaceOf("update")
              [] op = "inline" -> FaceOf("thread") [] op = "awaited" -> FaceOf("ident")

LEMMA LeadsPart ==
  ASSUME NEW op \in {"block", "if", "declaration", "update", "inline", "awaited"}, NEW l \in Looks
  PROVE  /\ Enter(op) \in Items /\ Can(Enter(op), l)
         /\ Effect(Enter(op), l) = {Bigger(l, Part(op))} /\ Part(op) \in Faces
<1>1. Enter(op) \in Items /\ Enter(op).op = op
  BY ItemFacts DEF Ops, Single
<1>2. PartOf(Enter(op)) = {Part(op)}
  BY <1>1 DEF PartOf, Part
<1>3. Can(Enter(op), l)
  BY <1>1 DEF Can, Single
<1>4. Effect(Enter(op), l) = {Bigger(l, Part(op))}
  BY <1>1, <1>2, EffectOfSingle DEF Single
<1>5. Part(op) \in Faces
  BY FaceFacts DEF Part, Kinds, StmtKinds, ExprKinds
<1> QED
  BY <1>1, <1>3, <1>4, <1>5

(* The type is read *)
Typed(l, t) == [l EXCEPT !.type = t]

LEMMA TypedFacts ==
  ASSUME NEW l \in Looks, NEW t \in Types \cup {"void"}
  PROVE  /\ Typed(l, t) \in Looks /\ Typed(l, t).type = t /\ Typed(l, t).kids = l.kids
         /\ Typed(l, t).kind = l.kind /\ Typed(l, t).name = l.name
         /\ Typed(l, t).par = l.par /\ Typed(l, t).op = l.op
BY DEF Typed, Looks

LEMMA LeadsType ==
  ASSUME NEW l \in Looks, NEW what \in {"func", "decl"}
  PROVE  /\ Item("type", what, 0) \in Items /\ Can(Item("type", what, 0), l)
         /\ Effect(Item("type", what, 0), l)
              = {Typed(l, t) : t \in IF what = "func" THEN Types \cup {"void"} ELSE Types}
<1> DEFINE x == Item("type", what, 0)
<1>0. what \in Whats /\ "type" \in Ops
  BY Spoken DEF Ops
<1>1. x \in Items /\ x.op = "type" /\ x.what = what
  BY <1>0, ItemFacts
<1> HIDE DEF x
<1>2. Can(x, l) /\ ~Idle(x)
  BY <1>1 DEF Can, Idle
<1>3. Effect(x, l) = {Typed(l, t) : t \in IF what = "func" THEN Types \cup {"void"} ELSE Types}
  BY <1>1, <1>2 DEF Effect, Single, Typed
<1> QED
  BY <1>1, <1>2, <1>3 DEF x

LEMMA LeadsReadName ==
  ASSUME NEW l \in Looks, l.kids = <<>>
  PROVE  /\ Eat("name") \in Items /\ Can(Eat("name"), l)
         /\ Effect(Eat("name"), l) = {Named(l, v) : v \in Names}
<1>1. Eat("name") \in Items /\ Eat("name").op = "eat" /\ Eat("name").what = "name"
  BY Spoken, ItemFacts
<1>2. Can(Eat("name"), l) /\ ~Idle(Eat("name"))
  BY <1>1 DEF Can, Idle
<1>3. Effect(Eat("name"), l) = {Named(l, v) : v \in Names}
  BY <1>1, <1>2 DEF Effect, Named, Single
<1> QED
  BY <1>1, <1>2, <1>3

(* parse_variable_declaration *)
LEMMA LeadsValue ==
  ASSUME NEW l \in Looks, l.kids = <<>>, l.kind = "decl", l.name \in Names, l.type \in Types
  PROVE  /\ Enter("value") \in Items /\ Can(Enter("value"), l)
         /\ Effect(Enter("value"), l) \subseteq GoodLooks
<1>1. Enter("value") \in Items /\ Enter("value").op = "value"
  BY ItemFacts DEF Ops
<1>2. Can(Enter("value"), l)
  BY <1>1 DEF Can
<1>3. Effect(Enter("value"), l) \in SUBSET Looks
  BY <1>1, <1>2, EffectLooks
<1>4. Effect(Enter("value"), l)
        = {[Bigger(l, f) EXCEPT !.par = "regular"] : f \in ExprFaces}
            \cup {[Bigger(l, [kind |-> "call", par |-> p]) EXCEPT !.par = p] :
                    p \in {"thread", "process"}}
  BY <1>1 DEF Effect, Idle, Single
<1>5. ASSUME NEW f \in ExprFaces, NEW p \in ParallelTypes,
             p # "regular" => f.kind = "call" /\ f.par = p
      PROVE  Good([Bigger(l, f) EXCEPT !.par = p])
  <2> DEFINE m == [Bigger(l, f) EXCEPT !.par = p]
  <2>1. f \in Faces /\ f.kind \in ExprKinds
    BY FaceFacts DEF ExprFaces
  <2>2. /\ Bigger(l, f) \in Looks /\ Bigger(l, f).kids = Append(<<>>, f)
        /\ Bigger(l, f).kind = l.kind /\ Bigger(l, f).name = l.name /\ Bigger(l, f).type = l.type
    BY <2>1, BiggerFacts
  <2>3. /\ m.kids = Append(<<>>, f) /\ m.kind = "decl" /\ m.name \in Names
        /\ m.type \in Types /\ m.par = p
    BY <2>2 DEF Looks
  <2> HIDE DEF m
  <2>4. Len(m.kids) = 1 /\ m.kids[1] = f
    BY <2>3
  <2> QED
    BY <1>5, <2>1, <2>3, <2>4 DEF Good, m
<1>6. \A f \in ExprFaces : Good([Bigger(l, f) EXCEPT !.par = "regular"])
  BY <1>5 DEF ParallelTypes
<1>7. \A p \in {"thread", "process"} : Good([Bigger(l, [kind |-> "call", par |-> p]) EXCEPT !.par = p])
  BY <1>5, FaceFacts DEF ParallelTypes
<1> QED
  BY <1>1, <1>2, <1>3, <1>4, <1>6, <1>7 DEF GoodLooks

LEMMA DeclarationLeads ==
  ASSUME NEW l \in Looks, l.kids = <<>>, l.kind = "decl"
  PROVE  LET g == <<Item("type", "decl", 0), Eat("name"), Eat("="), Enter("value")>>
         IN  g \in Seq(Items) /\ Leads(g, l, GoodLooks)
<1> DEFINE a == Item("type", "decl", 0)
           b == Eat("name")
           c == Eat("=")
           d == Enter("value")
<1>1. a \in Items /\ b \in Items /\ c \in Items /\ d \in Items
  BY Spoken, ItemFacts DEF Ops
<1>2. Idle(c) /\ c.op # "param"
  BY Spoken, EatIsIdle
<1>3. \A m \in Looks : Can(a, m) /\ Effect(a, m) = {Typed(m, t) : t \in Types}
  BY LeadsType
<1>4. \A m \in Looks : m.kids = <<>> => Can(b, m) /\ Effect(b, m) = {Named(m, v) : v \in Names}
  BY LeadsReadName
<1>5. \A m \in Looks : m.kids = <<>> /\ m.kind = "decl" /\ m.name \in Names /\ m.type \in Types
        => Can(d, m) /\ Effect(d, m) \subseteq GoodLooks
  BY LeadsValue
<1> HIDE DEF a, b, c, d
<1>6. /\ <<d>> \in Seq(Items) /\ <<c, d>> \in Seq(Items) /\ <<b, c, d>> \in Seq(Items)
      /\ <<a, b, c, d>> \in Seq(Items)
      /\ Tail(<<c, d>>) = <<d>> /\ Tail(<<b, c, d>>) = <<c, d>>
      /\ Tail(<<a, b, c, d>>) = <<b, c, d>>
      /\ <<c, d>>[1] = c /\ <<b, c, d>>[1] = b /\ <<a, b, c, d>>[1] = a
      /\ <<c, d>> # <<>> /\ <<b, c, d>> # <<>> /\ <<a, b, c, d>> # <<>>
  BY <1>1
<1>7. ASSUME NEW t \in Types, NEW v \in Names
      PROVE  Leads(<<c, d>>, Named(Typed(l, t), v), GoodLooks)
  <2> DEFINE m == Named(Typed(l, t), v)
  <2>1. m \in Looks /\ m.kids = <<>> /\ m.kind = "decl" /\ m.name \in Names /\ m.type \in Types
    BY TypedFacts, NamedFacts
  <2> HIDE DEF m
  <2>2. Leads(<<d>>, m, GoodLooks)
    BY <1>1, <1>5, <2>1, LeadsOne
  <2>3. Leads(<<c, d>>, m, GoodLooks)
    BY <1>2, <1>6, <2>1, <2>2, LeadsRowIdle
  <2> QED
    BY <2>3 DEF m
<1>8. ASSUME NEW t \in Types PROVE Leads(<<b, c, d>>, Typed(l, t), GoodLooks)
  <2>1. Typed(l, t) \in Looks /\ Typed(l, t).kids = <<>>
    BY TypedFacts
  <2>2. /\ Can(<<b, c, d>>[1], Typed(l, t))
        /\ \A m \in Effect(<<b, c, d>>[1], Typed(l, t)) : Leads(Tail(<<b, c, d>>), m, GoodLooks)
    BY <1>4, <1>6, <1>7, <2>1
  <2> QED
    BY <1>6, <2>1, <2>2, LeadsRow
<1>9. /\ Can(<<a, b, c, d>>[1], l)
      /\ \A m \in Effect(<<a, b, c, d>>[1], l) : Leads(Tail(<<a, b, c, d>>), m, GoodLooks)
  BY <1>3, <1>6, <1>8
<1>10. Leads(<<a, b, c, d>>, l, GoodLooks)
  BY <1>6, <1>9, LeadsRow
<1> QED
  BY <1>6, <1>10 DEF a, b, c, d

(* parse_variable_update *)
LEMMA LeadsAssign ==
  ASSUME NEW l \in Looks
  PROVE  /\ Enter("assign") \in Items /\ Can(Enter("assign"), l)
         /\ Effect(Enter("assign"), l)
              = {[l EXCEPT !.op = "++"]}
                  \cup {[Bigger(l, f) EXCEPT !.op = o] : f \in ExprFaces, o \in UpdateOps \ {"++"}}
<1>1. Enter("assign") \in Items /\ Enter("assign").op = "assign"
  BY ItemFacts DEF Ops
<1> QED
  BY <1>1 DEF Can, Effect, Idle, Single

LEMMA AssignMakes ==
  ASSUME NEW l \in Looks, l.kids = <<>>, l.kind = "update", l.name \in Names
  PROVE  Effect(Enter("assign"), l) \subseteq GoodLooks
<1>1. /\ Effect(Enter("assign"), l) \in SUBSET Looks
      /\ Effect(Enter("assign"), l)
           = {[l EXCEPT !.op = "++"]}
               \cup {[Bigger(l, f) EXCEPT !.op = o] : f \in ExprFaces, o \in UpdateOps \ {"++"}}
  BY LeadsAssign, EffectLooks
<1>2. Good([l EXCEPT !.op = "++"])
  <2> DEFINE m == [l EXCEPT !.op = "++"]
  <2>1. m.kids = <<>> /\ m.kind = "update" /\ m.name \in Names /\ m.op = "++"
    BY DEF Looks
  <2> HIDE DEF m
  <2>2. "++" \in UpdateOps /\ Len(m.kids) = 0 /\ AllKids(m, 1, ExprKinds)
    BY <2>1 DEF UpdateOps, AllKids
  <2> QED
    BY <2>1, <2>2 DEF Good, m
<1>3. ASSUME NEW f \in ExprFaces, NEW o \in UpdateOps \ {"++"}
      PROVE  Good([Bigger(l, f) EXCEPT !.op = o])
  <2> DEFINE m == [Bigger(l, f) EXCEPT !.op = o]
  <2>1. f \in Faces /\ f.kind \in ExprKinds
    BY FaceFacts DEF ExprFaces
  <2>2. /\ Bigger(l, f) \in Looks /\ Bigger(l, f).kids = Append(<<>>, f)
        /\ Bigger(l, f).kind = l.kind /\ Bigger(l, f).name = l.name
    BY <2>1, BiggerFacts
  <2>3. /\ m.kids = Append(<<>>, f) /\ m.kind = "update" /\ m.name \in Names /\ m.op = o
    BY <2>2 DEF Looks
  <2> HIDE DEF m
  <2>4. Len(m.kids) = 1 /\ m.kids[1] = f /\ AllKids(m, 1, ExprKinds)
    BY <2>1, <2>3 DEF AllKids
  <2> QED
    BY <2>3, <2>4 DEF Good, m
<1> QED
  BY <1>1, <1>2, <1>3 DEF GoodLooks

LEMMA UpdateLeads ==
  ASSUME NEW l \in Looks, l.kids = <<>>, l.kind = "update"
  PROVE  LET g == <<Eat("name"), Enter("assign")>>
         IN  g \in Seq(Items) /\ Leads(g, l, GoodLooks)
<1>1. /\ Enter("assign") \in Items
      /\ \A m \in Looks : Can(Enter("assign"), m)
  BY LeadsAssign
<1>2. \A v \in Names : Leads(<<Enter("assign")>>, Named(l, v), GoodLooks)
  BY <1>1, NamedFacts, AssignMakes, LeadsOne
<1>3. <<Enter("assign")>> \in Seq(Items)
  BY <1>1
<1>4. /\ <<Eat("name")>> \o <<Enter("assign")>> \in Seq(Items)
      /\ Leads(<<Eat("name")>> \o <<Enter("assign")>>, l, GoodLooks)
  BY <1>2, <1>3, LeadsName
<1>5. <<Eat("name"), Enter("assign")>> = <<Eat("name")>> \o <<Enter("assign")>>
  <2>1. PICK p1 \in Items, p2 \in Items : p1 = Eat("name") /\ p2 = Enter("assign")
    BY <1>1, LeadsReadName
  <2>2. <<p1, p2>> = <<p1>> \o <<p2>>
    BY Row2
  <2> QED
    BY <2>1, <2>2
<1> QED
  BY <1>4, <1>5

(* parse_function *)
LEMMA HeadLeads ==
  ASSUME NEW l \in Looks, l.kids = <<>>
  PROVE  LET g == <<Eat("func"), Item("type", "func", 0), Eat("name"), Eat("("),
                    List("params"), Eat(")")>>
         IN  /\ g \in Seq(Items)
             /\ Leads(g, l, {m \in Looks : m.kids = <<>> /\ m.kind = l.kind /\ m.name \in Names})
<1> DEFINE M == {m \in Looks : m.kids = <<>> /\ m.kind = l.kind /\ m.name \in Names}
           a == Eat("func")
           b == Item("type", "func", 0)
           c == Eat("name")
           d == Eat("(")
           e == List("params")
           h == Eat(")")
<1>1. a \in Items /\ b \in Items /\ c \in Items /\ d \in Items /\ e \in Items /\ h \in Items
  BY Spoken, ItemFacts, LeadsType, LeadsReadName
<1>2. Idle(a) /\ a.op # "param" /\ Idle(d) /\ d.op # "param" /\ Idle(h) /\ h.op # "param"
  BY Spoken, EatIsIdle
<1>3. Idle(e) /\ e.op # "param"
  BY Spoken, ItemFacts DEF Idle
<1>4. \A m \in Looks : Can(b, m) /\ Effect(b, m) = {Typed(m, t) : t \in Types \cup {"void"}}
  BY LeadsType
<1>5. \A m \in Looks : m.kids = <<>> => Can(c, m) /\ Effect(c, m) = {Named(m, v) : v \in Names}
  BY LeadsReadName
<1> HIDE DEF a, b, c, d, e, h, M
<1>6. /\ <<d, e, h>> \in Seq(Items) /\ <<c, d, e, h>> \in Seq(Items)
      /\ <<b, c, d, e, h>> \in Seq(Items) /\ <<a, b, c, d, e, h>> \in Seq(Items)
      /\ Tail(<<c, d, e, h>>) = <<d, e, h>> /\ Tail(<<b, c, d, e, h>>) = <<c, d, e, h>>
      /\ Tail(<<a, b, c, d, e, h>>) = <<b, c, d, e, h>>
      /\ <<c, d, e, h>>[1] = c /\ <<b, c, d, e, h>>[1] = b /\ <<a, b, c, d, e, h>>[1] = a
      /\ <<c, d, e, h>> # <<>> /\ <<b, c, d, e, h>> # <<>> /\ <<a, b, c, d, e, h>> # <<>>
  BY <1>1
<1>7. AllIdle(<<d, e, h>>)
  <2>1. Len(<<d, e, h>>) = 3 /\ \A i \in 1 .. 3 : i = 1 \/ i = 2 \/ i = 3
    OBVIOUS
  <2> QED
    BY <1>2, <1>3, <2>1 DEF AllIdle
<1>8. ASSUME NEW t \in Types \cup {"void"}, NEW v \in Names
      PROVE  Leads(<<d, e, h>>, Named(Typed(l, t), v), M)
  <2>1. Named(Typed(l, t), v) \in M /\ Named(Typed(l, t), v) \in Looks
    BY TypedFacts, NamedFacts DEF M
  <2> QED
    BY <1>6, <1>7, <2>1, LeadsEats
<1>9. ASSUME NEW t \in Types \cup {"void"} PROVE Leads(<<c, d, e, h>>, Typed(l, t), M)
  <2>1. Typed(l, t) \in Looks /\ Typed(l, t).kids = <<>>
    BY TypedFacts
  <2>2. /\ Can(<<c, d, e, h>>[1], Typed(l, t))
        /\ \A m \in Effect(<<c, d, e, h>>[1], Typed(l, t)) : Leads(Tail(<<c, d, e, h>>), m, M)
    BY <1>5, <1>6, <1>8, <2>1
  <2> QED
    BY <1>6, <2>1, <2>2, LeadsRow
<1>10. /\ Can(<<b, c, d, e, h>>[1], l)
       /\ \A m \in Effect(<<b, c, d, e, h>>[1], l) : Leads(Tail(<<b, c, d, e, h>>), m, M)
  BY <1>4, <1>6, <1>9
<1>11. Leads(<<b, c, d, e, h>>, l, M)
  BY <1>6, <1>10, LeadsRow
<1>12. Leads(<<a, b, c, d, e, h>>, l, M)
  BY <1>2, <1>6, <1>11, LeadsRowIdle
<1> QED
  BY <1>6, <1>12 DEF a, b, c, d, e, h, M

LEMMA FunctionLeads ==
  ASSUME NEW l \in Looks, l.kids = <<>>, l.kind = "func"
  PROVE  LET g == <<Eat("func"), Item("type", "func", 0), Eat("name"), Eat("("),
                    List("params"), Eat(")")>> \o Braces("statements")
         IN  g \in Seq(Items) /\ Leads(g, l, GoodLooks)
<1> DEFINE M == {m \in Looks : m.kids = <<>> /\ m.kind = l.kind /\ m.name \in Names}
           a == <<Eat("func"), Item("type", "func", 0), Eat("name"), Eat("("),
                  List("params"), Eat(")")>>
<1>1. a \in Seq(Items) /\ Leads(a, l, M)
  BY HeadLeads
<1>2. \A m \in M : Braces("statements") \in Seq(Items) /\ Leads(Braces("statements"), m, GoodLooks)
  BY ListMakes, BracesLead
<1>3. Braces("statements") \in Seq(Items)
  BY BracesAre, Spoken, ItemFacts, Row3 DEF Braces
<1> HIDE DEF a, M
<1>4. M \in SUBSET Looks
  BY DEF M
<1>5. Leads(a \o Braces("statements"), l, GoodLooks)
  BY <1>1, <1>2, <1>3, <1>4, LeadsOn
<1> QED
  BY <1>1, <1>3, <1>5, ConcatProperties DEF a

(* parse_for_loop, whose head is the same with and without threads *)
LEMMA LoopLeads ==
  ASSUME NEW l \in Looks, l.kids = <<>>, l.kind = "for"
  PROVE  LoopParts \in Seq(Items) /\ Leads(LoopParts, l, GoodLooks)
<1> DEFINE a == <<Eat("for"), Eat("("), Enter("declaration")>>
           w == Eat(";")
           x == Enter("update")
           y == Eat(")")
           z == Enter("block")
           D == FaceOf("decl")
           U == FaceOf("update")
           B == FaceOf("block")
<1>1. /\ Eat("for") \in Items /\ Idle(Eat("for")) /\ Eat("for").op # "param"
      /\ Eat("(") \in Items /\ Idle(Eat("(")) /\ Eat("(").op # "param"
      /\ w \in Items /\ Idle(w) /\ w.op # "param" /\ y \in Items /\ Idle(y) /\ y.op # "param"
  BY Spoken, EatIsIdle
<1>2. /\ Enter("declaration") \in Items /\ x \in Items /\ z \in Items
      /\ D \in Faces /\ U \in Faces /\ B \in Faces
      /\ D.kind = "decl" /\ U.kind = "update" /\ B.kind = "block"
      /\ \A m \in Looks : /\ Can(Enter("declaration"), m)
                          /\ Effect(Enter("declaration"), m) = {Bigger(m, D)}
                          /\ Can(x, m) /\ Effect(x, m) = {Bigger(m, U)}
                          /\ Can(z, m) /\ Effect(z, m) = {Bigger(m, B)}
  BY LeadsPart DEF Part, FaceOf
<1> HIDE DEF w, x, y, z, D, U, B
<1>3. /\ <<w, x, y, z>> \in Seq(Items) /\ <<x, y, z>> \in Seq(Items)
      /\ <<y, z>> \in Seq(Items) /\ <<z>> \in Seq(Items)
      /\ Tail(<<w, x, y, z>>) = <<x, y, z>> /\ Tail(<<x, y, z>>) = <<y, z>>
      /\ Tail(<<y, z>>) = <<z>>
      /\ <<w, x, y, z>>[1] = w /\ <<x, y, z>>[1] = x /\ <<y, z>>[1] = y
      /\ <<w, x, y, z>> # <<>> /\ <<x, y, z>> # <<>> /\ <<y, z>> # <<>>
  BY <1>1, <1>2
<1>4. a \in Seq(Items) /\ Leads(a, l, {Bigger(l, D)})
  <2>1. PICK p \in Items, q \in Items, r \in Items :
          p = Eat("for") /\ q = Eat("(") /\ r = Enter("declaration")
    BY <1>1, <1>2
  <2>2. /\ <<p, q, r>> \in Seq(Items) /\ <<q, r>> \in Seq(Items) /\ <<r>> \in Seq(Items)
        /\ Tail(<<p, q, r>>) = <<q, r>> /\ Tail(<<q, r>>) = <<r>>
        /\ <<p, q, r>>[1] = p /\ <<q, r>>[1] = q /\ <<p, q, r>> # <<>> /\ <<q, r>> # <<>>
    OBVIOUS
  <2>3. Leads(<<r>>, l, {Bigger(l, D)})
    BY <1>2, <2>1, LeadsOne
  <2>4. Leads(<<q, r>>, l, {Bigger(l, D)})
    BY <1>1, <2>1, <2>2, <2>3, LeadsRowIdle
  <2>5. Leads(<<p, q, r>>, l, {Bigger(l, D)})
    BY <1>1, <2>1, <2>2, <2>4, LeadsRowIdle
  <2> QED
    BY <2>1, <2>2, <2>5
<1> HIDE DEF a
<1>5. ASSUME NEW f \in ExprFaces
      PROVE  Leads(<<w, x, y, z>>, Bigger(Bigger(l, D), f), GoodLooks)
  <2>1. f \in Faces /\ f.kind \in ExprKinds
    BY FaceFacts DEF ExprFaces
  <2>2. PICK l1 : l1 = Bigger(l, D)
    OBVIOUS
  <2>3. PICK l2 : l2 = Bigger(l1, f)
    OBVIOUS
  <2>4. PICK l3 : l3 = Bigger(l2, U)
    OBVIOUS
  <2>5. PICK l4 : l4 = Bigger(l3, B)
    OBVIOUS
  <2>6. /\ l1 \in Looks /\ l1.kids = Append(<<>>, D) /\ l1.kind = "for"
        /\ l2 \in Looks /\ l2.kids = Append(l1.kids, f) /\ l2.kind = "for"
        /\ l3 \in Looks /\ l3.kids = Append(l2.kids, U) /\ l3.kind = "for"
        /\ l4 \in Looks /\ l4.kids = Append(l3.kids, B) /\ l4.kind = "for"
    <3>1. l1 \in Looks /\ l1.kids = Append(<<>>, D) /\ l1.kind = "for"
      BY <1>2, <2>2, BiggerFacts
    <3>2. l2 \in Looks /\ l2.kids = Append(l1.kids, f) /\ l2.kind = "for"
      BY <2>1, <2>3, <3>1, BiggerFacts
    <3>3. l3 \in Looks /\ l3.kids = Append(l2.kids, U) /\ l3.kind = "for"
      BY <1>2, <2>4, <3>2, BiggerFacts
    <3>4. l4 \in Looks /\ l4.kids = Append(l3.kids, B) /\ l4.kind = "for"
      BY <1>2, <2>5, <3>3, BiggerFacts
    <3> QED
      BY <3>1, <3>2, <3>3, <3>4
  <2>7. /\ Len(l4.kids) = 4 /\ l4.kids[1] = D /\ l4.kids[2] = f
        /\ l4.kids[3] = U /\ l4.kids[4] = B
    BY <2>6
  <2>8. l4 \in GoodLooks
    BY <1>2, <2>1, <2>6, <2>7 DEF GoodLooks, Good
  <2>9. Leads(<<z>>, l3, GoodLooks)
    BY <1>2, <2>5, <2>6, <2>8, LeadsOne
  <2>10. Leads(<<y, z>>, l3, GoodLooks)
    BY <1>1, <1>3, <2>6, <2>9, LeadsRowIdle
  <2>11. /\ Can(<<x, y, z>>[1], l2)
         /\ \A m \in Effect(<<x, y, z>>[1], l2) : Leads(Tail(<<x, y, z>>), m, GoodLooks)
    BY <1>2, <1>3, <2>4, <2>6, <2>10
  <2>12. Leads(<<x, y, z>>, l2, GoodLooks)
    BY <1>3, <2>6, <2>11, LeadsRow
  <2>13. Leads(<<w, x, y, z>>, l2, GoodLooks)
    BY <1>1, <1>3, <2>6, <2>12, LeadsRowIdle
  <2> QED
    BY <2>2, <2>3, <2>13
<1>6. Bigger(l, D) \in Looks
  BY <1>2, BiggerFacts
<1>7. Expression \in Seq(Items) /\ Leads(Expression \o <<w, x, y, z>>, Bigger(l, D), GoodLooks)
  BY <1>3, <1>5, <1>6, LeadsExpression
<1>8. Expression \o <<w, x, y, z>> \in Seq(Items)
  BY <1>3, <1>7, ConcatProperties
<1>9. Leads(a \o (Expression \o <<w, x, y, z>>), l, GoodLooks)
  BY <1>4, <1>6, <1>7, <1>8, LeadsOn
<1>10. LoopParts = a \o (Expression \o <<w, x, y, z>>)
  <2>1. LoopParts = (a \o Expression) \o <<w, x, y, z>>
    BY DEF LoopParts, a, w, x, y, z
  <2> QED
    BY <1>3, <1>4, <1>7, <2>1, ConcatAssociative, SMTT(30)
<1> QED
  BY <1>4, <1>8, <1>9, <1>10, ConcatProperties

LEMMA ThreadedLoopLeads ==
  ASSUME NEW l \in Looks, l.kids = <<>>, l.kind = "for"
  PROVE  LET g == <<Eat("thread"), Eat("="), Eat("number")>> \o LoopParts
         IN  g \in Seq(Items) /\ Leads(g, l, GoodLooks)
<1> DEFINE a == <<Eat("thread"), Eat("="), Eat("number")>>
<1>1. a \in Seq(Items) /\ AllIdle(a)
  BY Spoken, EatsIdle
<1> HIDE DEF a
<1>2. LoopParts \in Seq(Items) /\ Leads(LoopParts, l, GoodLooks)
  BY LoopLeads
<1>3. a \o LoopParts \in Seq(Items) /\ Leads(a \o LoopParts, l, GoodLooks)
  BY <1>1, <1>2, LeadsAfterIdle, ConcatProperties
<1> QED
  BY <1>3 DEF a

(* else if, else, or nothing *)
LEMMA LeadsElse ==
  ASSUME NEW l \in Looks
  PROVE  /\ Enter("else") \in Items /\ Can(Enter("else"), l)
         /\ Effect(Enter("else"), l) = {l} \cup {Bigger(l, FaceOf(k)) : k \in {"block", "if"}}
<1>1. Enter("else") \in Items /\ Enter("else").op = "else"
  BY ItemFacts DEF Ops
<1> QED
  BY <1>1 DEF Can, Effect, Idle, Single

(* parse_if_statement *)
LEMMA IfLeads ==
  ASSUME NEW l \in Looks, l.kids = <<>>, l.kind = "if"
  PROVE  LET g == <<Eat("if"), Eat("(")>> \o Expression
                    \o <<Eat(")"), Enter("block"), Enter("else")>>
         IN  g \in Seq(Items) /\ Leads(g, l, GoodLooks)
<1> DEFINE a == <<Eat("if"), Eat("(")>>
           x == Eat(")")
           y == Enter("block")
           z == Enter("else")
           B == FaceOf("block")
<1>1. a \in Seq(Items) /\ AllIdle(a) /\ x \in Items /\ Idle(x) /\ x.op # "param"
  BY Spoken, EatsIdle, EatIsIdle
<1>2. /\ y \in Items /\ z \in Items /\ B \in Faces /\ B.kind = "block"
      /\ \A m \in Looks : /\ Can(y, m) /\ Effect(y, m) = {Bigger(m, B)}
                          /\ Can(z, m)
                          /\ Effect(z, m) = {m} \cup {Bigger(m, FaceOf(k)) : k \in {"block", "if"}}
  BY LeadsPart, LeadsElse DEF Part, FaceOf
<1>3. \A k \in {"block", "if"} : FaceOf(k) \in Faces /\ FaceOf(k).kind = k
  BY FaceFacts DEF Kinds, StmtKinds
<1> HIDE DEF a, x, y, z, B
<1>4. /\ <<x, y, z>> \in Seq(Items) /\ <<y, z>> \in Seq(Items) /\ <<z>> \in Seq(Items)
      /\ Tail(<<x, y, z>>) = <<y, z>> /\ Tail(<<y, z>>) = <<z>>
      /\ <<x, y, z>>[1] = x /\ <<y, z>>[1] = y /\ <<x, y, z>> # <<>> /\ <<y, z>> # <<>>
  BY <1>1, <1>2
<1>5. ASSUME NEW f \in ExprFaces PROVE Leads(<<x, y, z>>, Bigger(l, f), GoodLooks)
  <2>1. f \in Faces /\ f.kind \in ExprKinds
    BY FaceFacts DEF ExprFaces
  <2>2. PICK l1 : l1 = Bigger(l, f)
    OBVIOUS
  <2>3. PICK l2 : l2 = Bigger(l1, B)
    OBVIOUS
  <2>4. /\ l1 \in Looks /\ l1.kids = Append(<<>>, f) /\ l1.kind = "if"
        /\ l2 \in Looks /\ l2.kids = Append(l1.kids, B) /\ l2.kind = "if"
    BY <1>2, <2>1, <2>2, <2>3, BiggerFacts
  <2>5. Len(l2.kids) = 2 /\ l2.kids[1] = f /\ l2.kids[2] = B
    BY <2>4
  <2>6. l2 \in GoodLooks
    <3>1. AllKids(l2, 3, {"block", "if"})
      BY <2>5 DEF AllKids
    <3> QED
      BY <1>2, <2>1, <2>4, <2>5, <3>1 DEF GoodLooks, Good
  <2>7. ASSUME NEW k \in {"block", "if"} PROVE Bigger(l2, FaceOf(k)) \in GoodLooks
    <3>1. PICK l3 : l3 = Bigger(l2, FaceOf(k))
      OBVIOUS
    <3>2. l3 \in Looks /\ l3.kids = Append(l2.kids, FaceOf(k)) /\ l3.kind = "if"
      BY <1>3, <2>4, <3>1, BiggerFacts
    <3>3. Len(l3.kids) = 3 /\ l3.kids[1] = f /\ l3.kids[2] = B /\ l3.kids[3] = FaceOf(k)
      BY <2>4, <3>2
    <3>4. \A i \in DOMAIN l3.kids : i >= 3 => i = 3
      BY <3>2, <3>3 DEF Looks
    <3>5. AllKids(l3, 3, {"block", "if"})
      BY <1>3, <3>3, <3>4 DEF AllKids
    <3> QED
      BY <1>2, <2>1, <3>1, <3>2, <3>3, <3>5 DEF GoodLooks, Good
  <2>8. Leads(<<z>>, l2, GoodLooks)
    BY <1>2, <2>4, <2>6, <2>7, LeadsOne
  <2>9. /\ Can(<<y, z>>[1], l1)
        /\ \A m \in Effect(<<y, z>>[1], l1) : Leads(Tail(<<y, z>>), m, GoodLooks)
    BY <1>2, <1>4, <2>3, <2>4, <2>8
  <2>10. Leads(<<y, z>>, l1, GoodLooks)
    BY <1>4, <2>4, <2>9, LeadsRow
  <2> QED
    BY <1>1, <1>4, <2>2, <2>4, <2>10, LeadsRowIdle
<1>6. (a \o Expression) \o <<x, y, z>> \in Seq(Items)
      /\ Leads((a \o Expression) \o <<x, y, z>>, l, GoodLooks)
  BY <1>1, <1>4, <1>5, LeadsAround
<1> QED
  BY <1>6 DEF a, x, y, z

-----------------------------------------------------------------------------
(* The operations that put items in the place of one: what that one led to *)
(* is still what can come.                                                 *)

LEMMA ListGrows ==
  ASSUME NEW what \in {"program", "statements", "arguments", "names"}, NEW l \in Looks,
         NEW f \in PartsOf(what)
  PROVE  f \in Faces /\ EffectOfList(Bigger(l, f), what) \subseteq EffectOfList(l, what)
<1>1. PICK P : P = PartsOf(what)
  OBVIOUS
<1>2. P \subseteq Faces
  BY <1>1, FaceFacts DEF PartsOf, Kinds, ExprKinds
<1>3. f \in Faces
  BY <1>1, <1>2
<1>4. l.kids \in Seq(Faces) /\ Bigger(l, f) \in Looks /\ Bigger(l, f).kids = Append(l.kids, f)
  BY <1>3, BiggerFacts DEF Looks
<1>5. ASSUME NEW fs \in Seq(P)
      PROVE  [Bigger(l, f) EXCEPT !.kids = @ \o fs] \in EffectOfList(l, what)
  <2>1. <<f>> \o fs \in Seq(P) /\ fs \in Seq(Faces)
    BY <1>1, <1>2, ConcatProperties, SeqMonotonic
  <2>2. Append(l.kids, f) \o fs = l.kids \o (<<f>> \o fs)
    <3>1. Append(l.kids, f) = l.kids \o <<f>> /\ <<f>> \in Seq(Faces)
      BY <1>3, <1>4, AppendIsConcat
    <3>2. PICK p \in Seq(Faces) : p = <<f>>
      BY <3>1
    <3>3. PICK k \in Seq(Faces) : k = l.kids
      BY <1>4
    <3>4. (k \o p) \o fs = k \o (p \o fs)
      BY <2>1, ConcatAssociative
    <3> QED
      BY <3>1, <3>2, <3>3, <3>4
  <2>3. [Bigger(l, f) EXCEPT !.kids = @ \o fs] = [l EXCEPT !.kids = @ \o (<<f>> \o fs)]
    BY <1>4, <2>2 DEF Bigger, Looks
  <2> QED
    BY <1>1, <2>1, <2>3 DEF EffectOfList
<1> QED
  BY <1>1, <1>3, <1>5 DEF EffectOfList

LEMMA ListCanEnd ==
  ASSUME NEW what \in {"program", "statements", "arguments", "names"}, NEW l \in Looks
  PROVE  l \in EffectOfList(l, what)
<1>1. l.kids \o <<>> = l.kids /\ <<>> \in Seq(PartsOf(what))
  BY DEF Looks
<1>2. [l EXCEPT !.kids = @ \o <<>>] = l
  BY <1>1 DEF Looks
<1> QED
  BY <1>1, <1>2 DEF EffectOfList

(* The items before the comma that read a part of a list *)
LEMMA ListTurn ==
  ASSUME NEW what \in {"program", "statements", "arguments", "names"}, NEW l \in Looks,
         NEW g \in Seq(Items), NEW T, \A m \in EffectOfList(l, what) : Leads(g, m, T)
  PROVE  \A f \in PartsOf(what) : Leads(<<List(what)>> \o g, Bigger(l, f), T)
<1> SUFFICES ASSUME NEW f \in PartsOf(what) PROVE Leads(<<List(what)>> \o g, Bigger(l, f), T)
  OBVIOUS
<1>1. f \in Faces /\ EffectOfList(Bigger(l, f), what) \subseteq EffectOfList(l, what)
  BY ListGrows
<1>2. Bigger(l, f) \in Looks
  BY <1>1, BiggerFacts
<1>3. /\ List(what) \in Items /\ Can(List(what), Bigger(l, f))
      /\ Effect(List(what), Bigger(l, f)) = EffectOfList(Bigger(l, f), what)
  BY <1>2, LeadsList
<1> QED
  BY <1>1, <1>2, <1>3, LeadsByOne

LEMMA GoesOn ==
  ASSUME NEW what \in {"program", "statements", "arguments", "names", "params"}, NEW l \in Looks,
         NEW g \in Seq(Items), NEW T, Leads(<<List(what)>> \o g, l, T)
  PROVE  /\ Element(what) \o <<List(what)>> \in Seq(Items)
         /\ Leads((Element(what) \o <<List(what)>>) \o g, l, T)
<1>1. List(what) \in Items /\ <<List(what)>> \in Seq(Items)
  <2>1. what \in Whats
    BY Spoken
  <2>2. List(what) \in Items
    BY <2>1, ItemFacts
  <2> QED
    BY <2>2
<1>2. <<List(what)>> \o g \in Seq(Items) /\ <<List(what)>> \o g # <<>>
      /\ (<<List(what)>> \o g)[1] = List(what) /\ Tail(<<List(what)>> \o g) = g
  BY <1>1
<1>3. Can(List(what), l) /\ \A m \in Effect(List(what), l) : Leads(g, m, T)
  BY <1>2, LeadsFirst
<1>4. Enter("comma") \in Items /\ Idle(Enter("comma")) /\ Enter("comma").op # "param"
  BY ItemFacts DEF Ops, Idle
<1> DEFINE h == <<List(what)>> \o g
<1>5. h \in Seq(Items)
  BY <1>2
<1>6. /\ <<Enter("comma")>> \in Seq(Items) /\ <<Enter("comma")>> \o h \in Seq(Items)
      /\ \A m \in Looks : Leads(h, m, T) => Leads(<<Enter("comma")>> \o h, m, T)
  <2> HIDE DEF h
  <2>1. <<Enter("comma")>> \in Seq(Items)
    BY <1>4
  <2>2. <<Enter("comma")>> \o h \in Seq(Items)
    BY <1>5, <2>1, ConcatProperties
  <2>3. \A m \in Looks : Leads(h, m, T) => Leads(<<Enter("comma")>> \o h, m, T)
    BY <1>4, <1>5, LeadsIdleFirst
  <2> QED
    BY <2>1, <2>2, <2>3
<1>7. \A s \in Seq(Items) : (s \o <<List(what)>>) \o g = s \o h
  BY <1>1, ConcatAssociative
<1>8. ASSUME what # "params"
      PROVE  \A f \in PartsOf(what) : Leads(h, Bigger(l, f), T)
  BY <1>3, <1>8, LeadsList, ListTurn
<1> HIDE DEF h
<1>9. ASSUME NEW s \in Seq(Items), Leads(s \o h, l, T), Element(what) = s
      PROVE  /\ Element(what) \o <<List(what)>> \in Seq(Items)
             /\ Leads((Element(what) \o <<List(what)>>) \o g, l, T)
  BY <1>1, <1>7, <1>9, ConcatProperties
<1>10. CASE what \in {"program", "statements"}
  <2>1. Enter("statement") \in Items /\ Enter("statement").op = "statement"
    BY ItemFacts DEF Ops, Single
  <2>2. PartOf(Enter("statement")) = PartsOf(what)
    BY <1>10, <2>1 DEF PartOf, PartsOf
  <2>3. Leads(<<Enter("statement")>> \o h, l, T)
    BY <1>5, <1>8, <1>10, <2>1, <2>2, LeadsSingle DEF Single
  <2>4. Element(what) = <<Enter("statement")>>
    BY <1>10 DEF Element
  <2>5. <<Enter("statement")>> \in Seq(Items)
    BY <2>1
  <2> QED
    BY <1>9, <2>3, <2>4, <2>5
<1>11. CASE what = "names"
  <2>1. Enter("awaited") \in Items /\ Enter("awaited").op = "awaited"
    BY ItemFacts DEF Ops, Single
  <2>2. PartOf(Enter("awaited")) = PartsOf(what) /\ PartsOf(what) \subseteq Faces
    BY <1>11, <2>1, FaceFacts DEF PartOf, PartsOf, Kinds, ExprKinds
  <2>3. \A f \in PartsOf(what) : Leads(<<Enter("comma")>> \o h, Bigger(l, f), T)
    BY <1>6, <1>8, <1>11, <2>2, BiggerFacts
  <2>4. Leads(<<Enter("awaited")>> \o (<<Enter("comma")>> \o h), l, T)
    <3>1. PICK k : k = <<Enter("comma")>> \o h
      OBVIOUS
    <3>2. PICK x : x = Enter("awaited")
      OBVIOUS
    <3>3. k \in Seq(Items) /\ x \in Items /\ x.op \in Single /\ x.op # "call"
      BY <1>6, <2>1, <3>1, <3>2 DEF Single
    <3>4. \A f \in PartOf(x) : Leads(k, Bigger(l, f), T)
      BY <2>2, <2>3, <3>1, <3>2
    <3>5. Leads(<<x>> \o k, l, T)
      BY <3>3, <3>4, LeadsSingle
    <3> QED
      BY <3>1, <3>2, <3>5
  <2>5. <<Enter("awaited")>> \in Seq(Items) /\ <<Enter("awaited"), Enter("comma")>> \in Seq(Items)
    BY <1>4, <2>1
  <2>6. <<Enter("awaited"), Enter("comma")>> \o h = <<Enter("awaited")>> \o (<<Enter("comma")>> \o h)
    BY <1>4, <1>5, <1>6, <2>1, <2>5, Row2, ConcatAssociative
  <2> QED
    BY <1>9, <1>11, <2>4, <2>5, <2>6 DEF Element
<1>12. CASE what = "arguments"
  <2>1. PartsOf(what) = ExprFaces
    BY <1>12 DEF PartsOf
  <2>2. \A f \in ExprFaces : Leads(<<Enter("comma")>> \o h, Bigger(l, f), T)
    BY <1>6, <1>8, <1>12, <2>1, BiggerFacts, FaceFacts
  <2>3. Expression \in Seq(Items) /\ Leads(Expression \o (<<Enter("comma")>> \o h), l, T)
    BY <1>6, <2>2, LeadsExpression
  <2>4. Expression \o <<Enter("comma")>> \in Seq(Items)
    BY <1>6, <2>3, ConcatProperties
  <2>5. (Expression \o <<Enter("comma")>>) \o h = Expression \o (<<Enter("comma")>> \o h)
    BY <1>5, <1>6, <2>3, ConcatAssociative
  <2> QED
    BY <1>9, <1>12, <2>3, <2>4, <2>5 DEF Element
<1>13. CASE what = "params"
  <2>1. PICK x \in Items : x = Item("type", "param", 0) /\ x.op = "type" /\ x.what = "param"
    <3>1. "type" \in Ops /\ "param" \in Whats
      BY Spoken DEF Ops
    <3> QED
      BY <3>1, ItemFacts
  <2>2. Idle(x) /\ x.op # "param"
    BY <2>1 DEF Idle
  <2>3. Leads(h, l, T)
    BY <1>13 DEF h
  <2>4. Leads(<<x>> \o (<<Enter("comma")>> \o h), l, T)
    BY <1>6, <2>2, <2>3, LeadsIdleFirst
  <2>5. <<x>> \in Seq(Items) /\ <<x, Enter("comma")>> \in Seq(Items)
    BY <1>4
  <2>6. <<x, Enter("comma")>> \o h = <<x>> \o (<<Enter("comma")>> \o h)
    BY <1>4, <1>5, <1>6, <2>5, Row2, ConcatAssociative
  <2> QED
    BY <1>9, <1>13, <2>1, <2>4, <2>5, <2>6 DEF Element
<1> QED
  BY <1>10, <1>11, <1>12, <1>13

(* An operator takes the two latest parts, or the latest is replaced. *)
LEMMA LatestTwo ==
  ASSUME NEW l \in Looks, Len(l.kids) >= 1, NEW f \in Faces, NEW h \in Faces
  PROVE  /\ LastFace(Bigger(l, f), 0) = f /\ LastFace(Bigger(l, f), 1) = LastFace(l, 0)
         /\ Len(Bigger(l, f).kids) = Len(l.kids) + 1 /\ Len(l.kids) \in Nat
         /\ [Bigger(l, f) EXCEPT !.kids = Append(SubSeq(@, 1, Len(@) - 2), h)]
              = [l EXCEPT !.kids = Append(SubSeq(@, 1, Len(@) - 1), h)]
<1>1. l.kids \in Seq(Faces) /\ Bigger(l, f).kids = Append(l.kids, f)
  BY BiggerFacts DEF Looks
<1>2. PICK s \in Seq(Faces) : s = l.kids
  BY <1>1
<1>3. PICK t \in Seq(Faces) : t = Append(s, f)
  <2>1. Append(s, f) \in Seq(Faces)
    OBVIOUS
  <2> QED
    BY <2>1
<1>4. /\ Len(s) >= 1 /\ Len(s) \in Nat /\ Len(t) = Len(s) + 1 /\ t[Len(t)] = f
      /\ t[Len(t) - 1] = s[Len(s)]
  BY <1>2, <1>3
<1>5. SubSeq(t, 1, Len(t) - 2) = SubSeq(s, 1, Len(s) - 1)
  BY <1>3, <1>4
<1>6. Bigger(l, f).kids = t
  BY <1>1, <1>2, <1>3
<1>7. [Bigger(l, f) EXCEPT !.kids = Append(SubSeq(@, 1, Len(@) - 2), h)]
        = [l EXCEPT !.kids = Append(SubSeq(@, 1, Len(@) - 1), h)]
  <2>1. [Bigger(l, f) EXCEPT !.kids = Append(SubSeq(t, 1, Len(t) - 2), h)]
          = [l EXCEPT !.kids = Append(SubSeq(s, 1, Len(s) - 1), h)]
    BY <1>5 DEF Bigger, Looks
  <2> QED
    BY <1>2, <1>6, <2>1
<1>8. LastFace(Bigger(l, f), 0) = f /\ LastFace(Bigger(l, f), 1) = LastFace(l, 0)
  BY <1>2, <1>4, <1>6 DEF LastFace
<1> QED
  BY <1>2, <1>4, <1>6, <1>7, <1>8

Replaced(l, f) == [l EXCEPT !.kids = Append(SubSeq(@, 1, Len(@) - 1), f)]

LEMMA ReplacedFacts ==
  ASSUME NEW l \in Looks, Len(l.kids) >= 1, NEW f \in Faces
  PROVE  /\ Replaced(l, f) \in Looks /\ Len(Replaced(l, f).kids) >= 1
         /\ LastFace(Replaced(l, f), 0) = f
         /\ \A h \in Faces : Replaced(Replaced(l, f), h) = Replaced(l, h)
         /\ Replaced(l, LastFace(l, 0)) = l
<1>1. PICK s \in Seq(Faces) : s = l.kids /\ Len(s) \in Nat
  BY DEF Looks
<1>2. PICK b \in Seq(Faces) : b = SubSeq(s, 1, Len(s) - 1) /\ Len(b) = Len(s) - 1 /\ Len(b) \in Nat
  <2>1. /\ SubSeq(s, 1, Len(s) - 1) \in Seq(Faces)
        /\ Len(SubSeq(s, 1, Len(s) - 1)) = Len(s) - 1 /\ Len(s) - 1 \in Nat
    BY <1>1
  <2> QED
    BY <2>1
<1>3. PICK t \in Seq(Faces) : t = Append(b, f)
  <2>1. Append(b, f) \in Seq(Faces)
    OBVIOUS
  <2> QED
    BY <2>1
<1>4. Len(t) = Len(s) /\ t[Len(t)] = f /\ SubSeq(t, 1, Len(t) - 1) = b
  BY <1>2, <1>3
<1>5. Replaced(l, f) \in Looks /\ Replaced(l, f).kids = t
  BY <1>1, <1>2, <1>3 DEF Replaced, Looks
<1>6. ASSUME NEW h \in Faces PROVE Replaced(Replaced(l, f), h) = Replaced(l, h)
  <2>1. /\ [Replaced(l, f) EXCEPT !.kids = Append(SubSeq(t, 1, Len(t) - 1), h)]
             = [l EXCEPT !.kids = Append(b, h)]
    BY <1>4 DEF Replaced, Looks
  <2> QED
    BY <1>1, <1>2, <1>5, <2>1 DEF Replaced
<1>7. Replaced(l, LastFace(l, 0)) = l
  <2>1. LastFace(l, 0) = s[Len(s)]
    BY <1>1 DEF LastFace
  <2>2. Append(b, s[Len(s)]) = s
    BY <1>1, <1>2
  <2> QED
    BY <1>1, <1>2, <2>1, <2>2 DEF Replaced, Looks
<1>8. LastFace(Replaced(l, f), 0) = f /\ Len(Replaced(l, f).kids) >= 1
  BY <1>1, <1>4, <1>5 DEF LastFace
<1> QED
  BY <1>5, <1>6, <1>7, <1>8

(* The loop of a level *)
LEMMA MoreFacts ==
  ASSUME NEW x \in Items, x.op = "more", NEW l \in Looks
  PROVE  /\ Can(x, l) <=> x.level \in 1 .. 4 /\ Len(l.kids) >= 1 /\ LastFace(l, 0) \in ExprFaces
         /\ Effect(x, l) = {Replaced(l, f) : f \in ExprFaces}
BY EffectOfMore DEF Can, Replaced, Idle, Single

LEMMA LevelGoesOn ==
  ASSUME NEW x \in Items, x.op = "more", NEW l \in Looks, NEW g \in Seq(Items), NEW T,
         Can(x, l), \A m \in Effect(x, l) : Leads(g, m, T), NEW w \in BinaryOps
  PROVE  /\ Operand(x.level + 1) \o <<Item("join", w, 0), x>> \in Seq(Items)
         /\ Leads((Operand(x.level + 1) \o <<Item("join", w, 0), x>>) \o g, l, T)
<1>1. /\ x.level \in 1 .. 4 /\ Len(l.kids) >= 1 /\ LastFace(l, 0) \in ExprFaces
      /\ Effect(x, l) = {Replaced(l, f) : f \in ExprFaces}
  BY MoreFacts
<1>2. PICK j \in Items : j = Item("join", w, 0) /\ j.op = "join" /\ j.what = w
  <2>1. w \in Whats /\ "join" \in Ops
    BY Spoken DEF Ops
  <2> QED
    BY <2>1, ItemFacts
<1>3. PICK B \in Faces : B = FaceOf("binop") /\ B \in ExprFaces
  BY FaceFacts DEF ExprKinds, Kinds
<1>4. ExprFaces \subseteq Faces
  BY FaceFacts
<1>5. /\ <<x>> \in Seq(Items) /\ <<j, x>> \in Seq(Items) /\ <<x>> \o g \in Seq(Items)
      /\ <<j>> \o (<<x>> \o g) \in Seq(Items) /\ <<j>> \in Seq(Items)
  BY ConcatProperties
<1>6. Replaced(l, B) \in Looks /\ Leads(<<x>> \o g, Replaced(l, B), T)
  <2>1. /\ Replaced(l, B) \in Looks /\ Len(Replaced(l, B).kids) >= 1
        /\ LastFace(Replaced(l, B), 0) = B
        /\ \A h \in ExprFaces : Replaced(Replaced(l, B), h) = Replaced(l, h)
    BY <1>1, <1>4, ReplacedFacts
  <2>2. Can(x, Replaced(l, B)) /\ Effect(x, Replaced(l, B)) = Effect(x, l)
    BY <1>1, <1>3, <2>1, MoreFacts
  <2> QED
    BY <2>1, <2>2, LeadsByOne
<1>7. ASSUME NEW m \in With1(l) PROVE m \in Looks /\ Leads(<<j>> \o (<<x>> \o g), m, T)
  <2>1. PICK f \in ExprFaces : m = Bigger(l, f)
    BY DEF With1
  <2>2. f \in Faces /\ m \in Looks
    BY <1>4, <2>1, BiggerFacts
  <2>3. /\ LastFace(m, 0) = f /\ LastFace(m, 1) = LastFace(l, 0)
        /\ Len(m.kids) = Len(l.kids) + 1 /\ Len(l.kids) \in Nat
        /\ [m EXCEPT !.kids = Append(SubSeq(@, 1, Len(@) - 2), B)] = Replaced(l, B)
    <3>1. /\ LastFace(Bigger(l, f), 0) = f /\ LastFace(Bigger(l, f), 1) = LastFace(l, 0)
          /\ Len(Bigger(l, f).kids) = Len(l.kids) + 1 /\ Len(l.kids) \in Nat
          /\ [Bigger(l, f) EXCEPT !.kids = Append(SubSeq(@, 1, Len(@) - 2), B)]
               = [l EXCEPT !.kids = Append(SubSeq(@, 1, Len(@) - 1), B)]
      BY <1>1, <2>2, LatestTwo
    <3> QED
      BY <2>1, <3>1 DEF Replaced
  <2>4. Can(j, m)
    BY <1>1, <1>2, <2>3 DEF Can
  <2>5. Effect(j, m) = {Replaced(l, B)}
    <3>1. Effect(j, m) = {[m EXCEPT !.kids = Append(SubSeq(@, 1, Len(@) - 2), FaceOf("binop"))]}
      BY <1>2 DEF Effect, Idle, Single
    <3> QED
      BY <1>3, <2>3, <3>1
  <2>6. <<x>> \o g \in Seq(Items)
    BY <1>5
  <2> QED
    BY <1>6, <2>2, <2>4, <2>5, <2>6, LeadsByOne
<1>8. /\ Operand(x.level + 1) \in Seq(Items)
      /\ Leads(Operand(x.level + 1), l, With1(l))
  BY <1>1, LeadsOperand
<1>9. Leads(Operand(x.level + 1) \o (<<j>> \o (<<x>> \o g)), l, T)
  BY <1>5, <1>7, <1>8, LeadsOn
<1>10. PICK o \in Seq(Items) : o = Operand(x.level + 1)
  BY <1>8
<1>11. o \o <<j, x>> \in Seq(Items) /\ (o \o <<j, x>>) \o g = o \o (<<j>> \o (<<x>> \o g))
  <2>1. (o \o <<j, x>>) \o g = o \o (<<j, x>> \o g)
    BY <1>5, ConcatAssociative
  <2>2. <<j, x>> = <<j>> \o <<x>>
    BY Row2
  <2>3. (<<j>> \o <<x>>) \o g = <<j>> \o (<<x>> \o g)
    BY <1>5, ConcatAssociative
  <2>4. o \o <<j, x>> \in Seq(Items)
    BY <1>5, ConcatProperties
  <2> QED
    BY <2>1, <2>2, <2>3, <2>4
<1> QED
  BY <1>2, <1>9, <1>10, <1>11

LEMMA LevelCanEnd ==
  ASSUME NEW x \in Items, x.op = "more", NEW l \in Looks, Can(x, l)
  PROVE  l \in Effect(x, l)
BY MoreFacts, ReplacedFacts, FaceFacts

(* An expression in parentheses is one operand. *)
LEMMA InParentheses ==
  ASSUME NEW x \in Items, x.op = "unary", NEW l \in Looks, NEW g \in Seq(Items), NEW T,
         \A m \in Effect(x, l) : Leads(g, m, T)
  PROVE  /\ Expression \o <<Eat(")")>> \in Seq(Items)
         /\ Leads((Expression \o <<Eat(")")>>) \o g, l, T)
<1>1. PICK e \in Items : e = Eat(")") /\ Idle(e) /\ e.op # "param"
  BY Spoken, EatIsIdle
<1>2. \A f \in ExprFaces : Bigger(l, f) \in Looks /\ Leads(g, Bigger(l, f), T)
  <2>1. Effect(x, l) = {Bigger(l, f) : f \in PartOf(x)} /\ PartOf(x) = ExprFaces
    BY EffectOfSingle DEF Single, PartOf
  <2> QED
    BY <2>1, BiggerFacts, FaceFacts
<1>3. \A f \in ExprFaces : Leads(<<e>> \o g, Bigger(l, f), T)
  BY <1>1, <1>2, LeadsIdleFirst
<1>4. <<e>> \o g \in Seq(Items) /\ <<e>> \in Seq(Items)
  BY ConcatProperties
<1>5. Expression \in Seq(Items) /\ Leads(Expression \o (<<e>> \o g), l, T)
  BY <1>3, <1>4, LeadsExpression
<1>6. (Expression \o <<e>>) \o g = Expression \o (<<e>> \o g)
  BY <1>4, <1>5, ConcatAssociative
<1>7. Expression \o <<e>> \in Seq(Items)
  BY <1>4, <1>5, ConcatProperties
<1> QED
  BY <1>1, <1>5, <1>6, <1>7

(* A word first *)
LEMMA WordThen ==
  ASSUME NEW k \in Whats \ {"name"}, NEW y \in Items, NEW l \in Looks, NEW g \in Seq(Items),
         NEW T, Leads(<<y>> \o g, l, T)
  PROVE  <<Eat(k), y>> \in Seq(Items) /\ Leads(<<Eat(k), y>> \o g, l, T)
<1>1. PICK e \in Items : e = Eat(k) /\ Idle(e) /\ e.op # "param"
  BY EatIsIdle
<1>2. <<y>> \o g \in Seq(Items) /\ <<e>> \in Seq(Items) /\ <<y>> \in Seq(Items)
  BY ConcatProperties
<1>3. Leads(<<e>> \o (<<y>> \o g), l, T)
  BY <1>1, <1>2, LeadsIdleFirst
<1>4. <<e, y>> \in Seq(Items) /\ <<e, y>> = <<e>> \o <<y>>
  BY Row2
<1>5. (<<e>> \o <<y>>) \o g = <<e>> \o (<<y>> \o g)
  BY <1>2, ConcatAssociative
<1> QED
  BY <1>1, <1>3, <1>4, <1>5

(* A statement that a call reads as it is *)
LEMMA OfThatKind ==
  ASSUME NEW x \in Items, x.op = "statement", NEW y \in Items, y.op \in Single,
         y.op = "call" => y.what \in {"thread", "process"}, PartOf(y) \subseteq StmtFaces,
         NEW l \in Looks, NEW g \in Seq(Items), NEW T, \A m \in Effect(x, l) : Leads(g, m, T)
  PROVE  /\ <<y>> \in Seq(Items) /\ Leads(<<y>> \o g, l, T)
         /\ <<Eat("thread"), y>> \in Seq(Items) /\ Leads(<<Eat("thread"), y>> \o g, l, T)
<1>1. Effect(x, l) = {Bigger(l, f) : f \in StmtFaces}
  BY EffectOfSingle DEF Single, PartOf
<1>2. \A f \in PartOf(y) : Leads(g, Bigger(l, f), T)
  BY <1>1
<1>3. Leads(<<y>> \o g, l, T)
  BY <1>2, LeadsSingle
<1>4. "thread" \in Whats \ {"name"}
  BY Spoken
<1> QED
  BY <1>3, <1>4, WordThen

LEMMA ThreadsAndCalls ==
  /\ Enter("inline") \in Items /\ Enter("inline").op \in Single /\ Enter("inline").op # "call"
  /\ PartOf(Enter("inline")) = {FaceOf("thread")} /\ FaceOf("thread") \in StmtFaces
  /\ \A p \in {"thread", "process"} :
       /\ CallIn(p) \in Items /\ CallIn(p).op = "call" /\ CallIn(p).what = p
       /\ PartOf(CallIn(p)) = {[kind |-> "call", par |-> p]}
       /\ [kind |-> "call", par |-> p] \in StmtFaces
<1>1. "inline" \in Ops /\ "inline" \in Single /\ {"thread", "process"} \subseteq Whats
  BY Spoken DEF Ops, Single
<1>2. Enter("inline") \in Items /\ Enter("inline").op = "inline"
  BY <1>1, ItemFacts
<1>3. \A p \in {"thread", "process"} :
        CallIn(p) \in Items /\ CallIn(p).op = "call" /\ CallIn(p).what = p
  BY <1>1, ItemFacts
<1>4. FaceOf("thread") \in StmtFaces
  BY FaceFacts DEF StmtKinds
<1> QED
  BY <1>1, <1>2, <1>3, <1>4, FaceFacts DEF PartOf

(* What comes after else *)
LEMMA ElseGoesOn ==
  ASSUME NEW x \in Items, x.op = "else", NEW l \in Looks, NEW g \in Seq(Items), NEW T,
         \A m \in Effect(x, l) : Leads(g, m, T), NEW k \in {"block", "if"}
  PROVE  <<Eat("else"), Enter(k)>> \in Seq(Items) /\ Leads(<<Eat("else"), Enter(k)>> \o g, l, T)
<1>1. Effect(x, l) = {l} \cup {Bigger(l, FaceOf(j)) : j \in {"block", "if"}}
  BY DEF Effect, Idle, Single
<1>2. /\ Enter(k) \in Items /\ Can(Enter(k), l)
      /\ Effect(Enter(k), l) = {Bigger(l, FaceOf(k))}
  BY LeadsPart DEF Part
<1>3. Leads(<<Enter(k)>> \o g, l, T)
  BY <1>1, <1>2, LeadsByOne
<1>4. "else" \in Whats \ {"name"}
  BY Spoken
<1> QED
  BY <1>2, <1>3, <1>4, WordThen

LEMMA ElseCanEnd ==
  ASSUME NEW x, x.op = "else", NEW l
  PROVE  l \in Effect(x, l)
BY DEF Effect, Idle, Single

(* The value of a declaration, and what an update assigns *)
LEMMA ExpressionThen ==
  ASSUME NEW l \in Looks, NEW g \in Seq(Items), NEW T,
         \A f \in ExprFaces : Leads(g, Bigger(l, f), T)
  PROVE  /\ Expression \o <<Eat(";")>> \in Seq(Items)
         /\ Leads((Expression \o <<Eat(";")>>) \o g, l, T)
<1>1. PICK e \in Items : e = Eat(";") /\ Idle(e) /\ e.op # "param"
  BY Spoken, EatIsIdle
<1>2. \A f \in ExprFaces : Bigger(l, f) \in Looks
  BY BiggerFacts, FaceFacts
<1>3. \A f \in ExprFaces : Leads(<<e>> \o g, Bigger(l, f), T)
  BY <1>1, <1>2, LeadsIdleFirst
<1>4. <<e>> \o g \in Seq(Items) /\ <<e>> \in Seq(Items)
  BY ConcatProperties
<1>5. Expression \in Seq(Items) /\ Leads(Expression \o (<<e>> \o g), l, T)
  BY <1>3, <1>4, LeadsExpression
<1>6. (Expression \o <<e>>) \o g = Expression \o (<<e>> \o g)
  BY <1>4, <1>5, ConcatAssociative
<1>7. Expression \o <<e>> \in Seq(Items)
  BY <1>4, <1>5, ConcatProperties
<1> QED
  BY <1>1, <1>5, <1>6, <1>7

LEMMA ValueGoesOn ==
  ASSUME NEW x \in Items, x.op = "value", NEW l \in Looks, NEW g \in Seq(Items), NEW T,
         \A m \in Effect(x, l) : Leads(g, m, T)
  PROVE  /\ LET items == Expression \o <<Eat(";")>>
            IN  items \in Seq(Items) /\ Leads(items \o g, [l EXCEPT !.par = "regular"], T)
         /\ LET items == <<Eat("thread"), CallIn("thread")>>
            IN  items \in Seq(Items) /\ Leads(items \o g, [l EXCEPT !.par = "thread"], T)
         /\ LET items == <<CallIn("process")>>
            IN  items \in Seq(Items) /\ Leads(items \o g, [l EXCEPT !.par = "process"], T)
<1>1. Effect(x, l)
        = {[Bigger(l, f) EXCEPT !.par = "regular"] : f \in ExprFaces}
            \cup {[Bigger(l, [kind |-> "call", par |-> p]) EXCEPT !.par = p] :
                    p \in {"thread", "process"}}
  BY DEF Effect, Idle, Single
<1>2. \A p \in ParallelTypes :
        /\ [l EXCEPT !.par = p] \in Looks
        /\ \A f : Bigger([l EXCEPT !.par = p], f) = [Bigger(l, f) EXCEPT !.par = p]
  BY DEF Looks, Bigger
<1>3. "regular" \in ParallelTypes /\ "thread" \in ParallelTypes /\ "process" \in ParallelTypes
  BY DEF ParallelTypes
<1>4. \A f \in ExprFaces : Leads(g, Bigger([l EXCEPT !.par = "regular"], f), T)
  BY <1>1, <1>2, <1>3
<1>5. ASSUME NEW p \in {"thread", "process"}
      PROVE  CallIn(p) \in Items /\ Leads(<<CallIn(p)>> \o g, [l EXCEPT !.par = p], T)
  <2>1. PICK y \in Items : /\ y = CallIn(p) /\ y.op = "call" /\ y.what = p
                           /\ PartOf(y) = {[kind |-> "call", par |-> p]}
    BY ThreadsAndCalls
  <2>2. [l EXCEPT !.par = p] \in Looks
    BY <1>2, <1>3
  <2>3. \A f \in PartOf(y) : Leads(g, Bigger([l EXCEPT !.par = p], f), T)
    BY <1>1, <1>2, <1>3, <2>1
  <2>4. Leads(<<y>> \o g, [l EXCEPT !.par = p], T)
    BY <2>1, <2>2, <2>3, LeadsSingle DEF Single
  <2> QED
    BY <2>1, <2>4
<1>6. /\ Expression \o <<Eat(";")>> \in Seq(Items)
      /\ Leads((Expression \o <<Eat(";")>>) \o g, [l EXCEPT !.par = "regular"], T)
  BY <1>2, <1>3, <1>4, ExpressionThen
<1>7. /\ <<Eat("thread"), CallIn("thread")>> \in Seq(Items)
      /\ Leads(<<Eat("thread"), CallIn("thread")>> \o g, [l EXCEPT !.par = "thread"], T)
  <2>1. "thread" \in Whats \ {"name"}
    BY Spoken
  <2> QED
    BY <1>2, <1>3, <1>5, <2>1, WordThen
<1>8. <<CallIn("process")>> \in Seq(Items)
  BY <1>5
<1> QED
  BY <1>5, <1>6, <1>7, <1>8

LEMMA AssignGoesOn ==
  ASSUME NEW x \in Items, x.op = "assign", NEW l \in Looks, NEW g \in Seq(Items), NEW T,
         \A m \in Effect(x, l) : Leads(g, m, T), NEW o \in UpdateOps
  PROVE  /\ o = "++" => Leads(g, [l EXCEPT !.op = o], T)
         /\ o # "++" => Expression \in Seq(Items) /\ Leads(Expression \o g, [l EXCEPT !.op = o], T)
<1>1. Effect(x, l)
        = {[l EXCEPT !.op = "++"]}
            \cup {[Bigger(l, f) EXCEPT !.op = q] : f \in ExprFaces, q \in UpdateOps \ {"++"}}
  BY DEF Effect, Idle, Single
<1>2. /\ [l EXCEPT !.op = o] \in Looks
      /\ \A f : Bigger([l EXCEPT !.op = o], f) = [Bigger(l, f) EXCEPT !.op = o]
  BY DEF Looks, Bigger
<1>3. ASSUME o # "++" PROVE \A f \in ExprFaces : Leads(g, Bigger([l EXCEPT !.op = o], f), T)
  <2> SUFFICES ASSUME NEW f \in ExprFaces PROVE Leads(g, Bigger([l EXCEPT !.op = o], f), T)
    OBVIOUS
  <2>1. [Bigger(l, f) EXCEPT !.op = o] \in Effect(x, l)
    BY <1>1, <1>3
  <2> QED
    BY <1>2, <2>1
<1> QED
  BY <1>1, <1>2, <1>3, LeadsExpression

-----------------------------------------------------------------------------
(* The looks of the nodes of a table *)

LEMMA LookFacts ==
  ASSUME NEW t, TreeOK(t), NEW n \in DOMAIN t
  PROVE  /\ t[n] \in Node /\ Face(t[n]) \in Faces /\ Look(t, n) \in Looks
         /\ Look(t, n).kind = t[n].kind /\ Look(t, n).name = t[n].name
         /\ Look(t, n).type = t[n].type /\ Look(t, n).par = t[n].par /\ Look(t, n).op = t[n].op
         /\ DOMAIN Look(t, n).kids = DOMAIN t[n].kids /\ Len(Look(t, n).kids) = Len(t[n].kids)
         /\ \A i \in DOMAIN t[n].kids : Look(t, n).kids[i] = Face(t[t[n].kids[i]])
<1>1. \A m \in DOMAIN t : t[m] \in Node
  BY DEF TreeOK
<1>2. \A nd \in Node : Face(nd) \in Faces
  BY DEF Node, Face, Faces, ParallelTypes
<1>3. PICK k \in Seq(Nat) : k = t[n].kids
  BY <1>1 DEF Node
<1>4. \A i \in DOMAIN k : k[i] \in DOMAIN t
  <2>1. \A i \in DOMAIN k : Under(t, n, k[i])
    BY <1>3 DEF Under
  <2> QED
    BY <2>1 DEF TreeOK, After1
<1>5. PICK s : s = [i \in DOMAIN k |-> Face(t[k[i]])]
  OBVIOUS
<1>6. s \in Seq(Faces) /\ Len(s) = Len(k) /\ DOMAIN s = DOMAIN k
  <2>1. s = [i \in 1 .. Len(k) |-> Face(t[k[i]])] /\ Len(k) \in Nat
    BY <1>5
  <2>2. \A i \in 1 .. Len(k) : Face(t[k[i]]) \in Faces
    BY <1>1, <1>2, <1>4
  <2>3. s \in Seq(Faces)
    BY <2>1, <2>2, IsASeq
  <2> QED
    BY <2>1, <2>3
<1>7. /\ Look(t, n) = [kind |-> t[n].kind, name |-> t[n].name, type |-> t[n].type,
                       par |-> t[n].par, op |-> t[n].op, kids |-> s]
  BY <1>3, <1>5 DEF Look
<1>8. Look(t, n) \in Looks
  BY <1>1, <1>6, <1>7 DEF Node, Looks
<1> QED
  BY <1>1, <1>2, <1>3, <1>5, <1>6, <1>7, <1>8

(* A good look is a good shape. *)
LEMMA GoodShape ==
  ASSUME NEW t, TreeOK(t), NEW n \in DOMAIN t, Good(Look(t, n))
  PROVE  Shape(t, n)
<1>1. PICK k \in Seq(Nat) : k = t[n].kids
  BY LookFacts DEF Node
<1>2. PICK l \in Looks : l = Look(t, n)
  BY LookFacts
<1>3. /\ l.kind = t[n].kind /\ l.name = t[n].name /\ l.type = t[n].type /\ l.par = t[n].par
      /\ l.op = t[n].op /\ DOMAIN l.kids = DOMAIN k /\ Len(l.kids) = Len(k)
      /\ \A i \in DOMAIN k : l.kids[i] = Face(t[k[i]])
  BY <1>1, <1>2, LookFacts
<1>4. \A i \in DOMAIN k : /\ l.kids[i].kind = t[k[i]].kind
                          /\ t[k[i]].kind = "call" => l.kids[i].par = t[k[i]].par
  <2>1. \A nd : Face(nd).kind = nd.kind /\ (nd.kind = "call" => Face(nd).par = nd.par)
    BY DEF Face
  <2> QED
    BY <1>3, <2>1
<1>5. \A from, kinds : AllKids(l, from, kinds) <=> KidsOfKind(t, n, from, kinds)
  BY <1>1, <1>3, <1>4 DEF AllKids, KidsOfKind
<1>6. Len(k) \in Nat /\ DOMAIN k = 1 .. Len(k) /\ (l.kids = <<>> => k = <<>>)
  BY <1>3
<1>7. Good(l)
  BY <1>2
<1>8. CASE t[n].kind \in {"program", "block", "thread", "func"}
  BY <1>1, <1>3, <1>4, <1>5, <1>7, <1>8, SMTT(30) DEF Good, Shape
<1>9. CASE t[n].kind = "decl"
  <2>1. 1 \in DOMAIN k /\ Len(k) = 1
    BY <1>3, <1>6, <1>7, <1>9 DEF Good
  <2> QED
    BY <1>1, <1>3, <1>4, <1>7, <1>9, <2>1 DEF Good, Shape
<1>10. CASE t[n].kind = "update"
  BY <1>1, <1>3, <1>5, <1>7, <1>10 DEF Good, Shape
<1>11. CASE t[n].kind = "if"
  <2>1. 1 \in DOMAIN k /\ 2 \in DOMAIN k
    BY <1>3, <1>6, <1>7, <1>11 DEF Good
  <2> QED
    BY <1>1, <1>3, <1>4, <1>5, <1>7, <1>11, <2>1 DEF Good, Shape
<1>12. CASE t[n].kind = "for"
  <2>1. 1 \in DOMAIN k /\ 2 \in DOMAIN k /\ 3 \in DOMAIN k /\ 4 \in DOMAIN k
    BY <1>3, <1>6, <1>7, <1>12 DEF Good
  <2> QED
    BY <1>1, <1>3, <1>4, <1>7, <1>12, <2>1 DEF Good, Shape
<1>13. CASE t[n].kind \in {"return", "print", "unary"}
  <2>1. 1 \in DOMAIN k
    BY <1>3, <1>6, <1>7, <1>13 DEF Good
  <2> QED
    BY <1>1, <1>3, <1>4, <1>7, <1>13, <2>1 DEF Good, Shape
<1>14. CASE t[n].kind = "await"
  BY <1>1, <1>3, <1>5, <1>7, <1>14 DEF Good, Shape
<1>15. CASE t[n].kind = "call"
  BY <1>1, <1>3, <1>5, <1>7, <1>15 DEF Good, Shape
<1>16. CASE t[n].kind = "binop"
  BY <1>1, <1>3, <1>5, <1>7, <1>16 DEF Good, Shape
<1>17. CASE t[n].kind = "ident"
  BY <1>1, <1>3, <1>6, <1>7, <1>17 DEF Good, Shape
<1>18. CASE t[n].kind \in {"int", "string"}
  BY <1>1, <1>3, <1>6, <1>7, <1>18 DEF Good, Shape
<1> QED
  BY <1>8, <1>9, <1>10, <1>11, <1>12, <1>13, <1>14, <1>15, <1>16, <1>17, <1>18, LookFacts
     DEF Node, Kinds, StmtKinds, ExprKinds

(* Two looks with the same fields and parts are one. *)
LEMMA SameLook ==
  ASSUME NEW l \in Looks, NEW m \in Looks, l.kind = m.kind, l.name = m.name, l.type = m.type,
         l.par = m.par, l.op = m.op, Len(l.kids) = Len(m.kids),
         \A i \in 1 .. Len(l.kids) : l.kids[i] = m.kids[i]
  PROVE  l = m
<1>1. l.kids = m.kids
  BY DEF Looks
<1> QED
  BY <1>1 DEF Looks

Written(t, h, nd) == [t EXCEPT ![h] = nd]

LookOf(nd, kids) == [kind |-> nd.kind, name |-> nd.name, type |-> nd.type, par |-> nd.par,
                     op |-> nd.op, kids |-> kids]

(* A field is written: the others look as they did. *)
LEMMA WrittenLooks ==
  ASSUME NEW t, TreeOK(t), NEW h \in DOMAIN t, NEW nd \in Node, nd.kids = t[h].kids,
         nd.kind = t[h].kind, Face(nd) = Face(t[h]), PlainPar(nd), NEW u, u = Written(t, h, nd)
  PROVE  /\ TreeOK(u) /\ DOMAIN u = DOMAIN t
         /\ \A n \in DOMAIN t : n # h => Look(u, n) = Look(t, n)
         /\ Look(u, h) = LookOf(nd, Look(t, h).kids)
<1>1. TreeOK(u)
  BY WrittenIsTree DEF Written
<1>2. t \in Seq(Node) /\ DOMAIN u = DOMAIN t /\ u[h] = nd /\ \A n \in DOMAIN t : n # h => u[n] = t[n]
  BY DEF TreeOK, Written
<1>3. \A n \in DOMAIN t : Face(u[n]) = Face(t[n]) /\ u[n].kids = t[n].kids
  BY <1>2
<1>4. \A n \in DOMAIN t : \A i \in DOMAIN t[n].kids : t[n].kids[i] \in DOMAIN t
  <2>1. \A n \in DOMAIN t : \A i \in DOMAIN t[n].kids : Under(t, n, t[n].kids[i])
    BY DEF Under
  <2> QED
    BY <2>1 DEF TreeOK, After1
<1>5. \A n \in DOMAIN t : Look(u, n).kids = Look(t, n).kids
  <2> SUFFICES ASSUME NEW n \in DOMAIN t PROVE Look(u, n).kids = Look(t, n).kids
    OBVIOUS
  <2>1. Look(u, n).kids = [i \in DOMAIN t[n].kids |-> Face(u[t[n].kids[i]])]
    BY <1>3 DEF Look
  <2>2. Look(t, n).kids = [i \in DOMAIN t[n].kids |-> Face(t[t[n].kids[i]])]
    BY DEF Look
  <2> QED
    BY <1>3, <1>4, <2>1, <2>2
<1>6. \A n \in DOMAIN t : n # h => Look(u, n) = Look(t, n)
  BY <1>2, <1>5 DEF Look
<1>7. Look(u, h) = LookOf(nd, Look(u, h).kids)
  BY <1>2 DEF Look, LookOf
<1> QED
  BY <1>1, <1>2, <1>5, <1>6, <1>7

(* A node is appended: its parent has one more part. *)
LEMMA GrownLooks ==
  ASSUME NEW t, TreeOK(t), NEW h \in DOMAIN t, AtTheEnd(t, h), NEW nd \in Node, nd.kids = <<>>,
         PlainPar(nd), NEW u, u = GrownTree(t, h, nd)
  PROVE  /\ TreeOK(u) /\ Len(t) \in Nat /\ DOMAIN t = 1 .. Len(t) /\ DOMAIN u = 1 .. Len(t) + 1
         /\ \A n \in DOMAIN t : n # h => Look(u, n) = Look(t, n)
         /\ Look(u, h) = Bigger(Look(t, h), Face(nd))
         /\ Look(u, Len(t) + 1) = Start(nd)
<1>1. TreeOK(u) /\ t \in Seq(Node)
  BY GrownIsTree DEF TreeOK
<1>2. Grew(t, h, nd, u)
  BY <1>1, GrownFacts
<1>3. PICK L \in Nat : L = Len(t) /\ DOMAIN t = 1 .. L /\ DOMAIN u = 1 .. L + 1 /\ u[L + 1] = nd
  BY <1>2 DEF Grew
<1>4. /\ \A n \in DOMAIN t : n # h => u[n] = t[n]
      /\ u[h].kids = Append(t[h].kids, L + 1) /\ u[h].kind = t[h].kind /\ u[h].par = t[h].par
      /\ u[h].name = t[h].name /\ u[h].type = t[h].type /\ u[h].op = t[h].op
  BY <1>2, <1>3 DEF Grew
<1>5. \A n \in DOMAIN t : Face(u[n]) = Face(t[n])
  BY <1>4 DEF Face
<1>6. \A n \in DOMAIN t : \A i \in DOMAIN t[n].kids : t[n].kids[i] \in DOMAIN t
  <2>1. \A n \in DOMAIN t : \A i \in DOMAIN t[n].kids : Under(t, n, t[n].kids[i])
    BY DEF Under
  <2> QED
    BY <2>1 DEF TreeOK, After1
<1>7. ASSUME NEW n \in DOMAIN t, n # h PROVE Look(u, n) = Look(t, n)
  <2>1. u[n] = t[n]
    BY <1>4, <1>7
  <2>2. [i \in DOMAIN t[n].kids |-> Face(u[t[n].kids[i]])]
          = [i \in DOMAIN t[n].kids |-> Face(t[t[n].kids[i]])]
    BY <1>5, <1>6
  <2> QED
    BY <2>1, <2>2 DEF Look
<1>8. Look(u, h) = Bigger(Look(t, h), Face(nd))
  <2>1. h \in DOMAIN u /\ L + 1 \in DOMAIN u
    BY <1>3
  <2>2. PICK m \in Looks : m = Look(u, h)
    BY <1>1, <2>1, LookFacts
  <2>3. PICK l \in Looks : l = Look(t, h)
    BY LookFacts
  <2>4. PICK f \in Faces : f = Face(nd)
    BY <1>1, <1>3, <2>1, LookFacts
  <2>5. /\ Bigger(l, f) \in Looks /\ Bigger(l, f).kids = Append(l.kids, f)
        /\ Bigger(l, f).kind = l.kind /\ Bigger(l, f).name = l.name
        /\ Bigger(l, f).type = l.type /\ Bigger(l, f).par = l.par /\ Bigger(l, f).op = l.op
    BY BiggerFacts
  <2>6. PICK k \in Seq(Nat) : k = t[h].kids
    BY LookFacts DEF Node
  <2>7. PICK e : e = Append(k, L + 1)
    OBVIOUS
  <2>8. /\ Len(e) = Len(k) + 1 /\ Len(k) \in Nat /\ DOMAIN k = 1 .. Len(k)
        /\ e[Len(k) + 1] = L + 1 /\ \A i \in 1 .. Len(k) : e[i] = k[i]
        /\ DOMAIN e = 1 .. Len(k) + 1
    BY <1>3, <2>7
  <2>9. u[h].kids = e
    BY <1>4, <2>6, <2>7
  <2>10. /\ Len(m.kids) = Len(e) /\ \A i \in DOMAIN e : m.kids[i] = Face(u[e[i]])
    BY <1>1, <2>1, <2>2, <2>9, LookFacts
  <2>11. /\ Len(l.kids) = Len(k) /\ DOMAIN l.kids = DOMAIN k
         /\ \A i \in DOMAIN k : l.kids[i] = Face(t[k[i]])
    BY <2>3, <2>6, LookFacts
  <2>12. PICK b : b = Append(l.kids, f)
    OBVIOUS
  <2>13. l.kids \in Seq(Faces)
    BY DEF Looks
  <2>14. /\ Len(b) = Len(k) + 1 /\ b[Len(k) + 1] = f
         /\ \A i \in 1 .. Len(k) : b[i] = l.kids[i]
    BY <2>8, <2>11, <2>12, <2>13
  <2>15. ASSUME NEW i \in 1 .. Len(k) + 1 PROVE m.kids[i] = b[i]
    <3>1. CASE i = Len(k) + 1
      BY <1>3, <2>4, <2>8, <2>10, <2>14, <3>1
    <3>2. CASE i \in 1 .. Len(k)
      <4>1. k[i] \in DOMAIN t
        BY <1>6, <2>6, <2>8, <3>2
      <4>2. m.kids[i] = Face(u[k[i]])
        BY <2>8, <2>10, <3>2
      <4> QED
        BY <1>5, <2>8, <2>11, <2>14, <3>2, <4>1, <4>2
    <3> QED
      BY <2>8, <3>1, <3>2
  <2>16. /\ m.kind = l.kind /\ m.name = l.name /\ m.type = l.type /\ m.par = l.par /\ m.op = l.op
    BY <1>4, <2>2, <2>3 DEF Look
  <2>17. m = Bigger(l, f)
    <3>1. PICK big \in Looks : big = Bigger(l, f)
      BY <2>5
    <3>2. /\ big.kids = b /\ Len(m.kids) = Len(k) + 1 /\ Len(b) = Len(k) + 1
          /\ m.kind = big.kind /\ m.name = big.name /\ m.type = big.type
          /\ m.par = big.par /\ m.op = big.op
      BY <2>5, <2>8, <2>10, <2>12, <2>14, <2>16, <3>1
    <3>3. Len(m.kids) = Len(big.kids) /\ \A i \in 1 .. Len(m.kids) : m.kids[i] = big.kids[i]
      BY <2>15, <3>2
    <3> QED
      BY <3>1, <3>2, <3>3, SameLook
  <2> QED
    BY <2>2, <2>3, <2>4, <2>17
<1>9. Look(u, L + 1) = Start(nd)
  <2>1. DOMAIN nd.kids = {}
    OBVIOUS
  <2>2. [i \in DOMAIN nd.kids |-> Face(u[nd.kids[i]])] = <<>>
    BY <2>1
  <2> QED
    BY <1>3, <2>2 DEF Look, Start
<1> QED
  BY <1>1, <1>3, <1>7, <1>8, <1>9

Combined(l) == [l EXCEPT !.kids = Append(SubSeq(@, 1, Len(@) - 2), FaceOf("binop"))]

(* An operator takes the two latest parts of a node: the others look as    *)
(* they did, from where they are now.                                      *)
LEMMA JoinedLooks ==
  ASSUME NEW t, NEW h, NEW l, NEW r, Latest(t, h, l, r), NEW op \in BinaryOps,
         NEW u, u = JoinedTree(t, h, op, l, r)
  PROVE  /\ TreeOK(u) /\ h \in 1 .. Len(t) /\ l \in 1 .. Len(t) /\ h < l /\ Len(t) \in Nat
         /\ DOMAIN t = 1 .. Len(t) /\ DOMAIN u = 1 .. Len(t) + 1
         /\ \A n \in 1 .. Len(t) : n < l /\ n # h => Look(u, n) = Look(t, n)
         /\ \A n \in 1 .. Len(t) : n >= l => Look(u, n + 1) = Look(t, n)
         /\ Look(u, l).kind = "binop" /\ Look(u, l).op = op /\ Len(Look(u, l).kids) = 2
         /\ Look(u, l).kids[1] = Face(t[l]) /\ Look(u, l).kids[2] = Face(t[r])
         /\ Look(u, h) = Combined(Look(t, h))
<1>1. Operands(t, h, l, r) /\ Joins(t, h, op, l, r, u)
  BY OperandFacts, JoinFacts
<1>2. TreeOK(u) /\ TreeOK(t)
  <2>1. TreeOK(u)
    BY <1>1, JoinedIsTree
  <2>2. TreeOK(t)
    BY DEF Latest
  <2> QED
    BY <2>1, <2>2
<1>3. PICK L \in Nat : L = Len(t)
  BY <1>1 DEF Operands
<1>4. /\ t \in Seq(Node) /\ DOMAIN t = 1 .. L /\ h \in 1 .. L /\ l \in 1 .. L /\ r \in 1 .. L
      /\ h < l /\ l < r /\ DOMAIN u = 1 .. L + 1
  BY <1>1, <1>3 DEF Operands, Joins
<1>5. \A p, c : Under(t, p, c) => p \in 1 .. L /\ c \in 1 .. L /\ c > p
  BY <1>1, <1>3 DEF Operands
<1>6. \A p, c : Under(t, p, c) /\ p < l => c < l \/ (p = h /\ c \in {l, r})
  BY <1>1 DEF Operands
<1>7. /\ SameFields(u[h], t[h]) /\ u[h].kids = SubSeq(t[h].kids, 1, Len(t[h].kids) - 1)
      /\ \A n \in 1 .. L : n < l /\ n # h => u[n] = t[n]
      /\ u[l].kind = "binop" /\ u[l].op = op /\ u[l].kids = <<l + 1, r + 1>>
      /\ \A n \in 1 .. L : n >= l =>
           /\ SameFields(u[n + 1], t[n]) /\ DOMAIN u[n + 1].kids = DOMAIN t[n].kids
           /\ \A i \in DOMAIN t[n].kids : u[n + 1].kids[i] = t[n].kids[i] + 1
  BY <1>1, <1>3 DEF Joins
<1>8. \A nd, md : SameFields(nd, md) => Face(nd) = Face(md)
  BY DEF SameFields, Face
<1>9. \A n \in 1 .. L : n < l => Face(u[n]) = Face(t[n])
  BY <1>7, <1>8
<1>10. \A n \in 1 .. L : n >= l => Face(u[n + 1]) = Face(t[n])
  BY <1>7, <1>8
<1>11. Face(u[l]) = FaceOf("binop")
  BY <1>7 DEF Face, FaceOf
<1>12. \A n \in 1 .. L : \A i \in DOMAIN t[n].kids : Under(t, n, t[n].kids[i])
  BY <1>4 DEF Under
<1>13. ASSUME NEW n \in 1 .. L, n < l, n # h PROVE Look(u, n) = Look(t, n)
  <2>1. u[n] = t[n]
    BY <1>7, <1>13
  <2>2. \A i \in DOMAIN t[n].kids : t[n].kids[i] \in 1 .. L /\ t[n].kids[i] < l
    BY <1>5, <1>6, <1>12, <1>13
  <2>3. [i \in DOMAIN t[n].kids |-> Face(u[t[n].kids[i]])]
          = [i \in DOMAIN t[n].kids |-> Face(t[t[n].kids[i]])]
    BY <1>9, <2>2
  <2> QED
    BY <2>1, <2>3 DEF Look
<1>14. ASSUME NEW n \in 1 .. L, n >= l PROVE Look(u, n + 1) = Look(t, n)
  <2>1. /\ SameFields(u[n + 1], t[n]) /\ DOMAIN u[n + 1].kids = DOMAIN t[n].kids
        /\ \A i \in DOMAIN t[n].kids : u[n + 1].kids[i] = t[n].kids[i] + 1
    BY <1>7, <1>14
  <2>2. \A i \in DOMAIN t[n].kids : t[n].kids[i] \in 1 .. L /\ t[n].kids[i] >= l
    BY <1>4, <1>5, <1>12, <1>14
  <2>3. [i \in DOMAIN u[n + 1].kids |-> Face(u[u[n + 1].kids[i]])]
          = [i \in DOMAIN t[n].kids |-> Face(t[t[n].kids[i]])]
    BY <1>10, <2>1, <2>2
  <2> QED
    BY <2>1, <2>3 DEF Look, SameFields
<1>15. /\ Look(u, l).kind = "binop" /\ Look(u, l).op = op /\ Len(Look(u, l).kids) = 2
       /\ Look(u, l).kids[1] = Face(t[l]) /\ Look(u, l).kids[2] = Face(t[r])
  <2>1. l \in DOMAIN u
    BY <1>4
  <2>2. /\ Look(u, l).kind = u[l].kind /\ Look(u, l).op = u[l].op
        /\ Len(Look(u, l).kids) = Len(u[l].kids)
        /\ \A i \in DOMAIN u[l].kids : Look(u, l).kids[i] = Face(u[u[l].kids[i]])
    BY <1>2, <2>1, LookFacts
  <2>3. PICK s : s = <<l + 1, r + 1>>
    OBVIOUS
  <2>4. Len(s) = 2 /\ 1 \in DOMAIN s /\ 2 \in DOMAIN s /\ s[1] = l + 1 /\ s[2] = r + 1
    BY <2>3
  <2>5. u[l].kids = s
    BY <1>7, <2>3
  <2>6. Face(u[l + 1]) = Face(t[l]) /\ Face(u[r + 1]) = Face(t[r])
    BY <1>4, <1>10
  <2> QED
    BY <1>7, <2>2, <2>4, <2>5, <2>6
<1>16. Look(u, h) = Combined(Look(t, h))
  <2>1. h \in DOMAIN u /\ h \in DOMAIN t
    BY <1>4
  <2>2. PICK m \in Looks : m = Look(u, h)
    BY <1>2, <2>1, LookFacts
  <2>3. PICK v \in Looks : v = Look(t, h)
    BY <1>2, <2>1, LookFacts
  <2>4. PICK k \in Seq(Nat) : k = t[h].kids
    BY <1>2, <2>1, LookFacts DEF Node
  <2>5. PICK K \in Nat : K = Len(k) /\ K >= 2 /\ DOMAIN k = 1 .. K /\ l = k[K - 1]
    BY <2>4 DEF Latest
  <2>6. PICK e : e = SubSeq(k, 1, K - 1)
    OBVIOUS
  <2>7. Len(e) = K - 1 /\ DOMAIN e = 1 .. K - 1 /\ \A i \in 1 .. K - 1 : e[i] = k[i]
    BY <2>5, <2>6
  <2>8. u[h].kids = e
    BY <1>7, <2>4, <2>5, <2>6
  <2>9. Len(m.kids) = K - 1 /\ \A i \in 1 .. K - 1 : m.kids[i] = Face(u[k[i]])
    BY <1>2, <2>1, <2>2, <2>7, <2>8, LookFacts, SMTT(30)
  <2>10. PICK s \in Seq(Faces) : s = v.kids
    BY DEF Looks
  <2>11. Len(s) = K /\ \A i \in 1 .. K : s[i] = Face(t[k[i]])
    BY <1>2, <2>1, <2>3, <2>4, <2>5, <2>10, LookFacts
  <2>12. PICK b : b = Append(SubSeq(s, 1, K - 2), FaceOf("binop"))
    OBVIOUS
  <2>13. PICK s2 \in Seq(Faces) : s2 = SubSeq(s, 1, K - 2) /\ Len(s2) = K - 2
                                  /\ \A i \in 1 .. K - 2 : s2[i] = s[i]
    <3>1. /\ SubSeq(s, 1, K - 2) \in Seq(Faces) /\ Len(SubSeq(s, 1, K - 2)) = K - 2
          /\ \A i \in 1 .. K - 2 : SubSeq(s, 1, K - 2)[i] = s[i]
      BY <2>5, <2>11
    <3> QED
      BY <3>1
  <2>14. FaceOf("binop") \in Faces
    BY FaceFacts DEF Kinds, ExprKinds
  <2>15. /\ b \in Seq(Faces) /\ Len(b) = K - 1 /\ b[K - 1] = FaceOf("binop")
         /\ \A i \in 1 .. K - 2 : b[i] = s[i]
    BY <2>5, <2>12, <2>13, <2>14, SMTT(30)
  <2>16. ASSUME NEW i \in 1 .. K - 1 PROVE m.kids[i] = b[i]
    <3>1. CASE i = K - 1
      BY <1>11, <2>5, <2>9, <2>15, <3>1
    <3>2. CASE i \in 1 .. K - 2
      <4>1. i \in 1 .. K /\ k[i] < l
        <5>1. \A x, y \in 1 .. K : x < y => k[x] < k[y]
          <6>1. Increasing(t)
            BY <1>2 DEF TreeOK
          <6> QED
            BY <2>1, <2>4, <2>5, <6>1 DEF Increasing
        <5>2. i \in 1 .. K /\ K - 1 \in 1 .. K /\ i < K - 1
          BY <2>5, <3>2
        <5> QED
          BY <2>5, <5>1, <5>2
      <4>2. k[i] \in 1 .. L
        BY <1>5, <1>12, <1>4, <2>4, <2>5, <4>1
      <4> QED
        BY <1>9, <2>9, <2>11, <2>15, <3>2, <4>1, <4>2
    <3> QED
      BY <2>5, <3>1, <3>2
  <2>17. PICK w \in Looks : w = [v EXCEPT !.kids = b]
    <3>1. [v EXCEPT !.kids = b] \in Looks
      BY <2>15 DEF Looks
    <3> QED
      BY <3>1
  <2>18. /\ w.kids = b /\ w.kind = v.kind /\ w.name = v.name /\ w.type = v.type
         /\ w.par = v.par /\ w.op = v.op
    BY <2>17 DEF Looks
  <2>19. m.kind = v.kind /\ m.name = v.name /\ m.type = v.type /\ m.par = v.par /\ m.op = v.op
    BY <1>7, <2>2, <2>3 DEF Look, SameFields
  <2>20. Len(m.kids) = Len(w.kids) /\ \A i \in 1 .. Len(m.kids) : m.kids[i] = w.kids[i]
    BY <2>9, <2>15, <2>16, <2>18
  <2>21. m = w
    BY <2>18, <2>19, <2>20, SameLook
  <2>22. Combined(v) = w
    BY <2>10, <2>11, <2>12, <2>17 DEF Combined
  <2> QED
    BY <2>2, <2>3, <2>21, <2>22
<1> QED
  BY <1>2, <1>3, <1>4, <1>13, <1>14, <1>15, <1>16

-----------------------------------------------------------------------------
(* A tree that is being read: each call can be completed, and the nodes    *)
(* without a call are complete.                                            *)

CallFrame == [node : Nat, todo : Seq(Items)]

CallsOK(t, fs) ==
  /\ fs \in Seq(CallFrame)
  /\ \A i \in DOMAIN fs : /\ fs[i].node \in DOMAIN t /\ AtTheEnd(t, fs[i].node)
                          /\ Leads(fs[i].todo, Look(t, fs[i].node), GoodLooks)
  /\ \A i, j \in DOMAIN fs : i < j => fs[i].node > fs[j].node

Closed(t, fs) ==
  \A n \in DOMAIN t : (\A i \in DOMAIN fs : fs[i].node # n) => Look(t, n) \in GoodLooks

Readable(t, fs) == TreeOK(t) /\ CallsOK(t, fs) /\ Closed(t, fs)

(* The innermost call *)
LEMMA TopFrame ==
  ASSUME NEW t, NEW fs, Readable(t, fs), fs # <<>>
  PROVE  /\ fs \in Seq(CallFrame) /\ 1 \in DOMAIN fs /\ fs[1] \in CallFrame
         /\ Len(fs) \in Nat /\ Len(fs) >= 1 /\ DOMAIN fs = 1 .. Len(fs)
         /\ fs[1].node \in DOMAIN t /\ AtTheEnd(t, fs[1].node) /\ fs[1].todo \in Seq(Items)
         /\ Look(t, fs[1].node) \in Looks
         /\ Leads(fs[1].todo, Look(t, fs[1].node), GoodLooks)
         /\ \A i \in DOMAIN fs : i # 1 => fs[1].node > fs[i].node /\ fs[i].node \in DOMAIN t
<1>1. fs \in Seq(CallFrame) /\ TreeOK(t)
  BY DEF Readable, CallsOK
<1>2. 1 \in DOMAIN fs /\ fs[1] \in CallFrame /\ Len(fs) \in Nat /\ Len(fs) >= 1 /\ DOMAIN fs = 1 .. Len(fs)
  BY <1>1
<1>3. /\ fs[1].node \in DOMAIN t /\ AtTheEnd(t, fs[1].node)
      /\ Leads(fs[1].todo, Look(t, fs[1].node), GoodLooks)
  BY <1>2 DEF Readable, CallsOK
<1>4. \A i \in DOMAIN fs : i # 1 => fs[1].node > fs[i].node /\ fs[i].node \in DOMAIN t
  BY <1>2 DEF Readable, CallsOK
<1> QED
  BY <1>1, <1>2, <1>3, <1>4, LookFacts DEF CallFrame

Onward(fs, s) == [fs EXCEPT ![1].todo = s]

LEMMA OnwardFacts ==
  ASSUME NEW fs \in Seq(CallFrame), fs # <<>>, NEW s \in Seq(Items), NEW gs, gs = Onward(fs, s)
  PROVE  /\ gs \in Seq(CallFrame) /\ DOMAIN gs = DOMAIN fs /\ Len(gs) = Len(fs) /\ gs # <<>>
         /\ gs[1].node = fs[1].node /\ gs[1].todo = s
         /\ \A i \in DOMAIN fs : i # 1 => gs[i] = fs[i]
<1>1. 1 \in DOMAIN fs /\ fs[1] \in CallFrame
  OBVIOUS
<1>2. PICK f \in CallFrame : f = [fs[1] EXCEPT !.todo = s] /\ f.node = fs[1].node /\ f.todo = s
  <2>1. [fs[1] EXCEPT !.todo = s] \in CallFrame
    BY <1>1 DEF CallFrame
  <2> QED
    BY <1>1, <2>1 DEF CallFrame
<1>3. gs = [fs EXCEPT ![1] = f]
  BY <1>2 DEF Onward
<1>4. gs \in Seq(CallFrame) /\ DOMAIN gs = DOMAIN fs /\ Len(gs) = Len(fs)
  BY <1>1, <1>3
<1>5. gs[1] = f /\ \A i \in DOMAIN fs : i # 1 => gs[i] = fs[i]
  BY <1>1, <1>3
<1>6. gs # <<>>
  BY <1>1, <1>4
<1> QED
  BY <1>2, <1>4, <1>5, <1>6

(* The innermost call goes on, and may have written a field. *)
LEMMA GoesOnInPlace ==
  ASSUME NEW t, NEW fs, Readable(t, fs), fs # <<>>, NEW nd \in Node,
         nd.kids = t[fs[1].node].kids, nd.kind = t[fs[1].node].kind,
         Face(nd) = Face(t[fs[1].node]), PlainPar(nd),
         NEW s \in Seq(Items),
         Leads(s, LookOf(nd, Look(t, fs[1].node).kids), GoodLooks)
  PROVE  Readable(Written(t, fs[1].node, nd), Onward(fs, s))
<1>1. PICK h \in DOMAIN t : h = fs[1].node
  BY TopFrame
<1>2. PICK u : u = Written(t, h, nd)
  OBVIOUS
<1>3. PICK gs : gs = Onward(fs, s)
  OBVIOUS
<1>4. TreeOK(t) /\ fs \in Seq(CallFrame)
  BY DEF Readable, CallsOK
<1>5. /\ TreeOK(u) /\ DOMAIN u = DOMAIN t
      /\ \A n \in DOMAIN t : n # h => Look(u, n) = Look(t, n)
      /\ Leads(s, Look(u, h), GoodLooks)
  <2>1. /\ nd.kids = t[h].kids /\ nd.kind = t[h].kind /\ Face(nd) = Face(t[h])
        /\ Leads(s, LookOf(nd, Look(t, h).kids), GoodLooks)
    BY <1>1
  <2>2. /\ TreeOK(u) /\ DOMAIN u = DOMAIN t
        /\ \A n \in DOMAIN t : n # h => Look(u, n) = Look(t, n)
        /\ Look(u, h) = LookOf(nd, Look(t, h).kids)
    BY <1>2, <1>4, <2>1, WrittenLooks
  <2> QED
    BY <2>1, <2>2
<1>6. \A k : AtTheEnd(t, k) => AtTheEnd(u, k)
  BY <1>1, <1>2, <1>4, WrittenIsTree DEF Written
<1>7. /\ gs \in Seq(CallFrame) /\ DOMAIN gs = DOMAIN fs
      /\ gs[1].node = fs[1].node /\ gs[1].todo = s
      /\ \A i \in DOMAIN fs : i # 1 => gs[i] = fs[i]
  BY <1>3, <1>4, OnwardFacts
<1>8. \A i \in DOMAIN fs : gs[i].node = fs[i].node
  BY <1>7
<1>9. \A i \in DOMAIN fs : i # 1 => h > fs[i].node /\ fs[i].node \in DOMAIN t
  BY <1>1, TopFrame
<1>10. ASSUME NEW i \in DOMAIN gs
       PROVE  /\ gs[i].node \in DOMAIN u /\ AtTheEnd(u, gs[i].node)
              /\ Leads(gs[i].todo, Look(u, gs[i].node), GoodLooks)
  <2>1. CASE i = 1
    <3>1. AtTheEnd(t, h)
      BY <1>1, TopFrame
    <3> QED
      BY <1>1, <1>5, <1>6, <1>7, <2>1, <3>1
  <2>2. CASE i # 1
    <3>1. fs[i].node # h
      <4>1. h > fs[i].node /\ h \in Nat /\ fs[i].node \in Nat
        BY <1>1, <1>4, <1>7, <1>9, <2>2 DEF TreeOK
      <4> QED
        BY <4>1
    <3>2. /\ fs[i].node \in DOMAIN t /\ AtTheEnd(t, fs[i].node)
          /\ Leads(fs[i].todo, Look(t, fs[i].node), GoodLooks)
      BY <1>7 DEF Readable, CallsOK
    <3> QED
      BY <1>5, <1>6, <1>7, <2>2, <3>1, <3>2
  <2> QED
    BY <2>1, <2>2
<1>11. CallsOK(u, gs)
  BY <1>7, <1>8, <1>10 DEF CallsOK, Readable
<1>12. Closed(u, gs)
  <2> SUFFICES ASSUME NEW n \in DOMAIN u, \A i \in DOMAIN gs : gs[i].node # n
               PROVE  Look(u, n) \in GoodLooks
    BY DEF Closed
  <2>1. \A i \in DOMAIN fs : fs[i].node # n
    BY <1>7, <1>8
  <2>2. n # h
    BY <1>1, <2>1, TopFrame
  <2> QED
    BY <1>5, <2>1, <2>2 DEF Readable, Closed
<1> QED
  BY <1>1, <1>2, <1>3, <1>5, <1>11, <1>12 DEF Readable

LEMMA GoesOnAlone ==
  ASSUME NEW t, NEW fs, Readable(t, fs), fs # <<>>, NEW s \in Seq(Items),
         Leads(s, Look(t, fs[1].node), GoodLooks)
  PROVE  Readable(t, Onward(fs, s))
<1>1. PICK h \in DOMAIN t : h = fs[1].node
  BY TopFrame
<1>2. TreeOK(t) /\ t \in Seq(Node)
  BY DEF Readable, TreeOK
<1>3. Written(t, h, t[h]) = t
  BY <1>2 DEF Written
<1>4. PlainPar(t[h]) /\ t[h] \in Node
  BY <1>2 DEF TreeOK
<1>5. Look(t, h) = LookOf(t[h], Look(t, h).kids)
  BY DEF Look, LookOf
<1>6. Readable(Written(t, h, t[h]), Onward(fs, s))
  BY <1>1, <1>4, <1>5, GoesOnInPlace
<1> QED
  BY <1>3, <1>6

(* A node is appended under that of the innermost call, which goes on; the *)
(* new one may be left to a call of its own.                               *)
LEMMA GrowsByLeaf ==
  ASSUME NEW t, NEW fs, Readable(t, fs), fs # <<>>, NEW nd \in Node, nd.kids = <<>>, PlainPar(nd),
         NEW s \in Seq(Items), Leads(s, Bigger(Look(t, fs[1].node), Face(nd)), GoodLooks),
         NEW u, u = GrownTree(t, fs[1].node, nd), NEW gs, gs = Onward(fs, s)
  PROVE  /\ TreeOK(u) /\ CallsOK(u, gs)
         /\ Start(nd) \in GoodLooks => Closed(u, gs)
         /\ Len(t) \in Nat /\ DOMAIN u = 1 .. Len(t) + 1 /\ AtTheEnd(u, Len(t) + 1)
         /\ Look(u, Len(t) + 1) = Start(nd)
         /\ \A i \in DOMAIN gs : gs[i].node \in 1 .. Len(t)
         /\ \A n \in 1 .. Len(t) : (\A i \in DOMAIN gs : gs[i].node # n) => Look(u, n) \in GoodLooks
<1>1. PICK h \in DOMAIN t : h = fs[1].node /\ AtTheEnd(t, h)
  BY TopFrame
<1>2. PICK L \in Nat : L = Len(t)
  BY DEF Readable, TreeOK
<1>3. TreeOK(t) /\ fs \in Seq(CallFrame)
  BY DEF Readable, CallsOK
<1>4. /\ TreeOK(u) /\ DOMAIN t = 1 .. L /\ DOMAIN u = 1 .. L + 1
      /\ \A n \in DOMAIN t : n # h => Look(u, n) = Look(t, n)
      /\ Look(u, h) = Bigger(Look(t, h), Face(nd)) /\ Look(u, L + 1) = Start(nd)
  <2>1. u = GrownTree(t, h, nd)
    BY <1>1
  <2> QED
    BY <1>1, <1>2, <1>3, <2>1, GrownLooks
<1>5. AtTheEnd(u, L + 1) /\ \A k \in 1 .. h : AtTheEnd(t, k) => AtTheEnd(u, k)
  BY <1>1, <1>2, <1>3, GrownIsTree
<1>6. /\ gs \in Seq(CallFrame) /\ DOMAIN gs = DOMAIN fs
      /\ gs[1].node = fs[1].node /\ gs[1].todo = s
      /\ \A i \in DOMAIN fs : i # 1 => gs[i] = fs[i]
  BY <1>3, OnwardFacts
<1>7. \A i \in DOMAIN fs : gs[i].node = fs[i].node
  BY <1>6
<1>8. \A i \in DOMAIN fs : i # 1 => h > fs[i].node /\ fs[i].node \in DOMAIN t
  BY <1>1, TopFrame
<1>9. h \in 1 .. L /\ DOMAIN t \subseteq DOMAIN u
  BY <1>4
<1>10. ASSUME NEW i \in DOMAIN gs
       PROVE  /\ gs[i].node \in DOMAIN t /\ AtTheEnd(u, gs[i].node)
              /\ Leads(gs[i].todo, Look(u, gs[i].node), GoodLooks)
  <2>1. CASE i = 1
    <3>1. h \in 1 .. h
      BY <1>9
    <3> QED
      BY <1>1, <1>4, <1>5, <1>6, <2>1, <3>1
  <2>2. CASE i # 1
    <3>1. fs[i].node # h /\ fs[i].node \in 1 .. h
      BY <1>4, <1>6, <1>8, <1>9, <2>2
    <3>2. /\ fs[i].node \in DOMAIN t /\ AtTheEnd(t, fs[i].node)
          /\ Leads(fs[i].todo, Look(t, fs[i].node), GoodLooks)
      BY <1>6 DEF Readable, CallsOK
    <3> QED
      BY <1>4, <1>5, <1>6, <2>2, <3>1, <3>2
  <2> QED
    BY <2>1, <2>2
<1>11. CallsOK(u, gs)
  BY <1>6, <1>7, <1>9, <1>10 DEF CallsOK, Readable
<1>12. ASSUME NEW n \in DOMAIN t, \A i \in DOMAIN gs : gs[i].node # n
       PROVE  Look(u, n) \in GoodLooks
  <2>1. \A i \in DOMAIN fs : fs[i].node # n
    BY <1>6, <1>7, <1>12
  <2>2. n # h
    BY <1>1, <2>1, TopFrame
  <2> QED
    BY <1>4, <2>1, <2>2 DEF Readable, Closed
<1>13. Start(nd) \in GoodLooks => Closed(u, gs)
  <2>1. \A n \in DOMAIN u : n \in DOMAIN t \/ n = L + 1
    BY <1>4
  <2> QED
    BY <1>4, <1>12, <2>1 DEF Closed
<1> QED
  BY <1>2, <1>4, <1>5, <1>10, <1>11, <1>12, <1>13

LEMMA CallBegins ==
  ASSUME NEW t, NEW fs, Readable(t, fs), fs # <<>>, NEW nd \in Node, nd.kids = <<>>, PlainPar(nd),
         NEW s \in Seq(Items), Leads(s, Bigger(Look(t, fs[1].node), Face(nd)), GoodLooks),
         NEW c \in Seq(Items), Leads(c, Start(nd), GoodLooks)
  PROVE  Readable(GrownTree(t, fs[1].node, nd), <<[node |-> Len(t) + 1, todo |-> c]>> \o Onward(fs, s))
<1>1. PICK u : u = GrownTree(t, fs[1].node, nd)
  OBVIOUS
<1>2. PICK gs : gs = Onward(fs, s)
  OBVIOUS
<1>3. PICK L \in Nat : L = Len(t)
  BY DEF Readable, TreeOK
<1>4. /\ TreeOK(u) /\ CallsOK(u, gs) /\ DOMAIN u = 1 .. L + 1 /\ AtTheEnd(u, L + 1)
      /\ Look(u, L + 1) = Start(nd)
      /\ \A i \in DOMAIN gs : gs[i].node \in 1 .. L
      /\ \A n \in 1 .. L : (\A i \in DOMAIN gs : gs[i].node # n) => Look(u, n) \in GoodLooks
  BY <1>1, <1>2, <1>3, GrowsByLeaf
<1>5. PICK f \in CallFrame : f = [node |-> L + 1, todo |-> c] /\ f.node = L + 1 /\ f.todo = c
  <2>1. [node |-> L + 1, todo |-> c] \in CallFrame
    BY DEF CallFrame
  <2> QED
    BY <2>1
<1>6. PICK G \in Nat : G = Len(gs) /\ gs \in Seq(CallFrame) /\ DOMAIN gs = 1 .. G
  BY <1>4 DEF CallsOK
<1>7. PICK ks : ks = <<f>> \o gs
  OBVIOUS
<1>8. /\ ks \in Seq(CallFrame) /\ DOMAIN ks = 1 .. G + 1 /\ ks[1] = f
      /\ \A i \in 1 .. G : ks[i + 1] = gs[i]
  <2>1. PICK one \in Seq(CallFrame) : one = <<f>> /\ Len(one) = 1 /\ one[1] = f
    <3>1. <<f>> \in Seq(CallFrame) /\ Len(<<f>>) = 1 /\ <<f>>[1] = f
      OBVIOUS
    <3> QED
      BY <3>1
  <2>2. ks \in Seq(CallFrame) /\ Len(ks) = G + 1
    BY <1>6, <1>7, <2>1, ConcatProperties
  <2>3. \A i \in 1 .. G + 1 : ks[i] = IF i <= 1 THEN one[i] ELSE gs[i - 1]
    BY <1>6, <1>7, <2>1, ConcatProperties
  <2> QED
    BY <2>1, <2>2, <2>3
<1>9. \A i \in DOMAIN ks : i = 1 \/ (i - 1 \in 1 .. G /\ ks[i] = gs[i - 1])
  <2> SUFFICES ASSUME NEW i \in 1 .. G + 1, i # 1 PROVE i - 1 \in 1 .. G /\ ks[i] = gs[i - 1]
    BY <1>8
  <2>1. i - 1 \in 1 .. G /\ (i - 1) + 1 = i
    OBVIOUS
  <2> QED
    BY <1>8, <2>1
<1>10. ASSUME NEW i \in DOMAIN ks
       PROVE  /\ ks[i].node \in DOMAIN u /\ AtTheEnd(u, ks[i].node)
              /\ Leads(ks[i].todo, Look(u, ks[i].node), GoodLooks)
  <2>1. CASE i = 1
    BY <1>4, <1>5, <1>8, <2>1
  <2>2. CASE i # 1
    BY <1>4, <1>6, <1>9, <2>2 DEF CallsOK
  <2> QED
    BY <2>1, <2>2
<1>11. ASSUME NEW i \in DOMAIN ks, NEW j \in DOMAIN ks, i < j PROVE ks[i].node > ks[j].node
  <2>1. j # 1 /\ i \in 1 .. G + 1 /\ j \in 1 .. G + 1
    BY <1>8, <1>11
  <2>2. j - 1 \in 1 .. G /\ ks[j] = gs[j - 1] /\ gs[j - 1].node \in 1 .. L
    BY <1>4, <1>6, <1>9, <2>1
  <2>3. CASE i = 1
    BY <1>5, <1>8, <2>2, <2>3
  <2>4. CASE i # 1
    <3>1. i - 1 \in 1 .. G /\ ks[i] = gs[i - 1] /\ i - 1 < j - 1
      BY <1>9, <1>11, <2>1, <2>4
    <3> QED
      BY <1>4, <1>6, <2>2, <3>1 DEF CallsOK
  <2> QED
    BY <2>3, <2>4
<1>12. CallsOK(u, ks)
  BY <1>8, <1>10, <1>11 DEF CallsOK
<1>13. Closed(u, ks)
  <2> SUFFICES ASSUME NEW n \in DOMAIN u, \A i \in DOMAIN ks : ks[i].node # n
               PROVE  Look(u, n) \in GoodLooks
    BY DEF Closed
  <2>1. n # L + 1
    BY <1>5, <1>8
  <2>2. \A i \in 1 .. G : gs[i].node # n
    <3> SUFFICES ASSUME NEW i \in 1 .. G PROVE gs[i].node # n
      OBVIOUS
    <3>1. i + 1 \in DOMAIN ks /\ ks[i + 1] = gs[i]
      BY <1>8
    <3> QED
      BY <3>1
  <2>3. n \in 1 .. L
    BY <1>4, <2>1
  <2>4. \A i \in DOMAIN gs : gs[i].node # n
    BY <1>6, <2>2
  <2> QED
    BY <1>4, <2>3, <2>4
<1> QED
  BY <1>1, <1>2, <1>3, <1>4, <1>5, <1>7, <1>12, <1>13 DEF Readable

(* A call returns when there is nothing left to do in it. *)
LEMMA CallEnds ==
  ASSUME NEW t, NEW fs, Readable(t, fs), fs # <<>>, fs[1].todo = <<>>
  PROVE  Readable(t, Tail(fs))
<1>1. PICK h \in DOMAIN t : h = fs[1].node
  BY TopFrame
<1>2. PICK F \in Nat : F = Len(fs) /\ F >= 1 /\ DOMAIN fs = 1 .. F /\ fs \in Seq(CallFrame)
  BY TopFrame
<1>3. PICK gs : gs = Tail(fs)
  OBVIOUS
<1>4. /\ gs \in Seq(CallFrame) /\ DOMAIN gs = 1 .. F - 1
      /\ \A i \in 1 .. F - 1 : gs[i] = fs[i + 1] /\ i + 1 \in 1 .. F
  BY <1>2, <1>3
<1>5. Look(t, h) \in GoodLooks
  <2>1. Leads(<<>>, Look(t, h), GoodLooks) /\ Look(t, h) \in Looks
    BY <1>1, TopFrame
  <2> QED
    BY <2>1, LeadsNowhere DEF GoodLooks
<1>6. CallsOK(t, gs)
  <2>1. \A i \in DOMAIN gs : /\ gs[i].node \in DOMAIN t /\ AtTheEnd(t, gs[i].node)
                             /\ Leads(gs[i].todo, Look(t, gs[i].node), GoodLooks)
    BY <1>2, <1>4 DEF Readable, CallsOK
  <2>2. ASSUME NEW i \in DOMAIN gs, NEW j \in DOMAIN gs, i < j PROVE gs[i].node > gs[j].node
    <3>1. i + 1 \in 1 .. F /\ j + 1 \in 1 .. F /\ i + 1 < j + 1
      BY <1>4, <2>2
    <3> QED
      BY <1>2, <1>4, <3>1 DEF Readable, CallsOK
  <2> QED
    BY <1>4, <2>1, <2>2 DEF CallsOK
<1>7. Closed(t, gs)
  <2> SUFFICES ASSUME NEW n \in DOMAIN t, \A i \in DOMAIN gs : gs[i].node # n
               PROVE  Look(t, n) \in GoodLooks
    BY DEF Closed
  <2>1. CASE n = h
    BY <1>5, <2>1
  <2>2. CASE n # h
    <3>1. ASSUME NEW i \in DOMAIN fs PROVE fs[i].node # n
      <4>1. CASE i = 1
        BY <1>1, <2>2, <4>1
      <4>2. CASE i # 1
        <5>1. i - 1 \in 1 .. F - 1 /\ (i - 1) + 1 = i
          BY <1>2, <4>2
        <5> QED
          BY <1>4, <5>1
      <4> QED
        BY <4>1, <4>2
    <3> QED
      BY <3>1 DEF Readable, Closed
  <2> QED
    BY <2>1, <2>2
<1> QED
  BY <1>3, <1>6, <1>7 DEF Readable

(* An operator takes over its two operands, and the innermost call goes on. *)
LEMMA OperatorJoins ==
  ASSUME NEW t, NEW fs, Readable(t, fs), fs # <<>>, NEW s \in Seq(Items), NEW op \in BinaryOps,
         NEW l, NEW r, Latest(t, fs[1].node, l, r),
         Face(t[l]) \in ExprFaces, Face(t[r]) \in ExprFaces,
         Leads(s, Combined(Look(t, fs[1].node)), GoodLooks)
  PROVE  Readable(JoinedTree(t, fs[1].node, op, l, r), Onward(fs, s))
<1>1. PICK h \in DOMAIN t : h = fs[1].node /\ AtTheEnd(t, h)
  BY TopFrame
<1>2. PICK u : u = JoinedTree(t, h, op, l, r)
  OBVIOUS
<1>3. PICK gs : gs = Onward(fs, s)
  OBVIOUS
<1>4. TreeOK(t) /\ fs \in Seq(CallFrame) /\ Latest(t, h, l, r)
  BY <1>1 DEF Readable, CallsOK
<1>5. PICK L \in Nat : L = Len(t)
  BY <1>4 DEF TreeOK
<1>6. /\ TreeOK(u) /\ h \in 1 .. L /\ l \in 1 .. L /\ h < l
      /\ DOMAIN t = 1 .. L /\ DOMAIN u = 1 .. L + 1
      /\ \A n \in 1 .. L : n < l /\ n # h => Look(u, n) = Look(t, n)
      /\ \A n \in 1 .. L : n >= l => Look(u, n + 1) = Look(t, n)
      /\ Look(u, l).kind = "binop" /\ Look(u, l).op = op /\ Len(Look(u, l).kids) = 2
      /\ Look(u, l).kids[1] = Face(t[l]) /\ Look(u, l).kids[2] = Face(t[r])
      /\ Look(u, h) = Combined(Look(t, h))
  BY <1>2, <1>4, <1>5, JoinedLooks
<1>7. \A k \in 1 .. h : AtTheEnd(t, k) => AtTheEnd(u, k)
  BY <1>2, <1>4, JoinFacts, JoinedIsTree
<1>8. /\ gs \in Seq(CallFrame) /\ DOMAIN gs = DOMAIN fs
      /\ gs[1].node = fs[1].node /\ gs[1].todo = s
      /\ \A i \in DOMAIN fs : i # 1 => gs[i] = fs[i]
  BY <1>3, <1>4, OnwardFacts
<1>9. \A i \in DOMAIN fs : gs[i].node = fs[i].node
  BY <1>8
<1>10. \A i \in DOMAIN fs : i # 1 => fs[i].node \in 1 .. L /\ h > fs[i].node
  BY <1>1, <1>6, TopFrame
<1>11. ASSUME NEW i \in DOMAIN gs
       PROVE  /\ gs[i].node \in DOMAIN u /\ AtTheEnd(u, gs[i].node)
              /\ Leads(gs[i].todo, Look(u, gs[i].node), GoodLooks)
  <2>1. CASE i = 1
    <3>1. h \in 1 .. h /\ h \in 1 .. L + 1
      BY <1>6
    <3> QED
      BY <1>1, <1>6, <1>7, <1>8, <2>1, <3>1
  <2>2. CASE i # 1
    <3>1. /\ fs[i].node # h /\ fs[i].node \in 1 .. h /\ fs[i].node \in 1 .. L
          /\ fs[i].node < l /\ fs[i].node \in 1 .. L + 1
      BY <1>6, <1>8, <1>10, <2>2
    <3>2. /\ AtTheEnd(t, fs[i].node) /\ Leads(fs[i].todo, Look(t, fs[i].node), GoodLooks)
      BY <1>8 DEF Readable, CallsOK
    <3> QED
      BY <1>6, <1>7, <1>8, <2>2, <3>1, <3>2
  <2> QED
    BY <2>1, <2>2
<1>12. CallsOK(u, gs)
  BY <1>8, <1>9, <1>11 DEF CallsOK, Readable
<1>13. \A i \in DOMAIN fs : fs[i].node \in 1 .. L /\ fs[i].node < l
  BY <1>1, <1>6, <1>10
<1>14. Closed(u, gs)
  <2> SUFFICES ASSUME NEW n \in 1 .. L + 1, \A i \in DOMAIN gs : gs[i].node # n
               PROVE  Look(u, n) \in GoodLooks
    BY <1>6 DEF Closed
  <2>1. \A i \in DOMAIN fs : fs[i].node # n
    BY <1>8, <1>9
  <2>2. n # h
    BY <1>1, <2>1, TopFrame
  <2>3. CASE n < l
    <3>1. n \in 1 .. L
      BY <1>6, <2>3
    <3> QED
      BY <1>6, <2>1, <2>2, <2>3, <3>1 DEF Readable, Closed
  <2>4. CASE n = l
    <3>1. PICK k \in Looks : k = Look(u, l)
      BY <1>6, <2>4, LookFacts
    <3>2. /\ Len(k.kids) = 2 /\ DOMAIN k.kids = 1 .. 2
          /\ k.kids[1].kind \in ExprKinds /\ k.kids[2].kind \in ExprKinds
      BY <1>6, <3>1 DEF Looks, ExprFaces
    <3>3. AllKids(k, 1, ExprKinds)
      <4>1. \A i \in 1 .. 2 : i = 1 \/ i = 2
        OBVIOUS
      <4> QED
        BY <3>2, <4>1 DEF AllKids
    <3> QED
      BY <1>6, <2>4, <3>1, <3>2, <3>3 DEF GoodLooks, Good
  <2>5. CASE n > l
    <3>1. PICK m \in 1 .. L : m = n - 1 /\ m >= l /\ m + 1 = n
      <4>1. n - 1 \in 1 .. L /\ n - 1 >= l /\ (n - 1) + 1 = n
        BY <1>6, <2>5
      <4> QED
        BY <4>1
    <3>2. \A i \in DOMAIN fs : fs[i].node # m
      BY <1>6, <1>13, <3>1
    <3>3. Look(t, m) \in GoodLooks
      BY <1>6, <3>2 DEF Readable, Closed
    <3> QED
      BY <1>6, <3>1, <3>3
  <2> QED
    BY <1>6, <2>3, <2>4, <2>5
<1> QED
  BY <1>1, <1>2, <1>3, <1>6, <1>12, <1>14 DEF Readable

-----------------------------------------------------------------------------
(* The inductive invariant: the tree is one that is being read, and what   *)
(* is left to do in each call leads to a complete node.                    *)

IInv ==
  /\ source \in Seq(Token) /\ pos \in 0 .. Len(source)
  /\ phase \in {"reading", "parsed", "refused"}
  /\ Readable(ast, frames)
  /\ phase = "parsed" => frames = <<>>

LEMMA Keeps ==
  ASSUME IInv, source' = source, pos' \in 0 .. Len(source), phase' = phase,
         phase = "reading", Readable(ast', frames')
  PROVE  IInv'
BY DEF IInv

(* x is the next item of the innermost call, that of node h, which looks   *)
(* like l; the items g come after it.                                      *)
Reading(x, g, h, l) ==
  /\ phase = "reading"
  /\ x \in Items /\ g \in Seq(Items) /\ l \in Looks
  /\ frames # <<>> /\ Readable(ast, frames)
  /\ h = frames[1].node /\ frames[1].todo # <<>>
  /\ x = frames[1].todo[1] /\ g = Tail(frames[1].todo) /\ l = Look(ast, h)
  /\ h \in DOMAIN ast /\ ast[h] \in Node /\ PlainPar(ast[h]) /\ AtTheEnd(ast, h)
  /\ Can(x, l) /\ \A m \in Effect(x, l) : Leads(g, m, GoodLooks)

LEMMA NextItem ==
  ASSUME IInv, NEW op, At(op)
  PROVE  \E x \in Items, g \in Seq(Items), h \in DOMAIN ast, l \in Looks :
           Reading(x, g, h, l) /\ x.op = op
<1>1. phase = "reading" /\ Readable(ast, frames) /\ frames # <<>>
      /\ frames[1].todo # <<>> /\ frames[1].todo[1].op = op
  BY DEF IInv, At, Todo
<1>2. /\ frames[1].node \in DOMAIN ast /\ AtTheEnd(ast, frames[1].node)
      /\ frames[1].todo \in Seq(Items) /\ Look(ast, frames[1].node) \in Looks
      /\ Leads(frames[1].todo, Look(ast, frames[1].node), GoodLooks)
  BY <1>1, TopFrame
<1>3. PICK x \in Items : x = frames[1].todo[1]
  BY <1>1, <1>2
<1>4. PICK g \in Seq(Items) : g = Tail(frames[1].todo)
  <2>1. Tail(frames[1].todo) \in Seq(Items)
    BY <1>1, <1>2
  <2> QED
    BY <2>1
<1>5. PICK h \in DOMAIN ast : h = frames[1].node
  BY <1>2
<1>6. PICK l \in Looks : l = Look(ast, h)
  BY <1>2, <1>5
<1>7. Can(x, l) /\ \A m \in Effect(x, l) : Leads(g, m, GoodLooks)
  BY <1>1, <1>2, <1>3, <1>4, <1>5, <1>6, LeadsFirst
<1>8. ast[h] \in Node /\ PlainPar(ast[h])
  BY <1>1, <1>5 DEF Readable, TreeOK
<1>9. Reading(x, g, h, l) /\ x.op = op
  BY <1>1, <1>2, <1>3, <1>4, <1>5, <1>6, <1>7, <1>8 DEF Reading
<1> QED
  BY <1>9

LEMMA AfterIs ==
  ASSUME NEW x, NEW g, NEW h, NEW l, Reading(x, g, h, l), NEW items \in Seq(Items)
  PROVE  After(items) = Onward(frames, items \o g) /\ items \o g \in Seq(Items)
<1>1. items \o g \in Seq(Items)
  BY ConcatProperties DEF Reading
<1> QED
  BY <1>1 DEF Reading, After, Onward

LEMMA AfterNothing ==
  ASSUME NEW x, NEW g, NEW h, NEW l, Reading(x, g, h, l)
  PROVE  After(<<>>) = Onward(frames, g)
<1>1. <<>> \in Seq(Items) /\ <<>> \o g = g
  BY DEF Reading
<1> QED
  BY <1>1, AfterIs

(* A step of the call that leaves the tree *)
LEMMA StepAlone ==
  ASSUME NEW x, NEW g, NEW h, NEW l, Reading(x, g, h, l), NEW items \in Seq(Items),
         Leads(items \o g, l, GoodLooks), frames' = After(items), ast' = ast
  PROVE  Readable(ast', frames')
<1>1. frames' = Onward(frames, items \o g) /\ items \o g \in Seq(Items)
  BY AfterIs
<1>2. Readable(ast, Onward(frames, items \o g))
  BY <1>1, GoesOnAlone DEF Reading
<1> QED
  BY <1>1, <1>2

LEMMA StepDone ==
  ASSUME NEW x, NEW g, NEW h, NEW l, Reading(x, g, h, l), l \in Effect(x, l),
         frames' = After(<<>>), ast' = ast
  PROVE  Readable(ast', frames')
<1>1. <<>> \in Seq(Items) /\ <<>> \o g = g /\ Leads(g, l, GoodLooks)
  BY DEF Reading
<1> QED
  BY <1>1, StepAlone

(* A step that writes a field of its node *)
LEMMA StepWrites ==
  ASSUME NEW x, NEW g, NEW h, NEW l, Reading(x, g, h, l), NEW items \in Seq(Items),
         NEW nd \in Node, nd.kids = ast[h].kids, nd.kind = ast[h].kind,
         Face(nd) = Face(ast[h]), PlainPar(nd),
         Leads(items \o g, LookOf(nd, l.kids), GoodLooks),
         frames' = After(items), Writes(nd)
  PROVE  Readable(ast', frames')
<1>1. frames' = Onward(frames, items \o g) /\ items \o g \in Seq(Items)
  BY AfterIs
<1>2. h = frames[1].node /\ l = Look(ast, h) /\ Readable(ast, frames) /\ frames # <<>>
  BY DEF Reading
<1>3. ast' = Written(ast, frames[1].node, nd)
  BY DEF Writes, Written, Here
<1>4. Readable(Written(ast, frames[1].node, nd), Onward(frames, items \o g))
  BY <1>1, <1>2, GoesOnInPlace
<1> QED
  BY <1>1, <1>3, <1>4

(* A call begins. *)
LEMMA StepBegins ==
  ASSUME NEW x, NEW g, NEW h, NEW l, Reading(x, g, h, l), NEW items \in Seq(Items),
         NEW nd \in Node, nd.kids = <<>>, PlainPar(nd),
         Leads(items \o g, Bigger(l, Face(nd)), GoodLooks),
         NEW todo \in Seq(Items), Leads(todo, Start(nd), GoodLooks),
         Begins(nd, todo, items)
  PROVE  Readable(ast', frames')
<1>1. After(items) = Onward(frames, items \o g) /\ items \o g \in Seq(Items)
  BY AfterIs
<1>2. h = frames[1].node /\ l = Look(ast, h) /\ Readable(ast, frames) /\ frames # <<>>
  BY DEF Reading
<1>3. ast' = GrownTree(ast, frames[1].node, nd)
  BY DEF Begins, Grown, GrownTree, Here
<1>4. frames' = <<[node |-> Len(ast) + 1, todo |-> todo]>> \o Onward(frames, items \o g)
  BY <1>1 DEF Begins
<1>5. Readable(GrownTree(ast, frames[1].node, nd),
               <<[node |-> Len(ast) + 1, todo |-> todo]>> \o Onward(frames, items \o g))
  BY <1>1, <1>2, CallBegins
<1> QED
  BY <1>3, <1>4, <1>5

LEMMA StepBeginsPart ==
  ASSUME NEW x, NEW g, NEW h, NEW l, Reading(x, g, h, l), x.op \in Single,
         NEW nd \in Node, nd.kids = <<>>, PlainPar(nd), Face(nd) \in PartOf(x),
         NEW todo \in Seq(Items), Leads(todo, Start(nd), GoodLooks),
         Begins(nd, todo, <<>>)
  PROVE  Readable(ast', frames')
<1>1. <<>> \in Seq(Items) /\ <<>> \o g = g
  BY DEF Reading
<1>2. Leads(g, Bigger(l, Face(nd)), GoodLooks)
  BY EffectOfSingle DEF Reading
<1> QED
  BY <1>1, <1>2, StepBegins

(* A leaf is put under the node. *)
LEMMA StepLeaf ==
  ASSUME NEW x, NEW g, NEW h, NEW l, Reading(x, g, h, l), x.op \in Single,
         NEW nd \in Node, nd.kids = <<>>, PlainPar(nd), Face(nd) \in PartOf(x),
         Start(nd) \in GoodLooks, ast' = Grown(nd), frames' = After(<<>>)
  PROVE  Readable(ast', frames')
<1>1. frames' = Onward(frames, g) /\ g \in Seq(Items)
  BY AfterNothing DEF Reading
<1>2. h = frames[1].node /\ l = Look(ast, h) /\ Readable(ast, frames) /\ frames # <<>>
  BY DEF Reading
<1>3. Leads(g, Bigger(l, Face(nd)), GoodLooks)
  BY EffectOfSingle DEF Reading
<1>4. ast' = GrownTree(ast, frames[1].node, nd)
  BY DEF Grown, GrownTree, Here
<1>5. /\ TreeOK(ast') /\ CallsOK(ast', frames')
      /\ Start(nd) \in GoodLooks => Closed(ast', frames')
  BY <1>1, <1>2, <1>3, <1>4, GrowsByLeaf
<1> QED
  BY <1>5 DEF Readable

-----------------------------------------------------------------------------
(* Tokens *)

LEMMA TokenFacts ==
  \A t \in Token : /\ t.kind \in Words \cup Marks \cup Content \cup {"illegal"}
                   /\ t.kind = "name" => t.name \in Names
                   /\ t.kind = "number" => t.num \in Int
<1>1. "name" \notin Words \cup Marks \cup {"text", "illegal"}
  BY DEF Words, TypeWords, Marks, UpdateOps, RuleOf
<1>2. "number" \notin Words \cup Marks \cup {"text", "illegal"}
  BY DEF Words, TypeWords, Marks, UpdateOps, RuleOf
<1> QED
  BY <1>1, <1>2 DEF Token, Content

LEMMA SeesToken ==
  ASSUME IInv, NEW kinds, "eof" \notin kinds, Sees(kinds)
  PROVE  pos + 1 \in 0 .. Len(source) /\ Peek(0) \in Token /\ Peek(0).kind \in kinds
<1>1. pos + 0 < Len(source)
  BY DEF Sees, Peek, EndToken
<1>2. source \in Seq(Token) /\ pos \in 0 .. Len(source) /\ Len(source) \in Nat
  BY DEF IInv
<1>3. pos + 1 \in 1 .. Len(source) /\ pos + 0 + 1 = pos + 1
  BY <1>1, <1>2
<1>4. Peek(0) = source[pos + 1]
  BY <1>1, <1>3 DEF Peek
<1> QED
  BY <1>2, <1>3, <1>4 DEF Sees

LEMMA SeesTwo ==
  ASSUME IInv, Peek(1).kind # "eof"
  PROVE  pos + 2 \in 0 .. Len(source)
<1>1. pos + 1 < Len(source)
  BY DEF Peek, EndToken
<1>2. pos \in 0 .. Len(source) /\ Len(source) \in Nat
  BY DEF IInv
<1> QED
  BY <1>1, <1>2

LEMMA NeverEnds ==
  /\ "eof" \notin Whats
  /\ \A k \in 1 .. 4 : "eof" \notin Levels[k] /\ Levels[k] \subseteq DOMAIN RuleOf
  /\ \A o \in DOMAIN RuleOf : RuleOf[o] \in BinaryOps
<1>1. "eof" \notin Whats
  BY DEF Whats, Words, TypeWords, Marks, UpdateOps, RuleOf, Content, Types, BinaryOps
<1>2. ASSUME NEW k \in 1 .. 4 PROVE "eof" \notin Levels[k] /\ Levels[k] \subseteq DOMAIN RuleOf
  <2>1. k = 1 \/ k = 2 \/ k = 3 \/ k = 4
    OBVIOUS
  <2>2. Levels[1] = {"||"} /\ Levels[2] = {"==", "<"} /\ Levels[3] = {"+"} /\ Levels[4] = {"*"}
    BY DEF Levels
  <2> QED
    BY <2>1, <2>2 DEF RuleOf
<1>3. \A o \in DOMAIN RuleOf : RuleOf[o] \in BinaryOps
  BY DEF RuleOf, BinaryOps
<1> QED
  BY <1>1, <1>2, <1>3

(* The fields of a node that are read from tokens *)
LEMMA FieldFacts ==
  ASSUME NEW nd \in Node
  PROVE  /\ \A v \in Names : /\ [nd EXCEPT !.name = v] \in Node
                             /\ [nd EXCEPT !.name = v].kids = nd.kids
                             /\ [nd EXCEPT !.name = v].kind = nd.kind
                             /\ [nd EXCEPT !.name = v].par = nd.par
         /\ \A v \in Int : /\ [nd EXCEPT !.num = v] \in Node
                           /\ [nd EXCEPT !.num = v].kids = nd.kids
                           /\ [nd EXCEPT !.num = v].kind = nd.kind
                           /\ [nd EXCEPT !.num = v].par = nd.par
         /\ \A v \in Types \cup {"void"} : /\ [nd EXCEPT !.type = v] \in Node
                                           /\ [nd EXCEPT !.type = v].kids = nd.kids
                                           /\ [nd EXCEPT !.type = v].kind = nd.kind
                                           /\ [nd EXCEPT !.type = v].par = nd.par
         /\ \A v \in UpdateOps : /\ [nd EXCEPT !.op = v] \in Node
                                 /\ [nd EXCEPT !.op = v].kids = nd.kids
                                 /\ [nd EXCEPT !.op = v].kind = nd.kind
                                 /\ [nd EXCEPT !.op = v].par = nd.par
         /\ \A v \in ParallelTypes : /\ [nd EXCEPT !.par = v] \in Node
                                     /\ [nd EXCEPT !.par = v].kids = nd.kids
                                     /\ [nd EXCEPT !.par = v].kind = nd.kind
                                     /\ [nd EXCEPT !.par = v].par = v
BY DEF Node

LEMMA SameFace ==
  ASSUME NEW nd, NEW md, nd.kind = md.kind, nd.par = md.par
  PROVE  Face(nd) = Face(md) /\ (PlainPar(md) => PlainPar(nd))
BY DEF Face, PlainPar

(* How the node looks when a field of it has been written *)
LEMMA FieldLooks ==
  ASSUME NEW x, NEW g, NEW h, NEW l, Reading(x, g, h, l)
  PROVE  /\ \A v : LookOf([ast[h] EXCEPT !.name = v], l.kids) = [l EXCEPT !.name = v]
         /\ \A v : LookOf([ast[h] EXCEPT !.type = v], l.kids) = [l EXCEPT !.type = v]
         /\ \A v : LookOf([ast[h] EXCEPT !.op = v], l.kids) = [l EXCEPT !.op = v]
         /\ \A v : LookOf([ast[h] EXCEPT !.par = v], l.kids) = [l EXCEPT !.par = v]
         /\ \A v : LookOf([ast[h] EXCEPT !.num = v], l.kids) = l
         /\ \A v : LookOf([ast[h] EXCEPT !.params = v], l.kids) = l
<1>1. PICK nd \in Node : nd = ast[h]
  BY DEF Reading
<1>2. l \in Looks /\ l = LookOf(nd, l.kids)
  BY <1>1 DEF Reading, Look, LookOf
<1>3. /\ l.kind = nd.kind /\ l.name = nd.name /\ l.type = nd.type /\ l.par = nd.par /\ l.op = nd.op
  BY <1>2 DEF LookOf
<1>4. \A v : LookOf([nd EXCEPT !.name = v], l.kids) = [l EXCEPT !.name = v]
  BY <1>2, <1>3, SMTT(30) DEF Node, Looks, LookOf
<1>5. \A v : LookOf([nd EXCEPT !.type = v], l.kids) = [l EXCEPT !.type = v]
  BY <1>2, <1>3, SMTT(30) DEF Node, Looks, LookOf
<1>6. \A v : LookOf([nd EXCEPT !.op = v], l.kids) = [l EXCEPT !.op = v]
  BY <1>2, <1>3, SMTT(30) DEF Node, Looks, LookOf
<1>7. \A v : LookOf([nd EXCEPT !.par = v], l.kids) = [l EXCEPT !.par = v]
  BY <1>2, <1>3, SMTT(30) DEF Node, Looks, LookOf
<1>8. \A v : LookOf([nd EXCEPT !.num = v], l.kids) = l
  BY <1>2, <1>3, SMTT(30) DEF Node, Looks, LookOf
<1>9. \A v : LookOf([nd EXCEPT !.params = v], l.kids) = l
  BY <1>2, <1>3, SMTT(30) DEF Node, Looks, LookOf
<1> QED
  BY <1>1, <1>4, <1>5, <1>6, <1>7, <1>8, <1>9

-----------------------------------------------------------------------------
(* Each action keeps the invariant. *)

LEMMA FailKeeps ==
  ASSUME IInv, phase = "reading", Fail
  PROVE  IInv'
BY DEF IInv, Fail

(* The actions that leave the text where it is, and those that consume *)
LEMMA Stays ==
  ASSUME IInv, phase = "reading", UNCHANGED <<source, pos, phase>>, Readable(ast', frames')
  PROVE  IInv'
BY DEF IInv

LEMMA Reads ==
  ASSUME IInv, phase = "reading", Advance(1), NEW kinds, "eof" \notin kinds, Sees(kinds),
         Readable(ast', frames')
  PROVE  IInv'
<1>1. pos + 1 \in 0 .. Len(source)
  BY SeesToken
<1> QED
  BY <1>1, Keeps DEF Advance

LEMMA ConsumeKeeps ==
  ASSUME IInv, Consume
  PROVE  IInv'
<1>1. PICK x \in Items, g \in Seq(Items), h \in DOMAIN ast, l \in Looks :
        Reading(x, g, h, l) /\ x.op = "eat"
  BY NextItem DEF Consume
<1>2. x = Todo[1] /\ Here = h /\ phase = "reading" /\ l = Look(ast, h)
  BY <1>1 DEF Reading, Todo, Here
<1>3. Sees({x.what}) /\ x.what \in Whats /\ "eof" \notin {x.what}
  BY <1>2, NeverEnds DEF Consume, Items
<1>4. Peek(0) \in Token /\ Peek(0).kind = x.what
  BY <1>3, SeesToken
<1>5. frames' = After(<<>>) /\ Advance(1)
  BY DEF Consume
<1>6. ast[h] \in Node /\ PlainPar(ast[h])
  BY <1>1 DEF Reading
<1>7. <<>> \in Seq(Items) /\ <<>> \o g = g
  OBVIOUS
<1>8. Readable(ast', frames')
  <2>1. CASE x.what = "name"
    <3>1. PICK v \in Names : v = Peek(0).name
      BY <1>4, <2>1, TokenFacts
    <3>2. Writes([ast[h] EXCEPT !.name = v])
      BY <1>2, <1>4, <2>1, <3>1 DEF Consume, Sees
    <3>3. PICK nd \in Node : /\ nd = [ast[h] EXCEPT !.name = v] /\ nd.kids = ast[h].kids
                             /\ nd.kind = ast[h].kind /\ nd.par = ast[h].par
      BY <1>6, FieldFacts
    <3>4. [l EXCEPT !.name = v] \in Effect(x, l)
      BY <1>1, <2>1 DEF Effect, Idle, Single
    <3>5. Leads(<<>> \o g, LookOf(nd, l.kids), GoodLooks)
      <4>1. LookOf(nd, l.kids) = [l EXCEPT !.name = v]
        <5>1. \A w : LookOf([ast[h] EXCEPT !.name = w], l.kids) = [l EXCEPT !.name = w]
          BY <1>1, FieldLooks
        <5> QED
          BY <3>3, <5>1
      <4>2. Leads(g, [l EXCEPT !.name = v], GoodLooks)
        BY <1>1, <3>4 DEF Reading
      <4> QED
        BY <1>7, <4>1, <4>2
    <3>6. Face(nd) = Face(ast[h]) /\ PlainPar(nd)
      BY <1>6, <3>3, SameFace
    <3> QED
      BY <1>1, <1>5, <1>7, <3>2, <3>3, <3>5, <3>6, StepWrites
  <2>2. CASE x.what = "number"
    <3>1. PICK v \in Int : v = Peek(0).num
      BY <1>4, <2>2, TokenFacts
    <3>2. Writes([ast[h] EXCEPT !.num = v])
      BY <1>2, <1>4, <2>2, <3>1 DEF Consume, Sees
    <3>3. PICK nd \in Node : /\ nd = [ast[h] EXCEPT !.num = v] /\ nd.kids = ast[h].kids
                             /\ nd.kind = ast[h].kind /\ nd.par = ast[h].par
      BY <1>6, FieldFacts
    <3>4. l \in Effect(x, l)
      BY <1>1, <2>2, EffectOfIdle DEF Idle
    <3>5. Leads(<<>> \o g, LookOf(nd, l.kids), GoodLooks)
      <4>1. LookOf(nd, l.kids) = l
        BY <1>1, <3>3, FieldLooks
      <4>2. Leads(g, l, GoodLooks)
        BY <1>1, <3>4 DEF Reading
      <4> QED
        BY <1>7, <4>1, <4>2
    <3>6. Face(nd) = Face(ast[h]) /\ PlainPar(nd)
      BY <1>6, <3>3, SameFace
    <3> QED
      BY <1>1, <1>5, <1>7, <3>2, <3>3, <3>5, <3>6, StepWrites
  <2>3. CASE x.what \notin {"name", "number"}
    <3>1. ast' = ast
      BY <1>4, <2>3 DEF Consume, Sees
    <3>2. l \in Effect(x, l)
      BY <1>1, <2>3, EffectOfIdle DEF Idle
    <3> QED
      BY <1>1, <1>5, <3>1, <3>2, StepDone
  <2> QED
    BY <2>1, <2>2, <2>3
<1> QED
  BY <1>2, <1>3, <1>5, <1>8, Reads

LEMMA ListGoesOnKeeps ==
  ASSUME IInv, ListGoesOn
  PROVE  IInv'
<1>1. PICK x \in Items, g \in Seq(Items), h \in DOMAIN ast, l \in Looks :
        Reading(x, g, h, l) /\ x.op = "list"
  BY NextItem DEF ListGoesOn
<1>2. x = Todo[1] /\ phase = "reading" /\ Can(x, l) /\ \A m \in Effect(x, l) : Leads(g, m, GoodLooks)
  BY <1>1 DEF Reading, Todo
<1>3. PICK w \in {"program", "statements", "arguments", "names", "params"} : w = x.what
  BY <1>1, <1>2 DEF Can, Idle, Single
<1>4. List(w) \in Items /\ List(w).op = "list" /\ List(w).what = w
  <2>1. w \in Whats
    BY Spoken
  <2> QED
    BY <2>1, ItemFacts
<1>5. Can(List(w), l) /\ Effect(List(w), l) = Effect(x, l)
  <2>1. CASE w = "params"
    <3>1. Idle(x) /\ Idle(List(w)) /\ List(w).op # "param"
      BY <1>1, <1>3, <1>4, <2>1 DEF Idle
    <3> QED
      BY <3>1, EffectOfIdle DEF Can
  <2>2. CASE w # "params"
    <3>1. ~Idle(x) /\ ~Idle(List(w))
      BY <1>1, <1>3, <1>4, <2>2 DEF Idle
    <3>2. Can(List(w), l)
      BY <1>3, <1>4, <2>2 DEF Can
    <3>3. Effect(x, l) = {[l EXCEPT !.kids = @ \o fs] : fs \in Seq(PartsOf(x.what))}
      BY <1>1, <3>1 DEF Effect, Single
    <3>4. Effect(List(w), l) = {[l EXCEPT !.kids = @ \o fs] : fs \in Seq(PartsOf(w))}
      BY <1>4, <3>1 DEF Effect, Single
    <3> QED
      BY <1>3, <3>2, <3>3, <3>4
  <2> QED
    BY <2>1, <2>2
<1>6. Leads(<<List(w)>> \o g, l, GoodLooks)
  BY <1>2, <1>4, <1>5, LeadsByOne
<1>7. /\ Element(w) \o <<List(w)>> \in Seq(Items)
      /\ Leads((Element(w) \o <<List(w)>>) \o g, l, GoodLooks)
  BY <1>6, GoesOn
<1>8. /\ frames' = After(Element(w) \o <<List(w)>>) /\ ast' = ast
      /\ UNCHANGED <<source, pos, phase>>
  BY <1>2, <1>3 DEF ListGoesOn, Does
<1>9. Readable(ast', frames')
  BY <1>1, <1>7, <1>8, StepAlone
<1> QED
  BY <1>2, <1>8, <1>9, Stays

LEMMA ListEndsKeeps ==
  ASSUME IInv, ListEnds
  PROVE  IInv'
<1>1. PICK x \in Items, g \in Seq(Items), h \in DOMAIN ast, l \in Looks :
        Reading(x, g, h, l) /\ x.op = "list"
  BY NextItem DEF ListEnds
<1>2. x = Todo[1] /\ phase = "reading" /\ Can(x, l)
  BY <1>1 DEF Reading, Todo
<1>3. l \in Effect(x, l)
  <2>1. CASE Idle(x)
    BY <2>1, EffectOfIdle
  <2>2. CASE ~Idle(x)
    <3>1. PICK w \in {"program", "statements", "arguments", "names"} : w = x.what
      BY <1>1, <1>2, <2>2 DEF Can, Idle, Single
    <3>2. Effect(x, l) = EffectOfList(l, w)
      BY <1>1, <2>2, <3>1 DEF Effect, Single, EffectOfList
    <3> QED
      BY <3>1, <3>2, ListCanEnd
  <2> QED
    BY <2>1, <2>2
<1>4. frames' = After(<<>>) /\ ast' = ast /\ UNCHANGED <<source, pos, phase>>
  BY DEF ListEnds, Does
<1>5. Readable(ast', frames')
  BY <1>1, <1>3, <1>4, StepDone
<1> QED
  BY <1>2, <1>4, <1>5, Stays

LEMMA CommaKeeps ==
  ASSUME IInv, Comma
  PROVE  IInv'
<1>1. PICK x \in Items, g \in Seq(Items), h \in DOMAIN ast, l \in Looks :
        Reading(x, g, h, l) /\ x.op = "comma"
  BY NextItem DEF Comma
<1>2. phase = "reading" /\ l \in Effect(x, l)
  BY <1>1, EffectOfIdle DEF Reading, Idle
<1>3. frames' = After(<<>>) /\ ast' = ast
  BY DEF Comma
<1>4. Readable(ast', frames')
  BY <1>1, <1>2, <1>3, StepDone
<1>5. CASE Sees({","})
  <2>1. Advance(1) /\ "eof" \notin {","}
    BY <1>5 DEF Comma
  <2> QED
    BY <1>2, <1>4, <1>5, <2>1, Reads
<1>6. CASE ~Sees({","})
  <2>1. Advance(0)
    BY <1>6 DEF Comma
  <2>2. UNCHANGED <<source, pos, phase>>
    BY <2>1 DEF Advance, IInv
  <2> QED
    BY <1>2, <1>4, <2>2, Stays
<1> QED
  BY <1>5, <1>6

(* A statement: its node has a kind of its own, with the items of its call. *)
LEMMA AllocatesKeeps ==
  ASSUME IInv, NEW x, NEW g, NEW h, NEW l, Reading(x, g, h, l), x.op \in Single,
         NEW nd \in Node, nd.kids = <<>>, PlainPar(nd), Face(nd) \in PartOf(x),
         NEW todo \in Seq(Items), Leads(todo, Start(nd), GoodLooks),
         Allocates(nd, todo, <<>>)
  PROVE  IInv'
<1>1. Begins(nd, todo, <<>>) /\ UNCHANGED <<source, pos, phase>>
  BY DEF Allocates
<1>2. Readable(ast', frames')
  BY <1>1, StepBeginsPart
<1>3. phase = "reading"
  BY DEF Reading
<1> QED
  BY <1>1, <1>2, <1>3, Stays

LEMMA BlankStart ==
  ASSUME NEW kind \in Kinds
  PROVE  /\ Blank(kind) \in Node /\ Blank(kind).kids = <<>> /\ PlainPar(Blank(kind))
         /\ Face(Blank(kind)) = FaceOf(kind)
         /\ Start(Blank(kind)) \in Looks /\ Start(Blank(kind)).kids = <<>>
         /\ Start(Blank(kind)).kind = kind
BY BlankFacts, StartFacts DEF PlainPar, Face, FaceOf

LEMMA StatementParts ==
  \A x : x.op = "statement" =>
    /\ x.op \in Single /\ PartOf(x) = StmtFaces
    /\ \A k \in StmtKinds \ {"call"} : FaceOf(k) \in PartOf(x)
BY FaceFacts DEF Single, PartOf

LEMMA PrintKeeps ==
  ASSUME IInv, PrintStatement
  PROVE  IInv'
<1>1. PICK x \in Items, g \in Seq(Items), h \in DOMAIN ast, l \in Looks :
        Reading(x, g, h, l) /\ x.op = "statement"
  BY NextItem DEF PrintStatement, Statement
<1>2. "print" \in Kinds /\ "print" \in StmtKinds \ {"call"}
  BY DEF Kinds, StmtKinds
<1>3. PICK c : c = <<Eat("print"), Eat("(")>> \o Expression \o <<Eat(")"), Eat(";")>>
  OBVIOUS
<1>4. c \in Seq(Items) /\ Leads(c, Start(Blank("print")), GoodLooks)
  BY <1>2, <1>3, BlankStart, PrintLeads
<1>5. Allocates(Blank("print"), c, <<>>)
  BY <1>3 DEF PrintStatement
<1> QED
  BY <1>1, <1>2, <1>4, <1>5, BlankStart, StatementParts, AllocatesKeeps

LEMMA IfKeeps ==
  ASSUME IInv, IfStatement
  PROVE  IInv'
<1>1. \E x \in Items, g \in Seq(Items), h \in DOMAIN ast, l \in Looks :
        Reading(x, g, h, l) /\ x.op \in {"statement", "if"}
  <2>1. At("statement") \/ At("if")
    BY DEF IfStatement, Statement
  <2> QED
    BY <2>1, NextItem
<1>2. PICK x \in Items, g \in Seq(Items), h \in DOMAIN ast, l \in Looks :
        Reading(x, g, h, l) /\ x.op \in {"statement", "if"}
  BY <1>1
<1>3. "if" \in Kinds /\ "if" \in StmtKinds \ {"call"}
  BY DEF Kinds, StmtKinds
<1>4. PICK c : c = <<Eat("if"), Eat("(")>> \o Expression \o <<Eat(")"), Enter("block"), Enter("else")>>
  OBVIOUS
<1>5. c \in Seq(Items) /\ Leads(c, Start(Blank("if")), GoodLooks)
  BY <1>3, <1>4, BlankStart, IfLeads
<1>6. Allocates(Blank("if"), c, <<>>)
  BY <1>4 DEF IfStatement
<1>7. x.op \in Single /\ FaceOf("if") \in PartOf(x)
  <2>1. CASE x.op = "statement"
    BY <1>3, <2>1, StatementParts
  <2>2. CASE x.op = "if"
    BY <2>2 DEF Single, PartOf
  <2> QED
    BY <1>2, <2>1, <2>2
<1> QED
  BY <1>2, <1>3, <1>5, <1>6, <1>7, BlankStart, AllocatesKeeps

LEMMA ElseKeeps ==
  ASSUME IInv, ElseIf \/ ElseBlock \/ NoElse
  PROVE  IInv'
<1>1. PICK x \in Items, g \in Seq(Items), h \in DOMAIN ast, l \in Looks :
        Reading(x, g, h, l) /\ x.op = "else"
  BY NextItem DEF ElseIf, ElseBlock, NoElse
<1>2. phase = "reading" /\ \A m \in Effect(x, l) : Leads(g, m, GoodLooks)
  BY <1>1 DEF Reading
<1>3. ASSUME NEW k \in {"block", "if"}, Does(<<Eat("else"), Enter(k)>>)
      PROVE  Readable(ast', frames') /\ UNCHANGED <<source, pos, phase>>
  <2>1. PICK c : c = <<Eat("else"), Enter(k)>>
    OBVIOUS
  <2>2. c \in Seq(Items) /\ Leads(c \o g, l, GoodLooks)
    BY <1>1, <1>2, <2>1, ElseGoesOn
  <2>3. frames' = After(c) /\ ast' = ast /\ UNCHANGED <<source, pos, phase>>
    BY <1>3, <2>1 DEF Does
  <2> QED
    BY <1>1, <2>2, <2>3, StepAlone
<1>4. ASSUME Does(<<>>) PROVE Readable(ast', frames') /\ UNCHANGED <<source, pos, phase>>
  <2>1. frames' = After(<<>>) /\ ast' = ast /\ UNCHANGED <<source, pos, phase>>
    BY <1>4 DEF Does
  <2>2. l \in Effect(x, l)
    BY <1>1, ElseCanEnd
  <2> QED
    BY <1>1, <2>1, <2>2, StepDone
<1>5. Does(<<Eat("else"), Enter("if")>>) \/ Does(<<Eat("else"), Enter("block")>>) \/ Does(<<>>)
  BY DEF ElseIf, ElseBlock, NoElse
<1> QED
  BY <1>2, <1>3, <1>4, <1>5, Stays

LEMMA BlockKeeps ==
  ASSUME IInv, ParseBlock \/ ThreadBody
  PROVE  IInv'
<1>1. \E x \in Items, g \in Seq(Items), h \in DOMAIN ast, l \in Looks, k \in {"block", "thread"} :
        /\ Reading(x, g, h, l) /\ x.op \in Single /\ PartOf(x) = {FaceOf(k)}
        /\ Allocates(Blank(k), Braces("statements"), <<>>)
  <2>1. CASE ParseBlock
    <3>1. PICK x \in Items, g \in Seq(Items), h \in DOMAIN ast, l \in Looks :
            Reading(x, g, h, l) /\ x.op = "block"
      BY <2>1, NextItem DEF ParseBlock
    <3>2. x.op \in Single /\ PartOf(x) = {FaceOf("block")}
      BY <3>1 DEF Single, PartOf
    <3> QED
      BY <2>1, <3>1, <3>2 DEF ParseBlock
  <2>2. CASE ThreadBody
    <3>1. PICK x \in Items, g \in Seq(Items), h \in DOMAIN ast, l \in Looks :
            Reading(x, g, h, l) /\ x.op = "inline"
      BY <2>2, NextItem DEF ThreadBody
    <3>2. x.op \in Single /\ PartOf(x) = {FaceOf("thread")}
      BY <3>1 DEF Single, PartOf
    <3> QED
      BY <2>2, <3>1, <3>2 DEF ThreadBody
  <2> QED
    BY <2>1, <2>2
<1>2. PICK x \in Items, g \in Seq(Items), h \in DOMAIN ast, l \in Looks, k \in {"block", "thread"} :
        /\ Reading(x, g, h, l) /\ x.op \in Single /\ PartOf(x) = {FaceOf(k)}
        /\ Allocates(Blank(k), Braces("statements"), <<>>)
  BY <1>1
<1>3. k \in Kinds
  BY DEF Kinds, StmtKinds
<1>4. Braces("statements") \in Seq(Items) /\ Leads(Braces("statements"), Start(Blank(k)), GoodLooks)
  BY <1>3, BlankStart, BlockLeads
<1> QED
  BY <1>2, <1>3, <1>4, BlankStart, AllocatesKeeps

LEMMA DeclarationKeeps ==
  ASSUME IInv, VarDeclaration
  PROVE  IInv'
<1>1. At("statement") \/ At("declaration")
  BY DEF VarDeclaration, Statement
<1>2. PICK x \in Items, g \in Seq(Items), h \in DOMAIN ast, l \in Looks :
        Reading(x, g, h, l) /\ x.op \in {"statement", "declaration"}
  BY <1>1, NextItem
<1>3. "decl" \in Kinds /\ "decl" \in StmtKinds \ {"call"}
  BY DEF Kinds, StmtKinds
<1>4. PICK c : c = <<Item("type", "decl", 0), Eat("name"), Eat("="), Enter("value")>>
  OBVIOUS
<1>5. c \in Seq(Items) /\ Leads(c, Start(Blank("decl")), GoodLooks)
  BY <1>3, <1>4, BlankStart, DeclarationLeads
<1>6. Allocates(Blank("decl"), c, <<>>)
  BY <1>4 DEF VarDeclaration
<1>7. x.op \in Single /\ FaceOf("decl") \in PartOf(x)
  <2>1. CASE x.op = "statement"
    BY <1>3, <2>1, StatementParts
  <2>2. CASE x.op = "declaration"
    BY <2>2 DEF Single, PartOf
  <2> QED
    BY <1>2, <2>1, <2>2
<1> QED
  BY <1>2, <1>3, <1>5, <1>6, <1>7, BlankStart, AllocatesKeeps

(* A type that is read, or that stays as it was *)
LEMMA TypeReadKeeps ==
  ASSUME IInv, NEW x, NEW g, NEW h, NEW l, Reading(x, g, h, l), x.op = "type",
         NEW t, t \in IF x.what = "func" THEN Types \cup {"void"} ELSE Types, TypeRead(t)
  PROVE  Readable(ast', frames')
<1>1. x = Todo[1] /\ Here = h /\ x \in Items /\ Can(x, l) /\ ast[h] \in Node /\ PlainPar(ast[h])
      /\ g \in Seq(Items) /\ l \in Looks /\ \A m \in Effect(x, l) : Leads(g, m, GoodLooks)
  BY DEF Reading, Todo, Here
<1>2. x.what \in {"func", "decl", "param"}
  BY <1>1 DEF Can, Idle, Single
<1>3. <<>> \in Seq(Items) /\ <<>> \o g = g
  BY <1>1
<1>4. CASE x.what = "param"
  <2>1. frames' = After(<<Item("param", t, 0)>>) /\ ast' = ast
    BY <1>1, <1>4 DEF TypeRead
  <2>2. t \in Types
    BY <1>4
  <2>3. PICK y \in Items : y = Item("param", t, 0) /\ y.op = "param" /\ y.what = t
    <3>1. "param" \in Ops /\ t \in Whats
      BY <2>2, Spoken DEF Ops
    <3> QED
      BY <3>1, ItemFacts
  <2>4. Leads(g, l, GoodLooks)
    <3>1. l \in Effect(x, l)
      BY <1>4, EffectOfIdle DEF Idle
    <3> QED
      BY <1>1, <3>1
  <2>5. Leads(<<y>> \o g, l, GoodLooks)
    <3>1. Can(y, l) /\ Idle(y)
      BY <2>2, <2>3 DEF Can, Idle
    <3>2. Effect(y, l) = {l}
      BY <3>1, EffectOfIdle
    <3> QED
      BY <1>1, <2>4, <3>1, <3>2, LeadsByOne
  <2>6. <<y>> \in Seq(Items)
    BY <2>3
  <2> QED
    BY <2>1, <2>3, <2>5, <2>6, StepAlone
<1>5. CASE x.what \in {"func", "decl"}
  <2>1. frames' = After(<<>>) /\ Writes([ast[h] EXCEPT !.type = t])
    BY <1>1, <1>5 DEF TypeRead
  <2>2. t \in Types \cup {"void"}
    OBVIOUS
  <2>3. PICK nd \in Node : /\ nd = [ast[h] EXCEPT !.type = t] /\ nd.kids = ast[h].kids
                           /\ nd.kind = ast[h].kind /\ nd.par = ast[h].par
    BY <1>1, <2>2, FieldFacts
  <2>4. Face(nd) = Face(ast[h]) /\ PlainPar(nd)
    BY <1>1, <2>3, SameFace
  <2>5. ~Idle(x)
    BY <1>5 DEF Idle
  <2>6. Effect(x, l) = {[l EXCEPT !.type = u] :
                         u \in IF x.what = "func" THEN Types \cup {"void"} ELSE Types}
    BY <2>5 DEF Effect, Single
  <2>7. [l EXCEPT !.type = t] \in Effect(x, l)
    BY <2>6
  <2>8. LookOf(nd, l.kids) = [l EXCEPT !.type = t]
    <3>1. \A v : LookOf([ast[h] EXCEPT !.type = v], l.kids) = [l EXCEPT !.type = v]
      BY FieldLooks
    <3> QED
      BY <2>3, <3>1
  <2>9. Leads(<<>> \o g, LookOf(nd, l.kids), GoodLooks)
    BY <1>1, <1>3, <2>7, <2>8
  <2> QED
    BY <1>3, <2>1, <2>3, <2>4, <2>9, StepWrites
<1> QED
  BY <1>2, <1>4, <1>5

LEMMA TypeKeeps ==
  ASSUME IInv, TypeWord \/ TypeMissing
  PROVE  IInv'
<1>1. PICK x \in Items, g \in Seq(Items), h \in DOMAIN ast, l \in Looks :
        Reading(x, g, h, l) /\ x.op = "type"
  BY NextItem DEF TypeWord, TypeMissing
<1>2. x = Todo[1] /\ phase = "reading"
  BY <1>1 DEF Reading, Todo
<1>3. PICK all : all = IF x.what = "func" THEN Types \cup {"void"} ELSE Types
  OBVIOUS
<1>4. TypesHere \subseteq all /\ Types \subseteq all /\ "eof" \notin TypesHere
  BY <1>2, <1>3 DEF TypesHere, TypeWords, Types
<1>5. CASE TypeWord
  <2>1. Sees(TypesHere) /\ TypeRead(Peek(0).kind) /\ Advance(1)
    BY <1>5 DEF TypeWord
  <2>2. Peek(0).kind \in all
    BY <1>4, <2>1 DEF Sees
  <2>3. Readable(ast', frames')
    BY <1>1, <1>3, <2>1, <2>2, TypeReadKeeps
  <2> QED
    BY <1>2, <1>4, <2>1, <2>3, Reads
<1>6. CASE TypeMissing
  <2>1. PICK t \in TypesHere \cup Types : TypeRead(t)
    BY <1>6 DEF TypeMissing
  <2>2. t \in all
    BY <1>4
  <2>3. Readable(ast', frames')
    BY <1>1, <1>3, <2>1, <2>2, TypeReadKeeps
  <2>4. UNCHANGED <<source, pos, phase>>
    BY <1>6 DEF TypeMissing, Advance, IInv
  <2> QED
    BY <1>2, <2>3, <2>4, Stays
<1> QED
  BY <1>5, <1>6

(* The value of a declaration *)
WithPar(r, p) == [r EXCEPT !.par = p]

LEMMA ParLooks ==
  ASSUME NEW x, NEW g, NEW h, NEW l, Reading(x, g, h, l), NEW p
  PROVE  LookOf(WithPar(ast[h], p), l.kids) = WithPar(l, p)
BY FieldLooks DEF WithPar

LEMMA ValueWrites ==
  ASSUME IInv, NEW x, NEW g, NEW h, NEW l, Reading(x, g, h, l), x.op = "value",
         NEW p \in ParallelTypes, NEW items \in Seq(Items),
         Leads(items \o g, WithPar(l, p), GoodLooks),
         frames' = After(items), WritesPar(p)
  PROVE  IInv'
<1>1. Here = h /\ Can(x, l) /\ ast[h] \in Node /\ phase = "reading" /\ l = Look(ast, h)
  BY DEF Reading, Here
<1>2. ast[h].kind = "decl"
  BY <1>1 DEF Can, Idle, Single, Look
<1>3. Writes(WithPar(ast[h], p)) /\ UNCHANGED <<source, pos, phase>>
  BY <1>1 DEF WritesPar, WithPar
<1>4. PICK nd \in Node : /\ nd = WithPar(ast[h], p) /\ nd.kids = ast[h].kids
                         /\ nd.kind = ast[h].kind
  BY <1>1, FieldFacts DEF WithPar
<1>5. Face(nd) = Face(ast[h]) /\ PlainPar(nd)
  BY <1>2, <1>4 DEF Face, PlainPar
<1>6. LookOf(nd, l.kids) = WithPar(l, p)
  BY <1>4, ParLooks
<1>7. Leads(items \o g, LookOf(nd, l.kids), GoodLooks)
  BY <1>6
<1>8. Readable(ast', frames')
  BY <1>3, <1>4, <1>5, <1>7, StepWrites
<1> QED
  BY <1>1, <1>3, <1>8, Stays

LEMMA ValueKeeps ==
  ASSUME IInv, Value
  PROVE  IInv'
<1>1. PICK x \in Items, g \in Seq(Items), h \in DOMAIN ast, l \in Looks :
        Reading(x, g, h, l) /\ x.op = "value"
  BY NextItem DEF Value
<1>2. \A m \in Effect(x, l) : Leads(g, m, GoodLooks)
  BY <1>1 DEF Reading
<1>3. PICK a : a = Expression \o <<Eat(";")>>
  OBVIOUS
<1>4. PICK b : b = <<Eat("thread"), CallIn("thread")>>
  OBVIOUS
<1>5. PICK c : c = <<CallIn("process")>>
  OBVIOUS
<1>6. /\ a \in Seq(Items) /\ Leads(a \o g, WithPar(l, "regular"), GoodLooks)
      /\ b \in Seq(Items) /\ Leads(b \o g, WithPar(l, "thread"), GoodLooks)
      /\ c \in Seq(Items) /\ Leads(c \o g, WithPar(l, "process"), GoodLooks)
  BY <1>1, <1>2, <1>3, <1>4, <1>5, ValueGoesOn DEF WithPar
<1>7. \/ frames' = After(a) /\ WritesPar("regular")
      \/ frames' = After(b) /\ WritesPar("thread")
      \/ frames' = After(c) /\ WritesPar("process")
  BY <1>3, <1>4, <1>5 DEF Value
<1>8. {"regular", "thread", "process"} \subseteq ParallelTypes
  BY DEF ParallelTypes
<1> QED
  BY <1>1, <1>6, <1>7, <1>8, ValueWrites

LEMMA UpdateKeeps ==
  ASSUME IInv, VarUpdate
  PROVE  IInv'
<1>1. At("statement") \/ At("update")
  BY DEF VarUpdate, Statement
<1>2. PICK x \in Items, g \in Seq(Items), h \in DOMAIN ast, l \in Looks :
        Reading(x, g, h, l) /\ x.op \in {"statement", "update"}
  BY <1>1, NextItem
<1>3. "update" \in Kinds /\ "update" \in StmtKinds \ {"call"}
  BY DEF Kinds, StmtKinds
<1>4. PICK nd \in Node : /\ nd = Blank("update") /\ nd.kids = <<>> /\ PlainPar(nd)
                         /\ Face(nd) = FaceOf("update") /\ Start(nd) \in Looks
                         /\ Start(nd).kids = <<>> /\ Start(nd).kind = "update"
  BY <1>3, BlankStart
<1>5. PICK c : c = <<Eat("name"), Enter("assign")>>
  OBVIOUS
<1>6. c \in Seq(Items) /\ Leads(c, Start(nd), GoodLooks)
  BY <1>4, <1>5, UpdateLeads
<1>7. x.op \in Single /\ Face(nd) \in PartOf(x)
  <2>1. CASE x.op = "statement"
    BY <1>3, <1>4, <2>1, StatementParts
  <2>2. CASE x.op = "update"
    BY <1>4, <2>2 DEF Single, PartOf
  <2> QED
    BY <1>2, <2>1, <2>2
<1>8. phase = "reading" /\ g \in Seq(Items) /\ l \in Looks
      /\ \A m \in Effect(x, l) : Leads(g, m, GoodLooks)
  BY <1>2 DEF Reading
<1>9. PICK f \in Faces : f = Face(nd)
  BY <1>3, <1>4, FaceFacts
<1>10. Bigger(l, f) \in Looks /\ Leads(g, Bigger(l, f), GoodLooks)
  BY <1>7, <1>8, <1>9, BiggerFacts, EffectOfSingle
<1>11. PICK e \in Items : e = Eat(";") /\ Idle(e) /\ e.op # "param"
  BY Spoken, EatIsIdle
<1>12. Leads(<<e>> \o g, Bigger(l, f), GoodLooks) /\ <<e>> \in Seq(Items)
  <2>1. Leads(<<e>> \o g, Bigger(l, f), GoodLooks)
    BY <1>8, <1>10, <1>11, LeadsIdleFirst
  <2>2. <<e>> \in Seq(Items)
    OBVIOUS
  <2> QED
    BY <2>1, <2>2
<1>13. Leads(<<>> \o g, Bigger(l, f), GoodLooks) /\ <<>> \in Seq(Items)
  BY <1>10
<1>14. UNCHANGED <<source, pos, phase>> /\ (Begins(nd, c, <<e>>) \/ Begins(nd, c, <<>>))
  BY <1>4, <1>5, <1>11 DEF VarUpdate, Allocates
<1>15. Readable(ast', frames')
  <2>1. CASE Begins(nd, c, <<e>>)
    BY <1>2, <1>4, <1>6, <1>9, <1>12, <2>1, StepBegins
  <2>2. CASE Begins(nd, c, <<>>)
    BY <1>2, <1>4, <1>6, <1>9, <1>13, <2>2, StepBegins
  <2> QED
    BY <1>14, <2>1, <2>2
<1> QED
  BY <1>8, <1>14, <1>15, Stays

WithOp(r, o) == [r EXCEPT !.op = o]

LEMMA OpLooks ==
  ASSUME NEW x, NEW g, NEW h, NEW l, Reading(x, g, h, l), NEW o
  PROVE  LookOf(WithOp(ast[h], o), l.kids) = WithOp(l, o)
BY FieldLooks DEF WithOp

LEMMA AssignKeeps ==
  ASSUME IInv, Assign
  PROVE  IInv'
<1>1. PICK x \in Items, g \in Seq(Items), h \in DOMAIN ast, l \in Looks :
        Reading(x, g, h, l) /\ x.op = "assign"
  BY NextItem DEF Assign
<1>2. /\ phase = "reading" /\ Here = h /\ ast[h] \in Node /\ PlainPar(ast[h])
      /\ \A m \in Effect(x, l) : Leads(g, m, GoodLooks)
  BY <1>1 DEF Reading, Here
<1>3. Sees(UpdateOps) /\ "eof" \notin UpdateOps /\ Advance(1)
  BY DEF Assign, UpdateOps
<1>4. PICK o \in UpdateOps : o = Peek(0).kind
  BY <1>3 DEF Sees
<1>5. PICK nd \in Node : /\ nd = WithOp(ast[h], o) /\ nd.kids = ast[h].kids
                         /\ nd.kind = ast[h].kind /\ nd.par = ast[h].par
  BY <1>2, FieldFacts DEF WithOp
<1>6. Face(nd) = Face(ast[h]) /\ PlainPar(nd)
  BY <1>2, <1>5, SameFace
<1>7. LookOf(nd, l.kids) = WithOp(l, o)
  BY <1>1, <1>5, OpLooks
<1>8. /\ o = "++" => Leads(g, WithOp(l, o), GoodLooks)
      /\ o # "++" => Expression \in Seq(Items) /\ Leads(Expression \o g, WithOp(l, o), GoodLooks)
  BY <1>1, <1>2, AssignGoesOn DEF WithOp
<1>9. Writes(nd)
  BY <1>2, <1>4, <1>5 DEF Assign, WithOp
<1>10. Readable(ast', frames')
  <2>1. CASE o = "++"
    <3>1. frames' = After(<<>>)
      BY <1>4, <2>1 DEF Assign, Sees
    <3>2. <<>> \in Seq(Items) /\ Leads(<<>> \o g, LookOf(nd, l.kids), GoodLooks)
      BY <1>7, <1>8, <2>1
    <3> QED
      BY <1>1, <1>5, <1>6, <1>9, <3>1, <3>2, StepWrites
  <2>2. CASE o # "++"
    <3>1. frames' = After(Expression)
      BY <1>4, <2>2 DEF Assign, Sees
    <3>2. Expression \in Seq(Items) /\ Leads(Expression \o g, LookOf(nd, l.kids), GoodLooks)
      BY <1>7, <1>8, <2>2
    <3> QED
      BY <1>1, <1>5, <1>6, <1>9, <3>1, <3>2, StepWrites
  <2> QED
    BY <2>1, <2>2
<1> QED
  BY <1>2, <1>3, <1>10, Reads

LEMMA LoopKeeps ==
  ASSUME IInv, ForLoop \/ ThreadedLoop
  PROVE  IInv'
<1>1. PICK x \in Items, g \in Seq(Items), h \in DOMAIN ast, l \in Looks :
        Reading(x, g, h, l) /\ x.op = "statement"
  BY NextItem DEF ForLoop, ThreadedLoop, Statement
<1>2. "for" \in Kinds /\ "for" \in StmtKinds \ {"call"} /\ "thread" \in ParallelTypes
  BY DEF Kinds, StmtKinds, ParallelTypes
<1>3. CASE ForLoop
  <2>1. LoopParts \in Seq(Items) /\ Leads(LoopParts, Start(Blank("for")), GoodLooks)
    BY <1>2, BlankStart, LoopLeads
  <2>2. Allocates(Blank("for"), LoopParts, <<>>)
    BY <1>3 DEF ForLoop
  <2> QED
    BY <1>1, <1>2, <2>1, <2>2, BlankStart, StatementParts, AllocatesKeeps
<1>4. CASE ThreadedLoop
  <2>1. PICK c : c = <<Eat("thread"), Eat("="), Eat("number")>> \o LoopParts
    OBVIOUS
  <2>2. PICK nd \in Node : /\ nd = [Blank("for") EXCEPT !.par = "thread"]
                           /\ nd.kids = <<>> /\ nd.kind = "for"
    <3>1. /\ [Blank("for") EXCEPT !.par = "thread"] \in Node
          /\ [Blank("for") EXCEPT !.par = "thread"].kids = <<>>
          /\ [Blank("for") EXCEPT !.par = "thread"].kind = "for"
      BY <1>2, BlankFacts, FieldFacts
    <3> QED
      BY <3>1
  <2>3. PlainPar(nd) /\ Face(nd) = FaceOf("for")
    BY <2>2 DEF PlainPar, Face, FaceOf
  <2>4. Start(nd) \in Looks /\ Start(nd).kids = <<>> /\ Start(nd).kind = "for"
    BY <2>2, StartFacts
  <2>5. c \in Seq(Items) /\ Leads(c, Start(nd), GoodLooks)
    BY <2>1, <2>4, ThreadedLoopLeads
  <2>6. Allocates(nd, c, <<>>)
    BY <1>4, <2>1, <2>2 DEF ThreadedLoop
  <2>7. x.op \in Single /\ Face(nd) \in PartOf(x)
    BY <1>1, <1>2, <2>3, StatementParts
  <2> QED
    BY <1>1, <2>2, <2>3, <2>5, <2>6, <2>7, AllocatesKeeps
<1> QED
  BY <1>3, <1>4

LEMMA InThreadKeeps ==
  ASSUME IInv, ThreadBlock \/ ThreadStatement \/ ProcessStatement
  PROVE  IInv'
<1>1. PICK x \in Items, g \in Seq(Items), h \in DOMAIN ast, l \in Looks :
        Reading(x, g, h, l) /\ x.op = "statement"
  BY NextItem DEF ThreadBlock, ThreadStatement, ProcessStatement, Statement
<1>2. phase = "reading" /\ \A m \in Effect(x, l) : Leads(g, m, GoodLooks)
  BY <1>1 DEF Reading
<1>3. /\ <<Eat("thread"), Enter("inline")>> \in Seq(Items)
      /\ Leads(<<Eat("thread"), Enter("inline")>> \o g, l, GoodLooks)
  <2>1. PICK y \in Items : /\ y = Enter("inline") /\ y.op \in Single /\ y.op # "call"
                           /\ PartOf(y) \subseteq StmtFaces
    BY ThreadsAndCalls
  <2> QED
    BY <1>1, <1>2, <2>1, OfThatKind
<1>4. \A p \in {"thread", "process"} :
        /\ <<CallIn(p)>> \in Seq(Items) /\ Leads(<<CallIn(p)>> \o g, l, GoodLooks)
        /\ <<Eat("thread"), CallIn(p)>> \in Seq(Items)
        /\ Leads(<<Eat("thread"), CallIn(p)>> \o g, l, GoodLooks)
  <2> SUFFICES ASSUME NEW p \in {"thread", "process"}
               PROVE  /\ <<CallIn(p)>> \in Seq(Items) /\ Leads(<<CallIn(p)>> \o g, l, GoodLooks)
                      /\ <<Eat("thread"), CallIn(p)>> \in Seq(Items)
                      /\ Leads(<<Eat("thread"), CallIn(p)>> \o g, l, GoodLooks)
    OBVIOUS
  <2>1. PICK y \in Items : /\ y = CallIn(p) /\ y.op = "call" /\ y.what = p
                           /\ PartOf(y) \subseteq StmtFaces
    BY ThreadsAndCalls
  <2>2. y.op \in Single
    BY <2>1 DEF Single
  <2> QED
    BY <1>1, <1>2, <2>1, <2>2, OfThatKind
<1>5. PICK items \in Seq(Items) : Does(items) /\ Leads(items \o g, l, GoodLooks)
  <2>1. \/ Does(<<Eat("thread"), Enter("inline")>>)
        \/ Does(<<Eat("thread"), CallIn("thread")>>)
        \/ Does(<<CallIn("process")>>)
    BY DEF ThreadBlock, ThreadStatement, ProcessStatement
  <2> QED
    BY <1>3, <1>4, <2>1
<1>6. frames' = After(items) /\ ast' = ast /\ UNCHANGED <<source, pos, phase>>
  BY <1>5 DEF Does
<1>7. Readable(ast', frames')
  BY <1>1, <1>5, <1>6, StepAlone
<1> QED
  BY <1>2, <1>6, <1>7, Stays

(* A call, in a thread, in a process, or in an expression *)
LEMMA CallStart ==
  ASSUME NEW nd \in Node, nd.kids = <<>>, nd.kind = "call"
  PROVE  /\ PlainPar(nd) /\ Face(nd) = [kind |-> "call", par |-> nd.par]
         /\ Start(nd) \in Looks /\ Start(nd).kids = <<>> /\ Start(nd).kind = "call"
         /\ Start(nd).name = nd.name
BY StartFacts DEF PlainPar, Face

LEMMA CallKeeps ==
  ASSUME IInv, FunctionCall
  PROVE  IInv'
<1>1. PICK x \in Items, g \in Seq(Items), h \in DOMAIN ast, l \in Looks :
        Reading(x, g, h, l) /\ x.op = "call"
  BY NextItem DEF FunctionCall
<1>2. x = Todo[1] /\ Can(x, l)
  BY <1>1 DEF Reading, Todo
<1>3. PICK p \in {"thread", "process"} : p = x.what
  BY <1>1, <1>2 DEF Can, Idle
<1>4. p \in ParallelTypes /\ x.op \in Single /\ PartOf(x) = {[kind |-> "call", par |-> p]}
  BY <1>1, <1>3 DEF ParallelTypes, Single, PartOf
<1>5. PICK nd \in Node : /\ nd = [Blank("call") EXCEPT !.par = p]
                         /\ nd.kids = <<>> /\ nd.kind = "call" /\ nd.par = p
  <2>1. "call" \in Kinds
    BY DEF Kinds, StmtKinds
  <2>2. PICK b \in Node : b = Blank("call") /\ b.kids = <<>> /\ b.kind = "call"
    BY <2>1, BlankFacts
  <2>3. /\ [b EXCEPT !.par = p] \in Node /\ [b EXCEPT !.par = p].kids = <<>>
        /\ [b EXCEPT !.par = p].kind = "call" /\ [b EXCEPT !.par = p].par = p
    BY <1>4, <2>2, FieldFacts
  <2> QED
    BY <2>2, <2>3
<1>6. /\ PlainPar(nd) /\ Face(nd) \in PartOf(x)
      /\ Start(nd) \in Looks /\ Start(nd).kids = <<>> /\ Start(nd).kind = "call"
  BY <1>4, <1>5, CallStart
<1>7. PICK r : r = <<Eat("name"), Eat("("), List("arguments"), Eat(")"), Eat(";")>>
  OBVIOUS
<1>8. \A process \in BOOLEAN : LET c == (IF process THEN <<Eat("process")>> ELSE <<>>) \o r
                              IN  c \in Seq(Items) /\ Leads(c, Start(nd), GoodLooks)
  BY <1>6, <1>7, CallLeads
<1>9. /\ <<Eat("process")>> \o r \in Seq(Items)
      /\ Leads(<<Eat("process")>> \o r, Start(nd), GoodLooks)
      /\ <<>> \o r \in Seq(Items) /\ Leads(<<>> \o r, Start(nd), GoodLooks)
  <2>1. TRUE \in BOOLEAN /\ FALSE \in BOOLEAN
    OBVIOUS
  <2> QED
    BY <1>8, <2>1
<1>10. Allocates(nd, <<Eat("process")>> \o r, <<>>) \/ Allocates(nd, <<>> \o r, <<>>)
  BY <1>2, <1>3, <1>5, <1>7 DEF FunctionCall
<1> QED
  BY <1>1, <1>4, <1>5, <1>6, <1>9, <1>10, AllocatesKeeps

LEMMA FunctionKeeps ==
  ASSUME IInv, Function
  PROVE  IInv'
<1>1. PICK x \in Items, g \in Seq(Items), h \in DOMAIN ast, l \in Looks :
        Reading(x, g, h, l) /\ x.op = "statement"
  BY NextItem DEF Function, Statement
<1>2. "func" \in Kinds /\ "func" \in StmtKinds \ {"call"}
  BY DEF Kinds, StmtKinds
<1>3. PICK c : c = <<Eat("func"), Item("type", "func", 0), Eat("name"), Eat("("),
                     List("params"), Eat(")")>> \o Braces("statements")
  OBVIOUS
<1>4. c \in Seq(Items) /\ Leads(c, Start(Blank("func")), GoodLooks)
  BY <1>2, <1>3, BlankStart, FunctionLeads
<1>5. Allocates(Blank("func"), c, <<>>)
  BY <1>3 DEF Function
<1> QED
  BY <1>1, <1>2, <1>4, <1>5, BlankStart, StatementParts, AllocatesKeeps

LEMMA ReturnStatementKeeps ==
  ASSUME IInv, ReturnStatement
  PROVE  IInv'
<1>1. PICK x \in Items, g \in Seq(Items), h \in DOMAIN ast, l \in Looks :
        Reading(x, g, h, l) /\ x.op = "statement"
  BY NextItem DEF ReturnStatement, Statement
<1>2. "return" \in Kinds /\ "return" \in StmtKinds \ {"call"}
  BY DEF Kinds, StmtKinds
<1>3. PICK c : c = <<Eat("return")>> \o Expression \o <<Eat(";")>>
  OBVIOUS
<1>4. c \in Seq(Items) /\ Leads(c, Start(Blank("return")), GoodLooks)
  BY <1>2, <1>3, BlankStart, ReturnLeads
<1>5. Allocates(Blank("return"), c, <<>>)
  BY <1>3 DEF ReturnStatement
<1> QED
  BY <1>1, <1>2, <1>4, <1>5, BlankStart, StatementParts, AllocatesKeeps

LEMMA AwaitKeeps ==
  ASSUME IInv, ParseAwait
  PROVE  IInv'
<1>1. PICK x \in Items, g \in Seq(Items), h \in DOMAIN ast, l \in Looks :
        Reading(x, g, h, l) /\ x.op = "statement"
  BY NextItem DEF ParseAwait, Statement
<1>2. "await" \in Kinds /\ "await" \in StmtKinds \ {"call"}
  BY DEF Kinds, StmtKinds
<1>3. PICK c : c = <<Eat("await")>> \o Braces("names") \o <<Eat(";")>>
  OBVIOUS
<1>4. c \in Seq(Items) /\ Leads(c, Start(Blank("await")), GoodLooks)
  BY <1>2, <1>3, BlankStart, AwaitLeads
<1>5. Allocates(Blank("await"), c, <<>>)
  BY <1>3 DEF ParseAwait
<1> QED
  BY <1>1, <1>2, <1>4, <1>5, BlankStart, StatementParts, AllocatesKeeps

WithParams(r, ps) == [r EXCEPT !.params = ps]

LEMMA ParamsLooks ==
  ASSUME NEW x, NEW g, NEW h, NEW l, Reading(x, g, h, l), NEW ps
  PROVE  LookOf(WithParams(ast[h], ps), l.kids) = l
BY FieldLooks DEF WithParams

LEMMA ParamKeeps ==
  ASSUME IInv, Param
  PROVE  IInv'
<1>1. PICK x \in Items, g \in Seq(Items), h \in DOMAIN ast, l \in Looks :
        Reading(x, g, h, l) /\ x.op = "param"
  BY NextItem DEF Param
<1>2. /\ phase = "reading" /\ x = Todo[1] /\ Here = h /\ ast[h] \in Node /\ PlainPar(ast[h])
      /\ Can(x, l) /\ \A m \in Effect(x, l) : Leads(g, m, GoodLooks)
  BY <1>1 DEF Reading, Todo, Here
<1>3. x.what \in Types /\ Idle(x)
  BY <1>1, <1>2 DEF Can, Idle, Single
<1>4. Sees({"name"}) /\ "eof" \notin {"name"} /\ Advance(1) /\ frames' = After(<<>>)
  BY DEF Param
<1>5. Peek(0).name \in Names
  BY <1>4, SeesToken, TokenFacts
<1>6. PICK p \in Params : p = [name |-> Peek(0).name, type |-> x.what]
  BY <1>3, <1>5 DEF Params
<1>7. PICK nd \in Node : /\ nd = WithParams(ast[h], Append(ast[h].params, p))
                         /\ nd.kids = ast[h].kids
                         /\ nd.kind = ast[h].kind /\ nd.par = ast[h].par
  <2>1. PICK b \in Node : b = ast[h]
    BY <1>2
  <2>2. PICK s \in Seq(Params) : s = Append(b.params, p)
    <3>1. Append(b.params, p) \in Seq(Params)
      BY DEF Node
    <3> QED
      BY <3>1
  <2>3. /\ [b EXCEPT !.params = s] \in Node /\ [b EXCEPT !.params = s].kids = b.kids
        /\ [b EXCEPT !.params = s].kind = b.kind /\ [b EXCEPT !.params = s].par = b.par
    BY DEF Node
  <2> QED
    BY <2>1, <2>2, <2>3 DEF WithParams
<1>8. Face(nd) = Face(ast[h]) /\ PlainPar(nd)
  BY <1>2, <1>7, SameFace
<1>9. LookOf(nd, l.kids) = l
  BY <1>1, <1>7, ParamsLooks
<1>10. <<>> \in Seq(Items) /\ Leads(<<>> \o g, LookOf(nd, l.kids), GoodLooks)
  BY <1>2, <1>3, <1>9, EffectOfIdle
<1>11. Writes(nd)
  BY <1>2, <1>6, <1>7 DEF Param, WithParams
<1>12. Readable(ast', frames')
  BY <1>1, <1>4, <1>7, <1>8, <1>10, <1>11, StepWrites
<1> QED
  BY <1>2, <1>4, <1>12, Reads

-----------------------------------------------------------------------------
(* The actions of expressions *)

LEMMA OperatorKeeps ==
  ASSUME IInv, Operator
  PROVE  IInv'
<1>1. PICK x \in Items, g \in Seq(Items), h \in DOMAIN ast, l \in Looks :
        Reading(x, g, h, l) /\ x.op = "more"
  BY NextItem DEF Operator
<1>2. /\ phase = "reading" /\ x = Todo[1] /\ Can(x, l)
      /\ \A m \in Effect(x, l) : Leads(g, m, GoodLooks)
  BY <1>1 DEF Reading, Todo
<1>3. x.level \in 1 .. 4
  BY <1>1, <1>2, MoreFacts
<1>4. Sees(Levels[x.level]) /\ "eof" \notin Levels[x.level] /\ Advance(1) /\ ast' = ast
  BY <1>2, <1>3, NeverEnds DEF Operator
<1>5. PICK w \in BinaryOps : w = RuleOf[Peek(0).kind]
  BY <1>3, <1>4, NeverEnds DEF Sees
<1>6. PICK items : items = Operand(x.level + 1) \o <<Item("join", w, 0), x>>
  OBVIOUS
<1>7. items \in Seq(Items) /\ Leads(items \o g, l, GoodLooks)
  BY <1>1, <1>2, <1>6, LevelGoesOn
<1>8. frames' = After(items)
  BY <1>2, <1>5, <1>6 DEF Operator
<1>9. Readable(ast', frames')
  BY <1>1, <1>4, <1>7, <1>8, StepAlone
<1> QED
  BY <1>2, <1>4, <1>9, Reads

LEMMA NoOperatorKeeps ==
  ASSUME IInv, NoOperator
  PROVE  IInv'
<1>1. PICK x \in Items, g \in Seq(Items), h \in DOMAIN ast, l \in Looks :
        Reading(x, g, h, l) /\ x.op = "more"
  BY NextItem DEF NoOperator
<1>2. phase = "reading" /\ Can(x, l)
  BY <1>1 DEF Reading
<1>3. l \in Effect(x, l)
  BY <1>1, <1>2, LevelCanEnd
<1>4. frames' = After(<<>>) /\ ast' = ast /\ UNCHANGED <<source, pos, phase>>
  BY DEF NoOperator, Does
<1>5. Readable(ast', frames')
  BY <1>1, <1>3, <1>4, StepDone
<1> QED
  BY <1>2, <1>4, <1>5, Stays

LEMMA JoinKeeps ==
  ASSUME IInv, Join
  PROVE  IInv'
<1>1. PICK x \in Items, g \in Seq(Items), h \in DOMAIN ast, l \in Looks :
        Reading(x, g, h, l) /\ x.op = "join"
  BY NextItem DEF Join
<1>2. /\ phase = "reading" /\ x = Todo[1] /\ Here = h /\ h = frames[1].node /\ Can(x, l)
      /\ \A m \in Effect(x, l) : Leads(g, m, GoodLooks)
      /\ Readable(ast, frames) /\ frames # <<>> /\ l = Look(ast, h) /\ AtTheEnd(ast, h)
  BY <1>1 DEF Reading, Todo, Here
<1>3. /\ x.what \in BinaryOps /\ Len(l.kids) >= 2
      /\ LastFace(l, 0) \in ExprFaces /\ LastFace(l, 1) \in ExprFaces
  BY <1>1, <1>2 DEF Can, Idle, Single
<1>4. TreeOK(ast)
  BY <1>2 DEF Readable
<1>5. PICK k \in Seq(Nat) : k = ast[h].kids
  BY <1>4, LookFacts DEF Node
<1>6. PICK K \in Nat : K = Len(k) /\ K >= 2 /\ K - 1 \in DOMAIN k /\ K \in DOMAIN k /\ Len(l.kids) = K
  <2>1. Len(l.kids) = Len(k)
    BY <1>2, <1>4, <1>5, LookFacts
  <2>2. Len(k) \in Nat /\ Len(k) >= 2 /\ DOMAIN k = 1 .. Len(k)
    BY <1>3, <2>1
  <2>3. Len(k) - 1 \in DOMAIN k /\ Len(k) \in DOMAIN k
    BY <2>2
  <2> QED
    BY <2>1, <2>2, <2>3
<1>7. PICK a : a = k[K - 1]
  OBVIOUS
<1>8. PICK b : b = k[K]
  OBVIOUS
<1>9. Latest(ast, h, a, b)
  BY <1>2, <1>4, <1>5, <1>6, <1>7, <1>8 DEF Latest
<1>10. LastFace(l, 0) = Face(ast[b]) /\ LastFace(l, 1) = Face(ast[a])
  <2>1. \A i \in DOMAIN k : l.kids[i] = Face(ast[k[i]])
    BY <1>2, <1>4, <1>5, LookFacts
  <2> QED
    BY <1>6, <1>7, <1>8, <2>1, SMTT(30) DEF LastFace
<1>11. ast' = JoinedTree(ast, h, x.what, a, b)
  BY <1>2, <1>5, <1>6, <1>7, <1>8 DEF Join, Joined, JoinedTree
<1>12. frames' = Onward(frames, g) /\ g \in Seq(Items)
  <2>1. frames' = After(<<>>)
    BY DEF Join
  <2> QED
    BY <1>1, <2>1, AfterNothing
<1>13. Leads(g, Combined(l), GoodLooks)
  <2>1. Effect(x, l) = {Combined(l)}
    BY <1>1 DEF Effect, Idle, Single, Combined
  <2> QED
    BY <1>2, <2>1
<1>14. Readable(ast', frames')
  BY <1>2, <1>3, <1>9, <1>10, <1>11, <1>12, <1>13, OperatorJoins
<1>15. UNCHANGED <<source, pos, phase>>
  BY DEF Join, Advance, IInv
<1> QED
  BY <1>2, <1>14, <1>15, Stays

LEMMA NegationKeeps ==
  ASSUME IInv, Negation
  PROVE  IInv'
<1>1. PICK x \in Items, g \in Seq(Items), h \in DOMAIN ast, l \in Looks :
        Reading(x, g, h, l) /\ x.op = "unary"
  BY NextItem DEF Negation
<1>2. phase = "reading"
  BY <1>1 DEF Reading
<1>3. "unary" \in Kinds /\ "unary" \in ExprKinds
  BY DEF Kinds, ExprKinds
<1>4. PICK c : c = <<Enter("unary")>>
  OBVIOUS
<1>5. c \in Seq(Items) /\ Leads(c, Start(Blank("unary")), GoodLooks)
  BY <1>3, <1>4, BlankStart, NegationLeads
<1>6. x.op \in Single /\ FaceOf("unary") \in PartOf(x)
  BY <1>1, <1>3, FaceFacts DEF Single, PartOf
<1>7. Begins(Blank("unary"), c, <<>>) /\ Advance(1) /\ Sees({"!"}) /\ "eof" \notin {"!"}
  BY <1>4 DEF Negation
<1>8. Readable(ast', frames')
  BY <1>1, <1>3, <1>5, <1>6, <1>7, BlankStart, StepBeginsPart
<1> QED
  BY <1>2, <1>7, <1>8, Reads

(* A name, a number or a text is a node without parts. *)
LEMMA LeafFacts ==
  ASSUME NEW t \in Token, t.kind \in Content
  PROVE  /\ Leaf(t) \in Node /\ Leaf(t).kids = <<>> /\ PlainPar(Leaf(t))
         /\ Face(Leaf(t)) \in ExprFaces /\ Start(Leaf(t)) \in GoodLooks
         /\ t.kind = "name" => Face(Leaf(t)) = FaceOf("ident")
<1>1. {"ident", "int", "string"} \subseteq ExprKinds /\ ExprKinds \subseteq Kinds
  BY DEF ExprKinds, Kinds
<1>2. CASE t.kind = "name"
  <2>1. PICK v \in Names : v = t.name
    BY <1>2, TokenFacts
  <2>2. PICK b \in Node : b = Blank("ident") /\ b.kids = <<>> /\ b.kind = "ident" /\ b.par = "regular"
    BY <1>1, BlankFacts
  <2>3. PICK nd \in Node : /\ nd = [b EXCEPT !.name = v] /\ nd.kids = <<>> /\ nd.kind = "ident"
                           /\ nd.par = "regular" /\ nd.name = v
    <3>1. /\ [b EXCEPT !.name = v] \in Node /\ [b EXCEPT !.name = v].kids = <<>>
          /\ [b EXCEPT !.name = v].kind = "ident" /\ [b EXCEPT !.name = v].par = "regular"
          /\ [b EXCEPT !.name = v].name = v
      BY <2>2 DEF Node
    <3> QED
      BY <3>1
  <2>4. Leaf(t) = nd
    BY <1>2, <2>1, <2>2, <2>3 DEF Leaf
  <2>5. PlainPar(nd) /\ Face(nd) = FaceOf("ident")
    BY <2>3 DEF PlainPar, Face, FaceOf
  <2>6. Start(nd) \in GoodLooks
    BY <2>3, StartFacts DEF GoodLooks, Good
  <2> QED
    BY <1>1, <2>3, <2>4, <2>5, <2>6, FaceFacts
<1>3. CASE t.kind = "number"
  <2>1. PICK v \in Int : v = t.num
    BY <1>3, TokenFacts
  <2>2. PICK b \in Node : b = Blank("int") /\ b.kids = <<>> /\ b.kind = "int" /\ b.par = "regular"
    BY <1>1, BlankFacts
  <2>3. PICK nd \in Node : /\ nd = [b EXCEPT !.num = v] /\ nd.kids = <<>> /\ nd.kind = "int"
                           /\ nd.par = "regular"
    <3>1. /\ [b EXCEPT !.num = v] \in Node /\ [b EXCEPT !.num = v].kids = <<>>
          /\ [b EXCEPT !.num = v].kind = "int" /\ [b EXCEPT !.num = v].par = "regular"
      BY <2>2 DEF Node
    <3> QED
      BY <3>1
  <2>4. Leaf(t) = nd
    BY <1>3, <2>1, <2>2, <2>3 DEF Leaf
  <2>5. PlainPar(nd) /\ Face(nd) = FaceOf("int")
    BY <2>3 DEF PlainPar, Face, FaceOf
  <2>6. Start(nd) \in GoodLooks
    BY <2>3, StartFacts DEF GoodLooks, Good
  <2> QED
    BY <1>1, <1>3, <2>3, <2>4, <2>5, <2>6, FaceFacts
<1>4. CASE t.kind = "text"
  <2>1. PICK nd \in Node : /\ nd = Blank("string") /\ nd.kids = <<>> /\ nd.kind = "string"
                           /\ nd.par = "regular"
    BY <1>1, BlankFacts
  <2>2. Leaf(t) = nd
    BY <1>4, <2>1 DEF Leaf
  <2>3. PlainPar(nd) /\ Face(nd) = FaceOf("string")
    BY <2>1 DEF PlainPar, Face, FaceOf
  <2>4. Start(nd) \in GoodLooks
    BY <2>1, StartFacts DEF GoodLooks, Good
  <2> QED
    BY <1>1, <1>4, <2>1, <2>2, <2>3, <2>4, FaceFacts
<1> QED
  BY <1>2, <1>3, <1>4 DEF Content

LEMMA LiteralKeeps ==
  ASSUME IInv, Literal
  PROVE  IInv'
<1>1. At("unary") \/ At("awaited")
  BY DEF Literal
<1>2. PICK x \in Items, g \in Seq(Items), h \in DOMAIN ast, l \in Looks :
        /\ Reading(x, g, h, l)
        /\ \/ x.op = "unary" /\ Sees(Content)
           \/ x.op = "awaited" /\ Sees({"name"})
  <2>1. CASE At("unary") /\ Sees(Content)
    BY <2>1, NextItem
  <2>2. CASE At("awaited") /\ Sees({"name"})
    BY <2>2, NextItem
  <2> QED
    BY <2>1, <2>2 DEF Literal
<1>3. phase = "reading"
  BY <1>2 DEF Reading
<1>4. Sees(Content) /\ "eof" \notin Content
  BY <1>2 DEF Sees, Content
<1>5. PICK t \in Token : t = Peek(0) /\ t.kind \in Content
  BY <1>4, SeesToken
<1>6. PICK nd \in Node : /\ nd = Leaf(t) /\ nd.kids = <<>> /\ PlainPar(nd)
                         /\ Face(nd) \in ExprFaces /\ Start(nd) \in GoodLooks
                         /\ t.kind = "name" => Face(nd) = FaceOf("ident")
  BY <1>5, LeafFacts
<1>7. x.op \in Single /\ Face(nd) \in PartOf(x)
  <2>1. CASE x.op = "unary"
    BY <1>6, <2>1 DEF Single, PartOf
  <2>2. CASE x.op = "awaited" /\ Sees({"name"})
    BY <1>5, <1>6, <2>2 DEF Single, PartOf, Sees
  <2> QED
    BY <1>2, <2>1, <2>2
<1>8. ast' = Grown(nd) /\ frames' = After(<<>>) /\ Advance(1)
  BY <1>5, <1>6 DEF Literal
<1>9. Readable(ast', frames')
  BY <1>2, <1>6, <1>7, <1>8, StepLeaf
<1> QED
  BY <1>3, <1>4, <1>8, <1>9, Reads

LEMMA CallValueKeeps ==
  ASSUME IInv, CallValue
  PROVE  IInv'
<1>1. PICK x \in Items, g \in Seq(Items), h \in DOMAIN ast, l \in Looks :
        Reading(x, g, h, l) /\ x.op = "unary"
  BY NextItem DEF CallValue
<1>2. phase = "reading"
  BY <1>1 DEF Reading
<1>3. Sees({"name"}) /\ "eof" \notin {"name"} /\ Peek(1).kind = "(" /\ Advance(2)
  BY DEF CallValue
<1>4. PICK v \in Names : v = Peek(0).name
  BY <1>3, SeesToken, TokenFacts
<1>5. PICK par \in ParallelTypes :
        Begins([Blank("call") EXCEPT !.name = v, !.par = par], <<List("arguments"), Eat(")")>>, <<>>)
  BY <1>4 DEF CallValue
<1>6. PICK nd \in Node : /\ nd = [Blank("call") EXCEPT !.name = v, !.par = par]
                         /\ nd.kids = <<>> /\ nd.kind = "call" /\ nd.par = par /\ nd.name = v
  <2>1. "call" \in Kinds
    BY DEF Kinds, StmtKinds
  <2>2. PICK b \in Node : b = Blank("call") /\ b.kids = <<>> /\ b.kind = "call"
    BY <2>1, BlankFacts
  <2>3. /\ [b EXCEPT !.name = v, !.par = par] \in Node
        /\ [b EXCEPT !.name = v, !.par = par].kids = <<>>
        /\ [b EXCEPT !.name = v, !.par = par].kind = "call"
        /\ [b EXCEPT !.name = v, !.par = par].par = par
        /\ [b EXCEPT !.name = v, !.par = par].name = v
    BY <2>2 DEF Node
  <2> QED
    BY <2>2, <2>3
<1>7. /\ PlainPar(nd) /\ Face(nd) = [kind |-> "call", par |-> par]
      /\ Start(nd) \in Looks /\ Start(nd).kids = <<>> /\ Start(nd).kind = "call"
      /\ Start(nd).name \in Names
  BY <1>6, CallStart
<1>8. x.op \in Single /\ Face(nd) \in PartOf(x)
  <2>1. Face(nd) \in ExprFaces
    BY <1>7 DEF ExprFaces, Faces, Kinds, ExprKinds
  <2> QED
    BY <1>1, <2>1 DEF Single, PartOf
<1>9. PICK c : c = <<List("arguments"), Eat(")")>>
  OBVIOUS
<1>10. c \in Seq(Items) /\ Leads(c, Start(nd), GoodLooks)
  BY <1>7, <1>9, ArgumentsLead
<1>11. Begins(nd, c, <<>>)
  BY <1>5, <1>6, <1>9
<1>12. Readable(ast', frames')
  BY <1>1, <1>6, <1>7, <1>8, <1>10, <1>11, StepBeginsPart
<1>13. pos + 2 \in 0 .. Len(source)
  BY <1>3, SeesTwo
<1> QED
  BY <1>2, <1>3, <1>12, <1>13, Keeps DEF Advance

LEMMA ParenthesisKeeps ==
  ASSUME IInv, Parenthesis
  PROVE  IInv'
<1>1. PICK x \in Items, g \in Seq(Items), h \in DOMAIN ast, l \in Looks :
        Reading(x, g, h, l) /\ x.op = "unary"
  BY NextItem DEF Parenthesis
<1>2. phase = "reading" /\ \A m \in Effect(x, l) : Leads(g, m, GoodLooks)
  BY <1>1 DEF Reading
<1>3. PICK items : items = Expression \o <<Eat(")")>>
  OBVIOUS
<1>4. items \in Seq(Items) /\ Leads(items \o g, l, GoodLooks)
  BY <1>1, <1>2, <1>3, InParentheses
<1>5. frames' = After(items) /\ ast' = ast /\ Advance(1) /\ Sees({"("}) /\ "eof" \notin {"("}
  BY <1>3 DEF Parenthesis
<1>6. Readable(ast', frames')
  BY <1>1, <1>4, <1>5, StepAlone
<1> QED
  BY <1>2, <1>5, <1>6, Reads

-----------------------------------------------------------------------------
(* A call returns, or the descent ends. *)

LEMMA ReturnKeeps ==
  ASSUME IInv, Return
  PROVE  IInv'
<1>1. /\ phase = "reading" /\ frames # <<>> /\ frames[1].todo = <<>>
      /\ Readable(ast, frames) /\ frames' = Tail(frames) /\ UNCHANGED <<source, pos, phase, ast>>
  BY DEF Return, IInv, Todo
<1>2. Readable(ast, Tail(frames))
  BY <1>1, CallEnds
<1>3. Readable(ast', frames')
  BY <1>1, <1>2
<1> QED
  BY <1>1, <1>3, Stays

LEMMA FinishKeeps ==
  ASSUME IInv, Finish
  PROVE  IInv'
BY DEF IInv, Finish

LEMMA FailuresKeep ==
  ASSUME IInv, ConsumeFails \/ AssignFails \/ NameMissing \/ StatementFails \/ PrimaryFails
  PROVE  IInv'
<1>1. phase = "reading" /\ Fail
  BY DEF ConsumeFails, AssignFails, NameMissing, StatementFails, PrimaryFails, At
<1> QED
  BY <1>1, FailKeeps

LEMMA StepKeeps ==
  ASSUME IInv, Next
  PROVE  IInv'
<1>1. CASE Statements
  <2>1. \/ PrintStatement \/ IfStatement \/ ElseIf \/ ElseBlock \/ NoElse \/ ParseBlock
        \/ VarDeclaration \/ TypeWord \/ TypeMissing \/ Value \/ VarUpdate \/ Assign
        \/ ForLoop \/ ThreadedLoop \/ ThreadBlock \/ ThreadBody \/ ThreadStatement
        \/ ProcessStatement \/ FunctionCall \/ Function \/ Param
        \/ ReturnStatement \/ ParseAwait \/ AssignFails \/ NameMissing \/ StatementFails
    BY <1>1 DEF Statements
  <2> QED
    BY <2>1, PrintKeeps, IfKeeps, ElseKeeps, BlockKeeps, DeclarationKeeps, TypeKeeps, ValueKeeps,
       UpdateKeeps, AssignKeeps, LoopKeeps, InThreadKeeps, CallKeeps, FunctionKeeps, ParamKeeps,
       ReturnStatementKeeps, AwaitKeeps, FailuresKeep
<1>2. CASE Expressions
  BY <1>2, OperatorKeeps, NoOperatorKeeps, JoinKeeps, NegationKeeps, LiteralKeeps, CallValueKeeps,
     ParenthesisKeeps, FailuresKeep DEF Expressions
<1>3. CASE ~Statements /\ ~Expressions
  BY <1>3, ConsumeKeeps, ListGoesOnKeeps, ListEndsKeeps, CommaKeeps, ReturnKeeps, FinishKeeps,
     FailuresKeep DEF Next
<1> QED
  BY <1>1, <1>2, <1>3

LEMMA InitKeeps ==
  ASSUME Sources \subseteq Seq(Token), Init
  PROVE  IInv
<1>1. "program" \in Kinds
  BY DEF Kinds
<1>2. PICK nd \in Node : /\ nd = Blank("program") /\ nd.kids = <<>> /\ PlainPar(nd)
                         /\ nd.kind = "program" /\ Start(nd) \in Looks
                         /\ Start(nd).kids = <<>> /\ Start(nd).kind = "program"
  BY <1>1, BlankStart, BlankFacts
<1>3. PICK t \in Seq(Node) : t = <<nd>> /\ Len(t) = 1 /\ DOMAIN t = 1 .. 1 /\ t[1] = nd
  <2>1. <<nd>> \in Seq(Node) /\ Len(<<nd>>) = 1 /\ DOMAIN <<nd>> = 1 .. 1 /\ <<nd>>[1] = nd
    OBVIOUS
  <2> QED
    BY <2>1
<1>4. PICK c \in Seq(Items) : c = <<List("program")>>
  BY <1>2, ProgramLeads
<1>5. Leads(c, Start(nd), GoodLooks)
  BY <1>2, <1>4, ProgramLeads
<1>6. \A p, k : ~Under(t, p, k)
  BY <1>2, <1>3 DEF Under
<1>7. TreeOK(t) /\ AtTheEnd(t, 1)
  <2>1. OnePlace(t) /\ After1(t) /\ Nested(t)
    BY <1>3, <1>6 DEF OnePlace, After1, Nested
  <2>2. Increasing(t) /\ \A n \in DOMAIN t : PlainPar(t[n])
    BY <1>2, <1>3 DEF Increasing
  <2>3. t # <<>> /\ t[1].kind = "program"
    BY <1>2, <1>3
  <2>4. AtTheEnd(t, 1)
    BY <1>6 DEF AtTheEnd
  <2> QED
    BY <2>1, <2>2, <2>3, <2>4 DEF TreeOK
<1>8. Look(t, 1) = Start(nd)
  <2>1. DOMAIN nd.kids = {}
    BY <1>2
  <2>2. [i \in DOMAIN nd.kids |-> Face(t[nd.kids[i]])] = <<>>
    BY <2>1
  <2> QED
    BY <1>3, <2>2 DEF Look, Start
<1>9. PICK f \in CallFrame : f = [node |-> 1, todo |-> c] /\ f.node = 1 /\ f.todo = c
  <2>1. [node |-> 1, todo |-> c] \in CallFrame
    BY DEF CallFrame
  <2> QED
    BY <2>1
<1>10. PICK fs \in Seq(CallFrame) : fs = <<f>> /\ DOMAIN fs = 1 .. 1 /\ fs[1] = f
  <2>1. <<f>> \in Seq(CallFrame) /\ DOMAIN <<f>> = 1 .. 1 /\ <<f>>[1] = f
    OBVIOUS
  <2> QED
    BY <2>1
<1>11. CallsOK(t, fs)
  <2>1. \A i \in DOMAIN fs : i = 1
    BY <1>10
  <2>2. /\ fs[1].node \in DOMAIN t /\ AtTheEnd(t, fs[1].node)
        /\ Leads(fs[1].todo, Look(t, fs[1].node), GoodLooks)
    BY <1>3, <1>5, <1>7, <1>8, <1>9, <1>10
  <2>3. \A i, j \in DOMAIN fs : ~(i < j)
    BY <1>10
  <2> QED
    BY <2>1, <2>2, <2>3 DEF CallsOK
<1>12. Closed(t, fs)
  <2>1. \A n \in DOMAIN t : n = 1
    BY <1>3
  <2>2. 1 \in DOMAIN fs /\ fs[1].node = 1
    BY <1>9, <1>10
  <2> QED
    BY <2>1, <2>2 DEF Closed
<1>13. ast = t /\ frames = fs
  BY <1>2, <1>3, <1>4, <1>9, <1>10 DEF Init
<1>14. source \in Seq(Token) /\ pos \in 0 .. Len(source) /\ phase = "reading"
  BY DEF Init
<1> QED
  BY <1>7, <1>11, <1>12, <1>13, <1>14 DEF IInv, Readable

LEMMA TypesHold == IInv => TypeOK
BY DEF IInv, TypeOK, Readable, TreeOK, CallsOK

LEMMA TreeIsWellFormed == IInv => WellFormedTree
<1> SUFFICES ASSUME IInv, phase = "parsed" PROVE WellFormed(ast)
  BY DEF WellFormedTree
<1>1. frames = <<>> /\ TreeOK(ast) /\ Closed(ast, frames)
  BY DEF IInv, Readable
<1>2. \A n \in DOMAIN ast : Look(ast, n) \in GoodLooks
  BY <1>1 DEF Closed
<1>3. \A n \in DOMAIN ast : Shape(ast, n)
  BY <1>1, <1>2, GoodShape DEF GoodLooks
<1> QED
  BY <1>1, <1>3, TreeWellFormed

-----------------------------------------------------------------------------
(* The theorems *)

LEMMA IInvHolds ==
  ASSUME Sources \subseteq Seq(Token)
  PROVE  Spec => []IInv
<1>1. Init => IInv
  BY InitKeeps
<1>2. IInv /\ [Next]_vars => IInv'
  <2>1. ASSUME IInv, UNCHANGED vars PROVE IInv'
    BY <2>1 DEF IInv, vars, descent
  <2> QED
    BY <2>1, StepKeeps
<1> QED
  BY <1>1, <1>2, PTL DEF Spec

(* At any time the parser is in the text, its table is one of nodes, and   *)
(* each call of the descent works on a node of the table.                  *)
THEOREM TypeOKHolds ==
  ASSUME Sources \subseteq Seq(Token)
  PROVE  Spec => []TypeOK
BY TypesHold, IInvHolds, PTL

(* Whatever the program text, a tree that parse returns is well formed:    *)
(* the nodes that a call reads are of the kinds that its node needs, and   *)
(* an operator takes over its operands at the place of the left one.       *)
THEOREM WellFormedTreeHolds ==
  ASSUME Sources \subseteq Seq(Token)
  PROVE  Spec => []WellFormedTree
BY TreeIsWellFormed, IInvHolds, PTL

-----------------------------------------------------------------------------
(* Concatenation, over which the library has no theorem: what holds of a   *)
(* list and of one more element is shown by the least counterexample.      *)

NatLess == OpToRel(<, Nat)

LEMMA LeastElement ==
  ASSUME NEW T \in SUBSET Nat, T # {}
  PROVE  \E x \in T : \A y \in T : x <= y
<1>1. IsWellFoundedOn(NatLess, Nat)
  BY NatLessThanWellFounded DEF NatLess
<1>2. PICK x \in T : \A y \in T : ~(<<y, x>> \in NatLess)
  BY <1>1, WFMin
<1>3. ASSUME NEW y \in T PROVE x <= y
  <2>1. x \in Nat /\ y \in Nat
    OBVIOUS
  <2>2. ~(y < x)
    BY <1>2, <2>1 DEF NatLess, OpToRel
  <2> QED
    BY <2>1, <2>2
<1> QED
  BY <1>3

Join2(a, b) == a \o b

(* The first i of the lists of s, one after the other *)
Gathered(s, n, f) == f = [i \in 1 .. n |-> IF i = 1 THEN s[i] ELSE Join2(f[i - 1], s[i])]

LEMMA GatheredNext ==
  ASSUME NEW s, NEW n \in Nat \ {0}, NEW f, Gathered(s, n, f)
  PROVE  \E g : /\ Gathered(s, n + 1, g) /\ g[n + 1] = Join2(f[n], s[n + 1])
                /\ \A i \in 1 .. n : g[i] = f[i]
<1> DEFINE g == [i \in 1 .. n + 1 |-> IF i = n + 1 THEN Join2(f[n], s[n + 1]) ELSE f[i]]
<1>1. g[n + 1] = Join2(f[n], s[n + 1]) /\ \A i \in 1 .. n : g[i] = f[i]
  <2>1. n \in Nat /\ n + 1 \in 1 .. n + 1
    OBVIOUS
  <2>2. \A i \in 1 .. n : i # n + 1 /\ i \in 1 .. n + 1
    BY <2>1
  <2> QED
    BY <2>1, <2>2
<1>2. \A i \in 1 .. n : f[i] = IF i = 1 THEN s[i] ELSE Join2(f[i - 1], s[i])
  BY DEF Gathered
<1>3. ASSUME NEW i \in 1 .. n + 1
      PROVE  g[i] = IF i = 1 THEN s[i] ELSE Join2(g[i - 1], s[i])
  <2>1. CASE i = n + 1
    <3>1. i # 1 /\ i - 1 = n
      BY <2>1
    <3> HIDE DEF g
    <3> QED
      BY <1>1, <2>1, <3>1
  <2>2. CASE i # n + 1
    <3>1. i \in 1 .. n /\ (i # 1 => i - 1 \in 1 .. n)
      BY <2>2
    <3> HIDE DEF g
    <3> QED
      BY <1>1, <1>2, <3>1
  <2> QED
    BY <2>1, <2>2
<1>4. g = [i \in 1 .. n + 1 |-> g[i]]
  OBVIOUS
<1> HIDE DEF g
<1>5. Gathered(s, n + 1, g)
  BY <1>3, <1>4 DEF Gathered
<1> QED
  BY <1>1, <1>5

LEMMA GatheredExists ==
  ASSUME NEW s, NEW n \in Nat \ {0}
  PROVE  \E f : Gathered(s, n, f)
<1> DEFINE Bad == {k \in Nat \ {0} : ~ \E f : Gathered(s, k, f)}
<1> SUFFICES ASSUME Bad # {} PROVE FALSE
  OBVIOUS
<1>1. PICK k \in Bad : \A m \in Bad : k <= m
  <2>1. Bad \in SUBSET Nat
    OBVIOUS
  <2> QED
    BY <2>1, LeastElement
<1>2. CASE k = 1
  <2> DEFINE f == [i \in 1 .. 1 |-> s[1]]
  <2>1. \A i \in 1 .. 1 : i = 1
    OBVIOUS
  <2>2. f = [i \in 1 .. 1 |-> IF i = 1 THEN s[i] ELSE Join2(f[i - 1], s[i])]
    BY <2>1
  <2> HIDE DEF f
  <2> QED
    BY <1>1, <1>2, <2>2 DEF Gathered
<1>3. CASE k # 1
  <2>1. k - 1 \in Nat \ {0} /\ (k - 1) + 1 = k /\ ~(k <= k - 1)
    BY <1>3
  <2>2. PICK f : Gathered(s, k - 1, f)
    BY <1>1, <2>1
  <2> QED
    BY <1>1, <2>1, <2>2, GatheredNext
<1> QED
  BY <1>2, <1>3

LEMMA GatheredAgree ==
  ASSUME NEW s, NEW t, NEW m \in Nat \ {0}, NEW n \in Nat, m <= n,
         NEW f, NEW g, Gathered(s, m, f), Gathered(t, n, g), \A i \in 1 .. m : s[i] = t[i]
  PROVE  \A i \in 1 .. m : f[i] = g[i]
<1> DEFINE Bad == {i \in 1 .. m : f[i] # g[i]}
<1> SUFFICES ASSUME Bad # {} PROVE FALSE
  OBVIOUS
<1>1. PICK k \in Bad : \A i \in Bad : k <= i
  <2>1. Bad \in SUBSET Nat
    OBVIOUS
  <2> QED
    BY <2>1, LeastElement
<1>2. /\ f[k] = IF k = 1 THEN s[k] ELSE Join2(f[k - 1], s[k])
      /\ g[k] = IF k = 1 THEN t[k] ELSE Join2(g[k - 1], t[k])
  <2>1. k \in 1 .. m /\ k \in 1 .. n
    BY <1>1
  <2>2. f[k] = IF k = 1 THEN s[k] ELSE Join2(f[k - 1], s[k])
    BY <2>1, Zenon DEF Gathered
  <2>3. g[k] = IF k = 1 THEN t[k] ELSE Join2(g[k - 1], t[k])
    BY <2>1, Zenon DEF Gathered
  <2> QED
    BY <2>2, <2>3
<1>3. k # 1 => f[k - 1] = g[k - 1]
  <2>1. k # 1 => k - 1 \in 1 .. m /\ ~(k <= k - 1)
    BY <1>1
  <2> QED
    BY <1>1, <2>1
<1> QED
  BY <1>1, <1>2, <1>3

Flat(s) == S!FlattenSeq(s)

LEMMA FlatIs ==
  ASSUME NEW X, NEW s \in Seq(Seq(X)), s # <<>>, NEW f, Gathered(s, Len(s), f)
  PROVE  Flat(s) = f[Len(s)]
<1>1. Len(s) \in Nat \ {0}
  OBVIOUS
<1>2. Flat(s) = (CHOOSE g : Gathered(s, Len(s), g))[Len(s)]
  BY <1>1 DEF Flat, S!FlattenSeq, Gathered, Join2
<1>3. PICK g : g = (CHOOSE h : Gathered(s, Len(s), h)) /\ Gathered(s, Len(s), g)
  BY <1>1, GatheredExists
<1> QED
  BY <1>1, <1>2, <1>3, GatheredAgree

LEMMA FlatAppend ==
  ASSUME NEW X, NEW s \in Seq(Seq(X)), NEW x \in Seq(X)
  PROVE  Flat(Append(s, x)) = IF s = <<>> THEN x ELSE Flat(s) \o x
<1>1. PICK n \in Nat : n = Len(s) /\ DOMAIN s = 1 .. n
  OBVIOUS
<1>2. PICK t \in Seq(Seq(X)) : t = Append(s, x) /\ Len(t) = n + 1 /\ t[n + 1] = x
                               /\ t # <<>> /\ \A i \in 1 .. n : t[i] = s[i]
  <2>1. /\ Append(s, x) \in Seq(Seq(X)) /\ Len(Append(s, x)) = n + 1
        /\ Append(s, x)[n + 1] = x /\ \A i \in 1 .. n : Append(s, x)[i] = s[i]
    BY <1>1, AppendProperties
  <2>2. Append(s, x) # <<>>
    BY <1>1, <2>1
  <2> QED
    BY <2>1, <2>2
<1>3. CASE s = <<>>
  <2>1. PICK f : Gathered(t, 1, f)
    <3>1. 1 \in Nat \ {0}
      OBVIOUS
    <3> QED
      BY <3>1, GatheredExists
  <2>2. f[1] = t[1] /\ n = 0
    BY <1>1, <1>3, <2>1 DEF Gathered
  <2>3. Len(t) = 1 /\ Gathered(t, Len(t), f)
    BY <1>2, <2>1, <2>2
  <2>4. Flat(t) = f[1]
    BY <1>2, <2>3, FlatIs, ZenonT(40)
  <2> QED
    BY <1>2, <1>3, <2>2, <2>4
<1>4. CASE s # <<>>
  <2>1. n \in Nat \ {0}
    BY <1>1, <1>4
  <2>2. PICK f : Gathered(t, n, f)
    BY <2>1, GatheredExists
  <2>3. PICK g : Gathered(t, n + 1, g) /\ g[n + 1] = Join2(f[n], t[n + 1])
    <3>1. n \in Nat \ {0} /\ Gathered(t, n, f)
      BY <2>1, <2>2
    <3>2. \E g : /\ Gathered(t, n + 1, g) /\ g[n + 1] = Join2(f[n], t[n + 1])
                /\ \A i \in 1 .. n : g[i] = f[i]
      BY <3>1, GatheredNext
    <3> QED
      BY <3>2
  <2>4. PICK h : Gathered(s, n, h)
    BY <2>1, GatheredExists
  <2>5. h[n] = f[n]
    <3>1. n \in Nat /\ n <= n /\ n \in 1 .. n /\ \A i \in 1 .. n : s[i] = t[i]
      BY <1>2, <2>1
    <3>2. Gathered(s, n, h) /\ Gathered(t, n, f)
      BY <2>2, <2>4
    <3>3. \A i \in 1 .. n : h[i] = f[i]
      BY <2>1, <3>1, <3>2, GatheredAgree, SMTT(60)
    <3> QED
      BY <3>1, <3>3
  <2>6. Flat(s) = h[n]
    BY <1>1, <1>4, <2>4, FlatIs
  <2>7. Flat(t) = g[n + 1]
    BY <1>2, <2>3, FlatIs
  <2> QED
    BY <1>2, <1>4, <2>3, <2>5, <2>6, <2>7 DEF Join2
<1> QED
  BY <1>3, <1>4

LongerBy(t, s, x) ==
  t = Append(s, x) /\ Len(t) = Len(s) + 1 /\ t[Len(s) + 1] = x /\ \A i \in 1 .. Len(s) : t[i] = s[i]

LEMMA OneMore ==
  ASSUME NEW X, NEW s \in Seq(Seq(X)), NEW x \in Seq(X)
  PROVE  \E t \in Seq(Seq(X)) : LongerBy(t, s, x)
<1>1. Append(s, x) \in Seq(Seq(X)) /\ LongerBy(Append(s, x), s, x)
  BY AppendProperties DEF LongerBy
<1> QED
  BY <1>1

LEMMA FlatEmpty == Flat(<<>>) = <<>>
<1>1. Len(<<>>) = 0
  OBVIOUS
<1> QED
  BY <1>1 DEF Flat, S!FlattenSeq

LEMMA FlatTyped ==
  ASSUME NEW X, NEW s \in Seq(Seq(X))
  PROVE  Flat(s) \in Seq(X)
<1> DEFINE Bad == {k \in Nat : \E t \in Seq(Seq(X)) : Len(t) = k /\ ~(Flat(t) \in Seq(X))}
<1>1. ASSUME Bad # {} PROVE FALSE
  <2>1. PICK k \in Bad : \A m \in Bad : k <= m
    <3>1. Bad \in SUBSET Nat
      OBVIOUS
    <3> QED
      BY <1>1, <3>1, LeastElement
  <2>2. PICK t \in Seq(Seq(X)) : Len(t) = k /\ ~(Flat(t) \in Seq(X))
    BY <2>1
  <2>3. t # <<>>
    BY <2>2, FlatEmpty
  <2>4. PICK u \in Seq(Seq(X)), x \in Seq(X) : t = Append(u, x)
    BY <2>3, SequenceEmptyOrAppend
  <2>5. Len(u) \in Nat /\ k = Len(u) + 1
    BY <2>2, <2>4, AppendProperties
  <2>6. Flat(u) \in Seq(X)
    <3>1. ~(Len(u) \in Bad)
      <4>1. ~(k <= Len(u))
        BY <2>5
      <4> QED
        BY <2>1, <4>1
    <3> QED
      BY <2>5, <3>1
  <2>7. Flat(t) = IF u = <<>> THEN x ELSE Flat(u) \o x
    BY <2>4, FlatAppend
  <2> QED
    BY <2>2, <2>6, <2>7
<1>2. Len(s) \in Nat
  OBVIOUS
<1> QED
  BY <1>1, <1>2

LEMMA Associative ==
  ASSUME NEW X, NEW a \in Seq(X), NEW b \in Seq(X), NEW c \in Seq(X)
  PROVE  Join2(Join2(a, b), c) = Join2(a, Join2(b, c))
<1>1. (a \o b) \o c = a \o (b \o c)
  OBVIOUS
<1> QED
  BY <1>1 DEF Join2

LEMMA FlatMore ==
  ASSUME NEW X, NEW s \in Seq(Seq(X)), NEW x \in Seq(X)
  PROVE  Flat(Append(s, x)) = Flat(s) \o x
<1>1. Flat(Append(s, x)) = IF s = <<>> THEN x ELSE Flat(s) \o x
  BY FlatAppend
<1>2. s = <<>> => Flat(s) \o x = x
  BY FlatEmpty, ConcatEmptySeq
<1> QED
  BY <1>1, <1>2

LastGrew(s, t, w, n) == t[n] = Join2(s[n], w) /\ \A i \in 1 .. n - 1 : t[i] = s[i]

LEMMA FlatLast ==
  ASSUME NEW X, NEW s \in Seq(Seq(X)), NEW t \in Seq(Seq(X)), NEW w \in Seq(X),
         NEW n \in Nat \ {0}, n = Len(s), Len(t) = n, LastGrew(s, t, w, n)
  PROVE  Flat(t) = Join2(Flat(s), w)
<1>0. t[n] = Join2(s[n], w) /\ \A i \in 1 .. n - 1 : t[i] = s[i]
  BY DEF LastGrew
<1>1. PICK u \in Seq(Seq(X)), x \in Seq(X) : s = Append(u, x)
  <2>1. s # <<>>
    OBVIOUS
  <2> QED
    BY <2>1, SequenceEmptyOrAppend
<1>2. Len(u) \in Nat /\ n = Len(u) + 1 /\ s[n] = x /\ \A i \in 1 .. Len(u) : s[i] = u[i]
  BY <1>1, AppendProperties
<1>3. PICK xw \in Seq(X) : xw = Join2(x, w)
  <2>1. x \o w \in Seq(X)
    BY ConcatProperties
  <2> QED
    BY <2>1, Zenon DEF Join2
<1>4. PICK v \in Seq(Seq(X)) : LongerBy(v, u, xw)
  BY OneMore
<1>5. t = v
  <2>1. Len(t) = Len(v)
    BY <1>2, <1>4, AppendProperties DEF LongerBy
  <2>2. \A i \in 1 .. Len(t) : t[i] = v[i]
    <3>1. t[n] = v[n]
      BY <1>0, <1>2, <1>3, <1>4 DEF LongerBy
    <3>2. ASSUME NEW i \in 1 .. Len(u) PROVE t[i] = v[i]
      <4>1. i \in 1 .. n - 1
        BY <1>2
      <4>2. t[i] = s[i]
        BY <1>0, <4>1
      <4>4. s[i] = u[i]
        BY <1>2
      <4>3. v[i] = u[i]
        BY <1>4 DEF LongerBy
      <4> QED
        BY <4>2, <4>3, <4>4
    <3>3. Len(u) \in Nat /\ Len(t) = Len(u) + 1
      BY <1>2
    <3>4. \A i \in 1 .. Len(t) : i = n \/ i \in 1 .. Len(u)
      BY <1>2, <3>3
    <3> QED
      BY <3>1, <3>2, <3>4, Zenon
  <2> QED
    BY <2>1, <2>2, SeqEqual
<1>6. Flat(u) \in Seq(X) /\ Flat(s) = Join2(Flat(u), x) /\ Flat(t) = Join2(Flat(u), xw)
  BY <1>1, <1>4, <1>5, FlatMore, FlatTyped DEF LongerBy, Join2
<1>7. PICK a \in Seq(X) : a = Flat(u)
  BY <1>6
<1>8. Join2(Join2(a, x), w) = Join2(a, Join2(x, w))
  BY Associative
<1> QED
  BY <1>3, <1>6, <1>7, <1>8

(* The list s with an empty list at l *)
Inserted(s, l) ==
  [n \in 1 .. Len(s) + 1 |-> IF n < l THEN s[n] ELSE IF n = l THEN <<>> ELSE s[n - 1]]

LEMMA InsertedTyped ==
  ASSUME NEW X, NEW s \in Seq(Seq(X)), NEW l \in 1 .. Len(s) + 1
  PROVE  /\ Inserted(s, l) \in Seq(Seq(X))
         /\ Len(Inserted(s, l)) = Len(s) + 1
         /\ \A n \in 1 .. Len(s) + 1 :
              Inserted(s, l)[n] = IF n < l THEN s[n] ELSE IF n = l THEN <<>> ELSE s[n - 1]
<1>1. Len(s) \in Nat /\ <<>> \in Seq(X)
  OBVIOUS
<1>2. \A n \in 1 .. Len(s) + 1 :
        (IF n < l THEN s[n] ELSE IF n = l THEN <<>> ELSE s[n - 1]) \in Seq(X)
  <2> TAKE n \in 1 .. Len(s) + 1
  <2>1. CASE n < l
    <3>1. n \in 1 .. Len(s)
      BY <1>1, <2>1
    <3> QED
      BY <2>1, <3>1, ElementOfSeq
  <2>2. CASE n = l
    BY <1>1, <2>2
  <2>3. CASE l < n
    <3>1. n - 1 \in 1 .. Len(s) /\ n # l /\ ~(n < l)
      BY <1>1, <2>3
    <3>2. s[n - 1] \in Seq(X)
      BY <3>1, ElementOfSeq
    <3> QED
      BY <3>1, <3>2
  <2> QED
    BY <1>1, <2>1, <2>2, <2>3
<1> DEFINE f == Inserted(s, l)
<1>3. f \in [1 .. Len(s) + 1 -> Seq(X)]
  BY <1>2 DEF Inserted
<1>4. f \in Seq(Seq(X)) /\ Len(f) = Len(s) + 1
  <2> HIDE DEF f
  <2>1. PICK n \in Nat : n = Len(s) + 1
    BY <1>1
  <2>2. DOMAIN f = 1 .. n
    BY <1>3, <2>1
  <2>3. f \in Seq(Seq(X))
    BY <1>3, <2>1, IsASeq, SMTT(30)
  <2> QED
    BY <2>1, <2>2, <2>3, LenProperties
<1> QED
  BY <1>4 DEF Inserted

LEMMA FlatInserted ==
  ASSUME NEW X, NEW s \in Seq(Seq(X)), NEW l \in 1 .. Len(s) + 1
  PROVE  Flat(Inserted(s, l)) = Flat(s)
<1> DEFINE Bad == {k \in Nat : \E t \in Seq(Seq(X)) : Len(t) = k /\ \E m \in 1 .. k + 1 :
                                  Flat(Inserted(t, m)) # Flat(t)}
<1>1. ASSUME Bad # {} PROVE FALSE
  <2>1. PICK k \in Bad : \A m \in Bad : k <= m
    <3>1. Bad \in SUBSET Nat
      OBVIOUS
    <3> QED
      BY <1>1, <3>1, LeastElement
  <2>2. PICK t \in Seq(Seq(X)), m \in 1 .. k + 1 : Len(t) = k /\ Flat(Inserted(t, m)) # Flat(t)
    BY <2>1
  <2>3. PICK y \in Seq(Seq(X)) :
          /\ y = Inserted(t, m) /\ Len(y) = k + 1
          /\ \A n \in 1 .. k + 1 :
               y[n] = IF n < m THEN t[n] ELSE IF n = m THEN <<>> ELSE t[n - 1]
    <3>1. m \in 1 .. Len(t) + 1
      BY <2>2
    <3>2. /\ Inserted(t, m) \in Seq(Seq(X)) /\ Len(Inserted(t, m)) = k + 1
          /\ \A n \in 1 .. k + 1 :
               Inserted(t, m)[n] = IF n < m THEN t[n] ELSE IF n = m THEN <<>> ELSE t[n - 1]
      BY <2>2, <3>1, InsertedTyped
    <3> QED
      BY <3>2
  <2>4. CASE m = k + 1
    <3>1. <<>> \in Seq(X) /\ k \in Nat
      OBVIOUS
    <3>2. PICK v \in Seq(Seq(X)) : v = Append(t, <<>>) /\ Len(v) = k + 1
                       /\ v[k + 1] = <<>> /\ \A i \in 1 .. k : v[i] = t[i]
      <4>1. PICK v \in Seq(Seq(X)) : LongerBy(v, t, <<>>)
        BY <3>1, OneMore
      <4> QED
        BY <2>2, <4>1 DEF LongerBy
    <3>3. \A i \in 1 .. k + 1 : y[i] = v[i]
      BY <2>3, <2>4, <3>1, <3>2
    <3>4. y = v
      BY <2>3, <3>2, <3>3, SeqEqual
    <3>5. Flat(y) = Flat(t) \o <<>> /\ Flat(t) \in Seq(X)
      BY <3>1, <3>2, <3>4, FlatMore, FlatTyped
    <3> QED
      BY <2>2, <2>3, <3>5, ConcatEmptySeq
  <2>5. CASE m # k + 1
    <3>1. k \in Nat \ {0} /\ m \in 1 .. k
      BY <2>5
    <3>2. t # <<>>
      BY <2>2, <3>1
    <3>3. PICK u \in Seq(Seq(X)), x \in Seq(X) : t = Append(u, x)
      BY <3>2, SequenceEmptyOrAppend
    <3>4. Len(u) \in Nat /\ k = Len(u) + 1 /\ t[k] = x /\ \A i \in 1 .. Len(u) : t[i] = u[i]
      BY <2>2, <3>3, AppendProperties
    <3>5. m \in 1 .. Len(u) + 1
      BY <3>1, <3>4
    <3>6. PICK z \in Seq(Seq(X)) :
          /\ z = Inserted(u, m) /\ Len(z) = Len(u) + 1
          /\ \A n \in 1 .. Len(u) + 1 :
               z[n] = IF n < m THEN u[n] ELSE IF n = m THEN <<>> ELSE u[n - 1]
      BY <3>5, InsertedTyped
    <3>7. PICK v \in Seq(Seq(X)) : v = Append(z, x) /\ Len(v) = k + 1
                       /\ v[k + 1] = x /\ \A i \in 1 .. k : v[i] = z[i]
      <4>1. k = Len(z)
        BY <3>4, <3>6
      <4>2. PICK v \in Seq(Seq(X)) : LongerBy(v, z, x)
        BY OneMore
      <4> QED
        BY <4>1, <4>2 DEF LongerBy
    <3>8. \A i \in 1 .. k + 1 : y[i] = v[i]
      <4> TAKE i \in 1 .. k + 1
      <4>1. CASE i = k + 1
        <5>1. y[i] = t[i - 1] /\ i - 1 = k
          <6>1. ~(i < m) /\ i # m /\ i - 1 = k
            BY <3>1, <4>1
          <6> QED
            BY <2>3, <6>1
        <5> QED
          BY <3>4, <3>7, <4>1, <5>1
      <4>2. CASE i # k + 1
        <5>1. i \in 1 .. k /\ i \in 1 .. Len(u) + 1
          BY <3>4, <4>2, SMTT(30)
        <5>2. v[i] = IF i < m THEN u[i] ELSE IF i = m THEN <<>> ELSE u[i - 1]
          BY <3>6, <3>7, <5>1
        <5>3. y[i] = IF i < m THEN t[i] ELSE IF i = m THEN <<>> ELSE t[i - 1]
          BY <2>3
        <5>4. (i < m => i \in 1 .. Len(u)) /\ (m < i => i - 1 \in 1 .. Len(u))
          <6>1. PICK c \in Nat : c = Len(u)
            BY <3>4
          <6>2. i \in 1 .. c + 1 /\ m \in 1 .. c + 1
            BY <3>5, <5>1, <6>1
          <6>3. (i < m => i \in 1 .. c) /\ (m < i => i - 1 \in 1 .. c)
            BY <6>2
          <6> QED
            BY <6>1, <6>3
        <5>5. (i < m => u[i] = t[i]) /\ (m < i => u[i - 1] = t[i - 1])
          BY <3>4, <5>4
        <5>6. i < m \/ i = m \/ m < i
          OBVIOUS
        <5> QED
          BY <5>2, <5>3, <5>5, <5>6
      <4> QED
        BY <4>1, <4>2
    <3>9. y = v
      <4>1. /\ y \in Seq(Seq(X)) /\ v \in Seq(Seq(X)) /\ Len(y) = Len(v)
            /\ Len(y) = k + 1
        BY <2>3, <3>7
      <4>2. \A i \in 1 .. Len(y) : y[i] = v[i]
        BY <3>8, <4>1
      <4> QED
        BY <4>1, <4>2, SeqEqual, ZenonT(40)
    <3>10. Flat(z) = Flat(u)
      <4>1. ~(Len(u) \in Bad)
        <5>1. ~(k <= Len(u))
          BY <3>4
        <5> QED
          BY <2>1, <5>1
      <4> QED
        BY <3>4, <3>5, <3>6, <4>1
    <3>11. Flat(y) = Flat(z) \o x /\ Flat(t) = Flat(u) \o x
      BY <3>3, <3>7, <3>9, FlatMore
    <3> QED
      BY <2>2, <2>3, <3>10, <3>11
  <2> QED
    BY <2>4, <2>5
<1>2. Len(s) \in Nat
  OBVIOUS
<1> QED
  BY <1>1, <1>2

-----------------------------------------------------------------------------
(* What a node and a token stand for *)

Pieces == {<<"text">>} \cup ({"number"} \X Int) \cup ({"name"} \X Names)

Listed(ps) == [i \in DOMAIN ps |-> <<"name", ps[i].name>>]

Numbered(nd) == nd.kind = "for" /\ nd.par = "thread"

LEMMA ListedFacts ==
  ASSUME NEW ps \in Seq(Params)
  PROVE  /\ Listed(ps) \in Seq(Pieces) /\ Listed(<<>>) = <<>>
         /\ \A p \in Params : Listed(Append(ps, p)) = Join2(Listed(ps), <<<<"name", p.name>>>>)
<1>1. PICK n \in Nat : n = Len(ps) /\ DOMAIN ps = 1 .. n
  OBVIOUS
<1>2. \A i \in 1 .. n : <<"name", ps[i].name>> \in Pieces
  <2> TAKE i \in 1 .. n
  <2>1. ps[i] \in Params
    BY <1>1
  <2>2. ps[i].name \in Names
    BY <2>1 DEF Params
  <2> QED
    BY <2>2 DEF Pieces
<1>3. Listed(ps) \in [1 .. n -> Pieces]
  BY <1>1, <1>2 DEF Listed
<1>4. PICK u \in Seq(Pieces) : u = Listed(ps) /\ Len(u) = n /\ DOMAIN u = 1 .. n
  <2>1. Listed(ps) \in Seq(Pieces)
    BY <1>3
  <2> QED
    BY <1>3, <2>1
<1>5. ASSUME NEW p \in Params
      PROVE  Listed(Append(ps, p)) = Join2(Listed(ps), <<<<"name", p.name>>>>)
  <2>1. PICK q \in Seq(Params) : q = Append(ps, p) /\ Len(q) = n + 1 /\ DOMAIN q = 1 .. n + 1
                                 /\ q[n + 1] = p /\ \A i \in 1 .. n : q[i] = ps[i]
    <3>1. /\ Append(ps, p) \in Seq(Params) /\ Len(Append(ps, p)) = n + 1
          /\ Append(ps, p)[n + 1] = p /\ \A i \in 1 .. n : Append(ps, p)[i] = ps[i]
      BY <1>1, AppendProperties
    <3>2. DOMAIN Append(ps, p) = 1 .. n + 1
      BY <3>1, LenProperties
    <3> QED
      BY <3>1, <3>2
  <2>2. PICK w \in Pieces : w = <<"name", p.name>>
    BY DEF Pieces, Params
  <2>3. PICK v \in Seq(Pieces) : v = u \o <<w>> /\ Len(v) = n + 1 /\ DOMAIN v = 1 .. n + 1
                                 /\ v[n + 1] = w /\ \A i \in 1 .. n : v[i] = u[i]
    <3>1. /\ Append(u, w) \in Seq(Pieces) /\ Len(Append(u, w)) = n + 1
          /\ Append(u, w)[n + 1] = w /\ \A i \in 1 .. n : Append(u, w)[i] = u[i]
      BY <1>4, AppendProperties
    <3>2. DOMAIN Append(u, w) = 1 .. n + 1
      BY <3>1, LenProperties
    <3>3. Append(u, w) = u \o <<w>>
      BY AppendIsConcat
    <3> QED
      BY <3>1, <3>2, <3>3
  <2>4. \A i \in 1 .. n + 1 : v[i] = <<"name", q[i].name>>
    <3> TAKE i \in 1 .. n + 1
    <3>1. CASE i = n + 1
      BY <2>1, <2>2, <2>3, <3>1
    <3>2. CASE i \in 1 .. n
      <4>1. u[i] = <<"name", ps[i].name>>
        BY <1>1, <1>4, <3>2 DEF Listed
      <4> QED
        BY <2>1, <2>3, <3>2, <4>1
    <3> QED
      BY <3>1, <3>2
  <2>5. v = [i \in 1 .. n + 1 |-> <<"name", q[i].name>>]
    <3>1. v = [i \in 1 .. n + 1 |-> v[i]]
      BY <2>3
    <3> QED
      BY <2>4, <3>1
  <2>6. Listed(q) = v
    BY <2>1, <2>5 DEF Listed
  <2> QED
    BY <1>4, <2>1, <2>2, <2>3, <2>6 DEF Join2
<1> QED
  BY <1>4, <1>5 DEF Listed

LEMMA OwnIs ==
  \A nd : Own(nd) = CASE nd.kind = "int" \/ Numbered(nd) -> <<<<"number", nd.num>>>>
                      [] nd.kind = "string" -> <<<<"text">>>>
                      [] OTHER -> Join2(IF nd.name = "-" THEN <<>> ELSE <<<<"name", nd.name>>>>,
                                        Listed(nd.params))
BY Zenon DEF Own, Numbered, Join2, Listed

LEMMA OwnTyped ==
  ASSUME NEW nd \in Node
  PROVE  Own(nd) \in Seq(Pieces)
<1>1. PICK a \in Pieces : a = <<"text">>
  BY DEF Pieces
<1>2. PICK b \in Pieces : b = <<"number", nd.num>>
  BY DEF Pieces, Node
<1>3. PICK p \in Seq(Pieces) : p = Listed(nd.params)
  BY ListedFacts DEF Node
<1>4. PICK q \in Seq(Pieces) : q = IF nd.name = "-" THEN <<>> ELSE <<<<"name", nd.name>>>>
  <2> DEFINE r == IF nd.name = "-" THEN <<>> ELSE <<<<"name", nd.name>>>>
  <2>1. r \in Seq(Pieces)
    <3>1. CASE nd.name = "-"
      <4>1. r = <<>> /\ <<>> \in Seq(Pieces)
        BY <3>1
      <4> HIDE DEF r
      <4> QED
        BY <4>1
    <3>2. CASE nd.name # "-"
      <4>1. PICK c \in Pieces : c = <<"name", nd.name>>
        BY <3>2 DEF Pieces, Node
      <4>2. r = <<c>> /\ <<c>> \in Seq(Pieces)
        BY <3>2, <4>1
      <4> HIDE DEF r
      <4> QED
        BY <4>2
    <3> HIDE DEF r
    <3> QED
      BY <3>1, <3>2
  <2> HIDE DEF r
  <2>2. \E q \in Seq(Pieces) : q = r
    BY <2>1
  <2> QED
    BY <2>2, Zenon DEF r
<1>5. Join2(q, p) \in Seq(Pieces) /\ <<a>> \in Seq(Pieces) /\ <<b>> \in Seq(Pieces)
  BY DEF Join2
<1>6. Own(nd) = CASE nd.kind = "int" \/ Numbered(nd) -> <<b>>
                  [] nd.kind = "string" -> <<a>>
                  [] OTHER -> Join2(q, p)
  BY <1>1, <1>2, <1>3, <1>4, OwnIs
<1> QED
  BY <1>5, <1>6

(* Fields that are not of the text *)
LEMMA OwnSame ==
  ASSUME NEW nd, NEW md, md.kind = nd.kind, md.name = nd.name, md.num = nd.num,
         md.params = nd.params, nd.kind = "for" => md.par = nd.par
  PROVE  Own(md) = Own(nd)
<1>1. Numbered(md) <=> Numbered(nd)
  BY DEF Numbered
<1> QED
  BY <1>1, OwnIs

LEMMA FieldOwn ==
  ASSUME NEW nd \in Node
  PROVE  /\ \A v : Own([nd EXCEPT !.kids = v]) = Own(nd)
         /\ \A v : Own([nd EXCEPT !.type = v]) = Own(nd)
         /\ \A v : Own([nd EXCEPT !.op = v]) = Own(nd)
         /\ \A v : nd.kind # "for" => Own([nd EXCEPT !.par = v]) = Own(nd)
<1>1. ASSUME NEW v PROVE Own([nd EXCEPT !.kids = v]) = Own(nd)
  <2>1. PICK md : md = [nd EXCEPT !.kids = v]
    OBVIOUS
  <2>2. md.kind = nd.kind /\ md.name = nd.name /\ md.num = nd.num
        /\ md.params = nd.params /\ md.par = nd.par
    BY <2>1 DEF Node
  <2> QED
    BY <2>1, <2>2, OwnSame
<1>2. ASSUME NEW v PROVE Own([nd EXCEPT !.type = v]) = Own(nd)
  <2>1. PICK md : md = [nd EXCEPT !.type = v]
    OBVIOUS
  <2>2. md.kind = nd.kind /\ md.name = nd.name /\ md.num = nd.num
        /\ md.params = nd.params /\ md.par = nd.par
    BY <2>1 DEF Node
  <2> QED
    BY <2>1, <2>2, OwnSame
<1>3. ASSUME NEW v PROVE Own([nd EXCEPT !.op = v]) = Own(nd)
  <2>1. PICK md : md = [nd EXCEPT !.op = v]
    OBVIOUS
  <2>2. md.kind = nd.kind /\ md.name = nd.name /\ md.num = nd.num
        /\ md.params = nd.params /\ md.par = nd.par
    BY <2>1 DEF Node
  <2> QED
    BY <2>1, <2>2, OwnSame
<1>4. ASSUME NEW v, nd.kind # "for" PROVE Own([nd EXCEPT !.par = v]) = Own(nd)
  <2>1. PICK md : md = [nd EXCEPT !.par = v]
    OBVIOUS
  <2>2. md.kind = nd.kind /\ md.name = nd.name /\ md.num = nd.num /\ md.params = nd.params
    BY <2>1 DEF Node
  <2> QED
    BY <1>4, <2>1, <2>2, OwnSame
<1> QED
  BY <1>1, <1>2, <1>3, <1>4

LEMMA OfTokenFacts ==
  ASSUME NEW t \in Token
  PROVE  OfToken(t) \in Seq(Pieces) /\ (t.kind \notin Content => OfToken(t) = <<>>)
<1>1. <<"text">> \in Pieces
  BY DEF Pieces
<1>2. t.kind = "number" => <<"number", t.num>> \in Pieces
  BY TokenFacts DEF Pieces
<1>3. t.kind = "name" => <<"name", t.name>> \in Pieces
  BY TokenFacts DEF Pieces
<1> QED
  BY <1>1, <1>2, <1>3 DEF OfToken, Content

(* The pieces of the tokens that have been consumed *)
Taken(s, p) == [i \in 1 .. p |-> OfToken(s[i])]

LEMMA TakenTyped ==
  ASSUME NEW s \in Seq(Token), NEW p \in 0 .. Len(s)
  PROVE  Taken(s, p) \in Seq(Seq(Pieces)) /\ Len(Taken(s, p)) = p
<1>1. p \in Nat /\ \A i \in 1 .. p : s[i] \in Token
  BY ElementOfSeq
<1>2. \A i \in 1 .. p : OfToken(s[i]) \in Seq(Pieces)
  BY <1>1, OfTokenFacts
<1>3. Taken(s, p) \in [1 .. p -> Seq(Pieces)]
  BY <1>2 DEF Taken
<1>4. Taken(s, p) \in Seq(Seq(Pieces))
  BY <1>1, <1>3
<1>5. DOMAIN Taken(s, p) = 1 .. p
  BY DEF Taken
<1> QED
  BY <1>1, <1>4, <1>5, LenProperties

LEMMA TakenMore ==
  ASSUME NEW s \in Seq(Token), NEW p \in Nat, p < Len(s)
  PROVE  Flat(Taken(s, p + 1)) = Join2(Flat(Taken(s, p)), OfToken(s[p + 1]))
<1>1. p \in 0 .. Len(s) /\ p + 1 \in 0 .. Len(s) /\ p + 1 \in 1 .. Len(s) /\ Len(s) \in Nat
  OBVIOUS
<1>2. PICK a \in Seq(Seq(Pieces)) : a = Taken(s, p) /\ Len(a) = p
  BY <1>1, TakenTyped
<1>3. PICK b \in Seq(Seq(Pieces)) : b = Taken(s, p + 1) /\ Len(b) = p + 1
  BY <1>1, TakenTyped
<1>4. PICK x \in Seq(Pieces) : x = OfToken(s[p + 1])
  <2>1. s[p + 1] \in Token
    BY <1>1, ElementOfSeq
  <2> QED
    BY <2>1, OfTokenFacts
<1>5. PICK c \in Seq(Seq(Pieces)) : LongerBy(c, a, x)
  BY OneMore
<1>6. b = c
  <2>1. Len(c) = p + 1
    BY <1>2, <1>5, AppendProperties DEF LongerBy
  <2>2. \A i \in 1 .. p + 1 : b[i] = c[i]
    <3> TAKE i \in 1 .. p + 1
    <3>1. CASE i = p + 1
      BY <1>2, <1>3, <1>4, <1>5, <3>1 DEF Taken, LongerBy
    <3>2. CASE i \in 1 .. p
      BY <1>2, <1>3, <1>5, <3>2 DEF Taken, LongerBy
    <3> QED
      BY <3>1, <3>2
  <2> QED
    BY <1>3, <2>1, <2>2, SeqEqual
<1>7. Flat(Append(a, x)) = Flat(a) \o x
  BY FlatMore
<1> QED
  BY <1>2, <1>3, <1>4, <1>5, <1>6, <1>7, Zenon DEF LongerBy, Join2

-----------------------------------------------------------------------------
(* The order of the items: a call writes what it has read into its node    *)
(* before anything comes under it.                                         *)

Takes(x, kind) == x.op = "eat" /\ x.what = kind

OfParams(x) == \/ x.op = "param"
               \/ x.op = "type" /\ x.what = "param"
               \/ x.op = "list" /\ x.what = "params"

(* The items that need nothing of the node *)
Plain(x) ==
  /\ x.op = "eat" => x.what \in Words \cup Marks
  /\ x.op # "value" /\ ~OfParams(x)

AllPlain(s) == \A j \in DOMAIN s : Plain(s[j])

(* The items that put nothing under the node *)
Light(x) == x.op \in {"eat", "comma", "type"} \/ OfParams(x)

Suits(x, nd) ==
  /\ x.op = "eat" => x.what # "text"
  /\ Takes(x, "name") => /\ nd.name = "-" /\ nd.params = <<>>
                         /\ ~Numbered(nd) /\ nd.kind \notin {"int", "string"}
  /\ Takes(x, "number") => Numbered(nd)
  /\ OfParams(x) => nd.kind = "func"
  /\ x.op = "value" => nd.kind = "decl"

Before(x, y) ==
  /\ Light(x)
  /\ Takes(y, "name") => ~OfParams(x) /\ ~Takes(x, "name")
  /\ Takes(y, "number") => ~Takes(x, "number")

Fits(s, nd, last) ==
  \A j \in DOMAIN s : ~Plain(s[j]) =>
    last /\ Suits(s[j], nd) /\ \A i \in 1 .. j - 1 : Before(s[i], s[j])

HasNumber(s) == \E j \in DOMAIN s : Takes(s[j], "number")

LEMMA PlainFacts ==
  /\ \A x : Plain(x) => ~Takes(x, "number") /\ ~Takes(x, "name")
  /\ \A x : OfParams(x) => x.op \in {"param", "type", "list"}
BY DEF Plain, Takes, OfParams, Words, TypeWords, Marks, UpdateOps, RuleOf

LEMMA PlainFits ==
  ASSUME NEW s, AllPlain(s)
  PROVE  ~HasNumber(s) /\ \A nd, last : Fits(s, nd, last)
BY PlainFacts DEF AllPlain, Fits, HasNumber

(* Positions in a row of two *)
LEMMA InRow ==
  ASSUME NEW s \in Seq(Items), NEW u \in Seq(Items)
  PROVE  /\ \A j \in DOMAIN (s \o u) :
              (j \in DOMAIN s /\ (s \o u)[j] = s[j])
                \/ \E i \in DOMAIN u : (s \o u)[j] = u[i] /\ j = Len(s) + i
         /\ \A j \in DOMAIN s : j \in DOMAIN (s \o u) /\ (s \o u)[j] = s[j]
         /\ \A i \in DOMAIN u : Len(s) + i \in DOMAIN (s \o u) /\ (s \o u)[Len(s) + i] = u[i]
<1>1. PICK m \in Nat : m = Len(s) /\ DOMAIN s = 1 .. m
  OBVIOUS
<1>2. PICK n \in Nat : n = Len(u) /\ DOMAIN u = 1 .. n
  OBVIOUS
<1>3. PICK w \in Seq(Items) : w = s \o u /\ DOMAIN w = 1 .. m + n
                              /\ \A i \in 1 .. m + n : w[i] = IF i <= m THEN s[i] ELSE u[i - m]
  <2>1. /\ s \o u \in Seq(Items) /\ Len(s \o u) = m + n
        /\ \A i \in 1 .. m + n : (s \o u)[i] = IF i <= m THEN s[i] ELSE u[i - m]
    BY <1>1, <1>2, ConcatProperties
  <2>2. DOMAIN (s \o u) = 1 .. m + n
    BY <2>1, LenProperties
  <2> QED
    BY <2>1, <2>2
<1>4. ASSUME NEW j \in DOMAIN w
      PROVE  (j \in DOMAIN s /\ w[j] = s[j]) \/ \E i \in DOMAIN u : w[j] = u[i] /\ j = m + i
  <2>1. CASE j <= m
    BY <1>1, <1>3, <2>1
  <2>2. CASE ~(j <= m)
    <3>1. j - m \in DOMAIN u /\ w[j] = u[j - m] /\ j = m + (j - m)
      BY <1>1, <1>2, <1>3, <2>2
    <3> QED
      BY <3>1
  <2> QED
    BY <2>1, <2>2
<1>5. \A j \in DOMAIN s : j \in DOMAIN w /\ w[j] = s[j]
  BY <1>1, <1>2, <1>3
<1>6. \A i \in DOMAIN u : m + i \in DOMAIN w /\ w[m + i] = u[i]
  <2> TAKE i \in DOMAIN u
  <2>1. m + i \in 1 .. m + n /\ ~(m + i <= m) /\ (m + i) - m = i
    BY <1>1, <1>2
  <2> QED
    BY <1>3, <2>1
<1> QED
  BY <1>1, <1>3, <1>4, <1>5, <1>6

LEMMA PlainRow ==
  ASSUME NEW s \in Seq(Items), NEW u \in Seq(Items), AllPlain(s), AllPlain(u)
  PROVE  AllPlain(s \o u) /\ s \o u \in Seq(Items)
<1>1. PICK w : w = s \o u
  OBVIOUS
<1>2. \A j \in DOMAIN w : (j \in DOMAIN s /\ w[j] = s[j]) \/ \E i \in DOMAIN u : w[j] = u[i]
  BY <1>1, InRow
<1>3. AllPlain(w)
  BY <1>2 DEF AllPlain
<1> QED
  BY <1>1, <1>3, ConcatProperties

LEMMA NumberRow ==
  ASSUME NEW s \in Seq(Items), NEW u \in Seq(Items)
  PROVE  HasNumber(s \o u) <=> HasNumber(s) \/ HasNumber(u)
<1>1. PICK w : w = s \o u
  OBVIOUS
<1>2. /\ \A j \in DOMAIN w : (j \in DOMAIN s /\ w[j] = s[j]) \/ \E i \in DOMAIN u : w[j] = u[i]
      /\ \A j \in DOMAIN s : j \in DOMAIN w /\ w[j] = s[j]
      /\ \A i \in DOMAIN u : Len(s) + i \in DOMAIN w /\ w[Len(s) + i] = u[i]
  BY <1>1, InRow
<1>3. HasNumber(w) => HasNumber(s) \/ HasNumber(u)
  BY <1>2 DEF HasNumber
<1>4. HasNumber(s) => HasNumber(w)
  BY <1>2 DEF HasNumber
<1>5. HasNumber(u) => HasNumber(w)
  BY <1>2 DEF HasNumber
<1> QED
  BY <1>1, <1>3, <1>4, <1>5

(* Something that fits, and then items that need nothing *)
LEMMA FitsThen ==
  ASSUME NEW s \in Seq(Items), NEW u \in Seq(Items), NEW nd, NEW last,
         Fits(s, nd, last), AllPlain(u)
  PROVE  Fits(s \o u, nd, last)
<1>1. PICK w : w = s \o u
  OBVIOUS
<1>2. /\ \A j \in DOMAIN w : (j \in DOMAIN s /\ w[j] = s[j]) \/ \E i \in DOMAIN u : w[j] = u[i]
      /\ \A j \in DOMAIN s : j \in DOMAIN w /\ w[j] = s[j]
  BY <1>1, InRow
<1>3. DOMAIN s = 1 .. Len(s) /\ Len(s) \in Nat
  OBVIOUS
<1>4. ASSUME NEW j \in DOMAIN w, ~Plain(w[j])
      PROVE  last /\ Suits(w[j], nd) /\ \A i \in 1 .. j - 1 : Before(w[i], w[j])
  <2>1. j \in DOMAIN s /\ w[j] = s[j]
    BY <1>2, <1>4 DEF AllPlain
  <2>2. \A i \in 1 .. j - 1 : w[i] = s[i]
    BY <1>2, <1>3, <2>1
  <2> QED
    BY <1>4, <2>1, <2>2 DEF Fits
<1> QED
  BY <1>1, <1>4 DEF Fits

(* The next item, and those after it *)
FitsAhead(s, x, g, nd, last) ==
  /\ Fits(g, nd, last)
  /\ \A j \in DOMAIN g : ~Plain(g[j]) => last /\ Suits(g[j], nd) /\ Before(x, g[j])
  /\ ~Plain(x) => last /\ Suits(x, nd)
  /\ ~Light(x) => AllPlain(g)
  /\ HasNumber(s) <=> Takes(x, "number") \/ HasNumber(g)
  /\ Takes(x, "number") => ~HasNumber(g)

LEMMA FitsNext ==
  ASSUME NEW s \in Seq(Items), s # <<>>, NEW nd, NEW last, Fits(s, nd, last),
         NEW x, x = s[1], NEW g, g = Tail(s)
  PROVE  FitsAhead(s, x, g, nd, last)
<1>1. PICK n \in Nat : n >= 1 /\ Len(s) = n /\ DOMAIN s = 1 .. n
  OBVIOUS
<1>2. /\ g \in Seq(Items) /\ DOMAIN g = 1 .. n - 1
      /\ \A j \in 1 .. n - 1 : g[j] = s[j + 1] /\ j + 1 \in 1 .. n
  BY <1>1
<1>3. ASSUME NEW j \in DOMAIN g, ~Plain(g[j])
      PROVE  last /\ Suits(g[j], nd) /\ Before(x, g[j])
             /\ \A i \in 1 .. j - 1 : Before(g[i], g[j])
  <2>1. j + 1 \in 1 .. n /\ g[j] = s[j + 1]
    BY <1>2
  <2>2. last /\ Suits(s[j + 1], nd) /\ \A i \in 1 .. (j + 1) - 1 : Before(s[i], s[j + 1])
    BY <1>1, <1>3, <2>1 DEF Fits
  <2>3. 1 \in 1 .. (j + 1) - 1
    BY <1>2
  <2>4. \A i \in 1 .. j - 1 : g[i] = s[i + 1] /\ i + 1 \in 1 .. (j + 1) - 1
    BY <1>2
  <2> QED
    BY <2>1, <2>2, <2>3, <2>4
<1>4. Fits(g, nd, last)
  BY <1>3 DEF Fits
<1>5. ~Plain(x) => last /\ Suits(x, nd)
  BY <1>1 DEF Fits
<1>6. ~Light(x) => AllPlain(g)
  BY <1>3 DEF AllPlain, Before
<1>7. HasNumber(s) <=> Takes(x, "number") \/ HasNumber(g)
  <2>1. ASSUME NEW j \in DOMAIN s, Takes(s[j], "number") PROVE Takes(x, "number") \/ HasNumber(g)
    <3>1. CASE j = 1
      BY <2>1, <3>1
    <3>2. CASE j # 1
      <4>1. j - 1 \in DOMAIN g /\ g[j - 1] = s[j]
        BY <1>1, <1>2, <3>2
      <4> QED
        BY <2>1, <4>1 DEF HasNumber
    <3> QED
      BY <3>1, <3>2
  <2>2. Takes(x, "number") => HasNumber(s)
    BY <1>1 DEF HasNumber
  <2>3. HasNumber(g) => HasNumber(s)
    BY <1>1, <1>2 DEF HasNumber
  <2> QED
    BY <2>1, <2>2, <2>3 DEF HasNumber
<1>8. Takes(x, "number") => ~HasNumber(g)
  BY <1>3, PlainFacts DEF HasNumber, Before
<1> QED
  BY <1>3, <1>4, <1>5, <1>6, <1>7, <1>8 DEF FitsAhead

(* The node has changed: what comes after x still suits it. *)
LEMMA FitsChanged ==
  ASSUME NEW x, NEW g, NEW nd, NEW md, NEW last, Fits(g, nd, last),
         \A j \in DOMAIN g : ~Plain(g[j]) => Before(x, g[j]),
         \A y : Suits(y, nd) /\ Before(x, y) => Suits(y, md)
  PROVE  Fits(g, md, last)
BY DEF Fits

-----------------------------------------------------------------------------
(* The second invariant: what the nodes hold is what has been consumed.    *)

InOrder(t, fs) ==
  /\ \A i \in DOMAIN fs : i # 1 => AllPlain(fs[i].todo)
  /\ fs # <<>> => Fits(fs[1].todo, t[fs[1].node], fs[1].node = Len(t))

(* The number of a loop with threads, which has not been read *)
Unread(fs, n) == fs # <<>> /\ n = fs[1].node /\ HasNumber(fs[1].todo)

Owned(t, fs) == [n \in 1 .. Len(t) |-> IF Unread(fs, n) THEN <<>> ELSE Own(t[n])]

NInv ==
  /\ IInv /\ InOrder(ast, frames)
  /\ Flat(Owned(ast, frames)) = Flat(Taken(source, pos))

IsOwned(a, t, fs) ==
  /\ a = Owned(t, fs) /\ Len(a) = Len(t)
  /\ \A n \in 1 .. Len(t) : a[n] = IF Unread(fs, n) THEN <<>> ELSE Own(t[n])

LEMMA OwnedTyped ==
  ASSUME NEW t \in Seq(Node), NEW fs
  PROVE  \E a \in Seq(Seq(Pieces)) : IsOwned(a, t, fs)
<1>1. Len(t) \in Nat /\ <<>> \in Seq(Pieces)
  OBVIOUS
<1>2. \A n \in 1 .. Len(t) : Own(t[n]) \in Seq(Pieces)
  BY OwnTyped, ElementOfSeq
<1>3. Owned(t, fs) \in [1 .. Len(t) -> Seq(Pieces)]
  BY <1>1, <1>2 DEF Owned
<1>4. Owned(t, fs) \in Seq(Seq(Pieces)) /\ DOMAIN Owned(t, fs) = 1 .. Len(t)
  BY <1>1, <1>3
<1>5. IsOwned(Owned(t, fs), t, fs)
  BY <1>1, <1>4, LenProperties DEF Owned, IsOwned
<1> QED
  BY <1>4, <1>5

LEMMA OwnedSame ==
  ASSUME NEW t \in Seq(Node), NEW u, NEW fs, NEW gs, Len(u) = Len(t),
         \A n \in DOMAIN t : Own(u[n]) = Own(t[n]),
         \A n \in DOMAIN t : Unread(gs, n) <=> Unread(fs, n)
  PROVE  Owned(u, gs) = Owned(t, fs)
<1>1. DOMAIN t = 1 .. Len(t)
  OBVIOUS
<1> QED
  BY <1>1 DEF Owned

Skips ==
  /\ source' = source
  /\ \/ pos' = pos
     \/ pos' = pos + 1 /\ pos < Len(source) /\ source[pos + 1].kind \notin Content

LEMMA NothingMore ==
  ASSUME NEW X, NEW a \in Seq(X)
  PROVE  Join2(a, <<>>) = a
BY DEF Join2

LEMMA SkipsFlat ==
  ASSUME IInv, Skips
  PROVE  Flat(Taken(source', pos')) = Flat(Taken(source, pos))
<1>1. CASE pos' = pos
  BY <1>1 DEF Skips
<1>2. CASE pos' = pos + 1 /\ pos < Len(source) /\ source[pos + 1].kind \notin Content
  <2>1. source \in Seq(Token) /\ pos \in Nat /\ pos \in 0 .. Len(source)
        /\ pos + 1 \in 1 .. Len(source)
    BY <1>2 DEF IInv
  <2>2. OfToken(source[pos + 1]) = <<>>
    BY <1>2, <2>1, ElementOfSeq, OfTokenFacts
  <2>3. Flat(Taken(source, pos)) \in Seq(Pieces)
    BY <2>1, TakenTyped, FlatTyped
  <2>4. Flat(Taken(source, pos + 1)) = Join2(Flat(Taken(source, pos)), OfToken(source[pos + 1]))
    BY <1>2, <2>1, TakenMore
  <2>5. Join2(Flat(Taken(source, pos)), <<>>) = Flat(Taken(source, pos))
    BY <2>3, NothingMore
  <2>6. source' = source
    BY DEF Skips
  <2> QED
    BY <1>2, <2>2, <2>4, <2>5, <2>6
<1> QED
  BY <1>1, <1>2 DEF Skips

LEMMA SkipsToken ==
  ASSUME IInv, NEW kinds, Sees(kinds), "eof" \notin kinds, kinds \cap Content = {}, Advance(1)
  PROVE  Skips
<1>1. pos + 0 < Len(source)
  BY DEF Sees, Peek, EndToken
<1>2. source \in Seq(Token) /\ pos \in 0 .. Len(source) /\ Len(source) \in Nat
  BY DEF IInv
<1>3. pos < Len(source) /\ pos + 0 + 1 = pos + 1
  BY <1>1, <1>2
<1>4. Peek(0) = source[pos + 1]
  BY <1>1, <1>3 DEF Peek
<1>5. Peek(0).kind \notin Content
  BY DEF Sees
<1> QED
  BY <1>3, <1>4, <1>5 DEF Skips, Advance

LEMMA TopItems ==
  ASSUME NEW x, NEW g, NEW h, NEW l, Reading(x, g, h, l), InOrder(ast, frames)
  PROVE  /\ frames[1].todo \in Seq(Items) /\ frames # <<>> /\ 1 \in DOMAIN frames
         /\ ast \in Seq(Node) /\ h \in DOMAIN ast /\ ast[h] \in Node
         /\ Fits(g, ast[h], h = Len(ast))
         /\ \A j \in DOMAIN g : ~Plain(g[j]) =>
              h = Len(ast) /\ Suits(g[j], ast[h]) /\ Before(x, g[j])
         /\ ~Plain(x) => h = Len(ast) /\ Suits(x, ast[h])
         /\ ~Light(x) => AllPlain(g)
         /\ HasNumber(frames[1].todo) <=> Takes(x, "number") \/ HasNumber(g)
         /\ Takes(x, "number") => ~HasNumber(g)
<1>1. /\ Readable(ast, frames) /\ frames # <<>> /\ h = frames[1].node /\ frames[1].todo # <<>>
      /\ x = frames[1].todo[1] /\ g = Tail(frames[1].todo) /\ h \in DOMAIN ast /\ ast[h] \in Node
  BY DEF Reading
<1>2. frames[1].todo \in Seq(Items) /\ 1 \in DOMAIN frames
  BY <1>1, TopFrame
<1>3. Fits(frames[1].todo, ast[h], h = Len(ast))
  BY <1>1 DEF InOrder
<1>4. PICK last : last = (h = Len(ast))
  OBVIOUS
<1>5. PICK s \in Seq(Items) : s = frames[1].todo
  BY <1>2
<1>9. PICK nd : nd = ast[h]
  OBVIOUS
<1>6. s # <<>> /\ x = s[1] /\ g = Tail(s) /\ Fits(s, nd, last)
  BY <1>1, <1>3, <1>4, <1>5, <1>9
<1>7. FitsAhead(s, x, g, nd, last)
  BY <1>6, FitsNext
<1>8. ast \in Seq(Node)
  BY <1>1 DEF Readable, TreeOK
<1> QED
  BY <1>1, <1>2, <1>4, <1>5, <1>7, <1>8, <1>9 DEF FitsAhead

(* The innermost call goes on, with nothing that the text brought. *)
LEMMA OnwardInOrder ==
  ASSUME NEW x, NEW g, NEW h, NEW l, Reading(x, g, h, l), InOrder(ast, frames),
         NEW items \in Seq(Items), frames' = After(items), Len(ast') = Len(ast),
         Fits(items \o g, ast'[h], h = Len(ast))
  PROVE  /\ InOrder(ast', frames')
         /\ \A n : Unread(frames', n) <=> n = h /\ (HasNumber(items) \/ HasNumber(g))
<1>1. frames' = Onward(frames, items \o g) /\ items \o g \in Seq(Items)
  BY AfterIs
<1>2. frames \in Seq(CallFrame) /\ frames # <<>> /\ h = frames[1].node /\ g \in Seq(Items)
  BY DEF Reading, Readable, CallsOK
<1>4. PICK s \in Seq(Items) : s = items \o g
  BY <1>1
<1>3. PICK gs : gs = frames' /\ gs = Onward(frames, s)
  BY <1>1, <1>4
<1>5. /\ DOMAIN gs = DOMAIN frames /\ gs # <<>> /\ gs[1].node = frames[1].node /\ gs[1].todo = s
      /\ \A i \in DOMAIN frames : i # 1 => gs[i] = frames[i]
  <2>1. frames \in Seq(CallFrame) /\ frames # <<>>
    BY <1>2
  <2>2. gs = Onward(frames, s)
    BY <1>3
  <2> QED
    BY <2>1, <2>2, OnwardFacts
<1>6. HasNumber(s) <=> HasNumber(items) \/ HasNumber(g)
  BY <1>2, <1>4, NumberRow
<1>7. InOrder(ast', gs)
  BY <1>2, <1>4, <1>5 DEF InOrder
<1> QED
  BY <1>2, <1>3, <1>5, <1>6, <1>7 DEF Unread

LEMMA StepInPlace ==
  ASSUME NInv, IInv', NEW x, NEW g, NEW h, NEW l, Reading(x, g, h, l), ~Takes(x, "number"),
         NEW items \in Seq(Items), frames' = After(items), ~HasNumber(items),
         Fits(items \o g, ast'[h], h = Len(ast)),
         Len(ast') = Len(ast), \A n \in DOMAIN ast : Own(ast'[n]) = Own(ast[n]), Skips
  PROVE  NInv'
<1>1. InOrder(ast, frames) /\ IInv
  BY DEF NInv
<1>2. /\ InOrder(ast', frames')
      /\ \A n : Unread(frames', n) <=> n = h /\ (HasNumber(items) \/ HasNumber(g))
  BY <1>1, OnwardInOrder
<1>3. h = frames[1].node /\ frames # <<>> /\ ast \in Seq(Node)
      /\ (HasNumber(frames[1].todo) <=> Takes(x, "number") \/ HasNumber(g))
  BY <1>1, TopItems DEF Reading
<1>4. \A n : Unread(frames, n) <=> n = h /\ HasNumber(g)
  BY <1>3 DEF Unread
<1>5. Owned(ast', frames') = Owned(ast, frames)
  BY <1>2, <1>3, <1>4, OwnedSame
<1>6. Flat(Taken(source', pos')) = Flat(Taken(source, pos))
  BY <1>1, SkipsFlat
<1> QED
  BY <1>2, <1>5, <1>6 DEF NInv

LEMMA NothingBefore ==
  ASSUME NEW x, NEW g, NEW h, NEW l, Reading(x, g, h, l)
  PROVE  <<>> \in Seq(Items) /\ <<>> \o g = g /\ ~HasNumber(<<>>) /\ AllPlain(<<>>)
BY DEF Reading, HasNumber, AllPlain

(* An item that puts something under the node, or that does so later *)
LEMMA HeavyStep ==
  ASSUME NInv, IInv', NEW x, NEW g, NEW h, NEW l, Reading(x, g, h, l), ~Light(x),
         NEW items \in Seq(Items), AllPlain(items), frames' = After(items),
         Len(ast') = Len(ast), \A n \in DOMAIN ast : Own(ast'[n]) = Own(ast[n]), Skips
  PROVE  NInv'
<1>1. ~Takes(x, "number")
  BY DEF Light, Takes
<1>2. AllPlain(g) /\ g \in Seq(Items)
  BY TopItems DEF NInv, Reading
<1>3. AllPlain(items \o g)
  BY <1>2, PlainRow
<1>4. Fits(items \o g, ast'[h], h = Len(ast)) /\ ~HasNumber(items)
  BY <1>3, PlainFits
<1> QED
  BY <1>1, <1>4, StepInPlace

(* An item that only consumes *)
LEMMA LightStep ==
  ASSUME NInv, IInv', NEW x, NEW g, NEW h, NEW l, Reading(x, g, h, l), ~Takes(x, "number"),
         frames' = After(<<>>), ast' = ast, Skips
  PROVE  NInv'
<1>1. <<>> \in Seq(Items) /\ <<>> \o g = g /\ ~HasNumber(<<>>)
  BY NothingBefore
<1>2. Fits(<<>> \o g, ast'[h], h = Len(ast))
  BY <1>1, TopItems DEF NInv
<1>3. Len(ast') = Len(ast) /\ \A n \in DOMAIN ast : Own(ast'[n]) = Own(ast[n])
  OBVIOUS
<1> QED
  BY <1>1, <1>2, <1>3, StepInPlace

LEMMA TakesToken ==
  ASSUME IInv, NEW kinds, Sees(kinds), "eof" \notin kinds, source' = source, pos' = pos + 1
  PROVE  /\ Peek(0) \in Token
         /\ Flat(Taken(source', pos')) = Join2(Flat(Taken(source, pos)), OfToken(Peek(0)))
<1>1. pos + 0 < Len(source)
  BY DEF Sees, Peek, EndToken
<1>2. source \in Seq(Token) /\ pos \in 0 .. Len(source) /\ Len(source) \in Nat /\ pos \in Nat
  BY DEF IInv
<1>3. pos < Len(source) /\ pos + 0 + 1 = pos + 1
  BY <1>1, <1>2
<1>4. Peek(0) = source[pos + 1]
  BY <1>1, <1>3 DEF Peek
<1>5. Peek(0) \in Token
  BY SeesToken
<1>6. Flat(Taken(source, pos + 1)) = Join2(Flat(Taken(source, pos)), OfToken(source[pos + 1]))
  BY <1>2, <1>3, TakenMore
<1> QED
  BY <1>4, <1>5, <1>6

(* What has been consumed is written into the node, the latest one. *)
LEMMA StepTakes ==
  ASSUME NInv, IInv', NEW x, NEW g, NEW h, NEW l, Reading(x, g, h, l), ~Plain(x),
         NEW nd \in Node, Writes(nd), frames' = After(<<>>), ~HasNumber(g),
         Fits(g, nd, h = Len(ast)), NEW kinds, Sees(kinds), "eof" \notin kinds, Advance(1),
         Own(nd) = Join2(IF Takes(x, "number") THEN <<>> ELSE Own(ast[h]), OfToken(Peek(0)))
  PROVE  NInv'
<1>1. InOrder(ast, frames) /\ IInv /\ Flat(Owned(ast, frames)) = Flat(Taken(source, pos))
  BY DEF NInv
<1>2. /\ ast \in Seq(Node) /\ h \in DOMAIN ast /\ h = Len(ast) /\ frames # <<>> /\ h = frames[1].node
      /\ (HasNumber(frames[1].todo) <=> Takes(x, "number"))
  BY <1>1, TopItems DEF Reading
<1>3. ast' = [ast EXCEPT ![h] = nd]
  BY <1>2 DEF Writes, Here
<1>4. ast' \in Seq(Node) /\ Len(ast') = h /\ h \in Nat \ {0}
      /\ ast'[h] = nd /\ \A n \in 1 .. h - 1 : ast'[n] = ast[n] /\ n # h
  <2>5. PICK t \in Seq(Node) : t = ast
    BY <1>2
  <2>6. Len(t) \in Nat /\ DOMAIN t = 1 .. Len(t)
    BY LenProperties
  <2>7. h \in DOMAIN t
    BY <1>2, <2>5
  <2>9. Len(t) # 0
    BY <2>6, <2>7
  <2>1. Len(ast) \in Nat \ {0} /\ DOMAIN ast = 1 .. Len(ast)
    BY <2>5, <2>6, <2>9, Zenon
  <2>8. [t EXCEPT ![h] = nd] \in Seq(Node) /\ Len([t EXCEPT ![h] = nd]) = Len(t)
    BY <2>6, <2>7, ExceptSeq
  <2>2. ast' \in Seq(Node) /\ Len(ast') = Len(ast)
    BY <1>3, <2>5, <2>8
  <2>3. ast'[h] = nd /\ \A n \in DOMAIN ast : n # h => ast'[n] = ast[n]
    BY <1>2, <1>3
  <2>4. \A n \in 1 .. h - 1 : n \in DOMAIN ast /\ n # h
    BY <1>2, <2>1
  <2> QED
    BY <1>2, <2>1, <2>2, <2>3, <2>4
<1>5. <<>> \in Seq(Items) /\ <<>> \o g = g /\ ~HasNumber(<<>>)
  BY NothingBefore
<1>6. Fits(<<>> \o g, ast'[h], h = Len(ast)) /\ Len(ast') = Len(ast)
  BY <1>2, <1>4, <1>5
<1>7. /\ InOrder(ast', frames')
      /\ \A n : Unread(frames', n) <=> n = h /\ (HasNumber(<<>>) \/ HasNumber(g))
  BY <1>1, <1>5, <1>6, OnwardInOrder
<1>8. \A n : ~Unread(frames', n)
  BY <1>5, <1>7
<1>9. \A n : Unread(frames, n) <=> n = h /\ Takes(x, "number")
  BY <1>2 DEF Unread
<1>10. Peek(0) \in Token
       /\ Flat(Taken(source', pos')) = Join2(Flat(Taken(source, pos)), OfToken(Peek(0)))
  BY <1>1, TakesToken DEF Advance
<1>11. PICK w \in Seq(Pieces) : w = OfToken(Peek(0))
  BY <1>10, OfTokenFacts
<1>12. PICK a \in Seq(Seq(Pieces)) :
         /\ a = Owned(ast, frames) /\ Len(a) = h
         /\ \A n \in 1 .. h : a[n] = IF Unread(frames, n) THEN <<>> ELSE Own(ast[n])
  <2>1. PICK a \in Seq(Seq(Pieces)) : IsOwned(a, ast, frames)
    BY <1>2, OwnedTyped
  <2> QED
    BY <1>2, <2>1 DEF IsOwned
<1>13. PICK b \in Seq(Seq(Pieces)) :
         /\ b = Owned(ast', frames') /\ Len(b) = h
         /\ \A n \in 1 .. h : b[n] = IF Unread(frames', n) THEN <<>> ELSE Own(ast'[n])
  <2>1. PICK b \in Seq(Seq(Pieces)) : IsOwned(b, ast', frames')
    BY <1>4, OwnedTyped
  <2> QED
    BY <1>4, <2>1 DEF IsOwned
<1>14. b[h] = Join2(a[h], w)
  <2>1. h \in 1 .. h
    BY <1>4
  <2>2. a[h] = IF Takes(x, "number") THEN <<>> ELSE Own(ast[h])
    BY <1>9, <1>12, <2>1
  <2>3. b[h] = Own(nd)
    BY <1>4, <1>8, <1>13, <2>1
  <2> QED
    BY <1>11, <2>2, <2>3
<1>15. \A n \in 1 .. h - 1 : b[n] = a[n]
  <2> TAKE n \in 1 .. h - 1
  <2>1. n \in 1 .. h /\ n # h /\ ast'[n] = ast[n]
    BY <1>4
  <2> QED
    BY <1>8, <1>9, <1>12, <1>13, <2>1
<1>16. Flat(b) = Join2(Flat(a), w)
  <2>1. h \in Nat \ {0} /\ Len(a) = h /\ Len(b) = h
    BY <1>4, <1>12, <1>13
  <2>2. LastGrew(a, b, w, h)
    BY <1>14, <1>15 DEF LastGrew
  <2> QED
    BY <2>1, <2>2, FlatLast
<1> QED
  BY <1>1, <1>7, <1>10, <1>11, <1>12, <1>13, <1>16 DEF NInv

-----------------------------------------------------------------------------
(* A node is put under the node of the innermost call. *)

OwnGrew(t, nd, u) ==
  /\ u \in Seq(Node) /\ Len(u) = Len(t) + 1 /\ Len(t) \in Nat /\ u[Len(t) + 1] = nd
  /\ \A n \in 1 .. Len(t) : Own(u[n]) = Own(t[n])

LEMMA GrownOwn ==
  ASSUME NEW t \in Seq(Node), NEW h \in DOMAIN t, NEW nd \in Node, NEW u, u = GrownTree(t, h, nd)
  PROVE  OwnGrew(t, nd, u)
<1>1. Grew(t, h, nd, u)
  BY GrownFacts
<1>2. /\ Len(t) \in Nat /\ u \in Seq(Node) /\ Len(u) = Len(t) + 1 /\ u[Len(t) + 1] = nd
      /\ \A n \in DOMAIN t : n # h => u[n] = t[n]
      /\ DOMAIN t = 1 .. Len(t)
  BY <1>1 DEF Grew
<1>3. u[h] = [t[h] EXCEPT !.kids = Append(t[h].kids, Len(t) + 1)]
  <2>1. PICK v : v = [t EXCEPT ![h].kids = Append(@, Len(t) + 1)]
    OBVIOUS
  <2>2. PICK hd : hd = [t[h] EXCEPT !.kids = Append(t[h].kids, Len(t) + 1)]
    OBVIOUS
  <2>3. v = [t EXCEPT ![h] = hd] /\ v[h] = hd
    BY <2>1, <2>2
  <2>4. hd \in Node
    <3>1. PICK b \in Node : b = t[h]
      OBVIOUS
    <3>2. PICK c \in Nat : c = Len(t) + 1
      BY <1>2
    <3>3. hd = PutIn(b, c)
      BY <2>2, <3>1, <3>2 DEF PutIn
    <3> QED
      BY <3>3, PutInFacts
  <2>5. v \in Seq(Node) /\ Len(v) = Len(t)
    BY <2>3, <2>4
  <2>6. u = Append(v, nd)
    BY <2>1 DEF GrownTree
  <2>7. \A n \in 1 .. Len(t) : u[n] = v[n]
    BY <2>5, <2>6, AppendProperties
  <2> QED
    BY <1>2, <2>2, <2>3, <2>7
<1>4. Own(u[h]) = Own(t[h])
  <2>1. PICK b \in Node : b = t[h]
    OBVIOUS
  <2>2. \A v : Own([b EXCEPT !.kids = v]) = Own(b)
    BY FieldOwn
  <2> QED
    BY <1>3, <2>1, <2>2
<1> QED
  BY <1>2, <1>4 DEF OwnGrew

Adds(t, fs, gs, nd, w) ==
  /\ \A n : ~Unread(fs, n)
  /\ \A n \in 1 .. Len(t) : ~Unread(gs, n)
  /\ Unread(gs, Len(t) + 1) => w = <<>>
  /\ ~Unread(gs, Len(t) + 1) => w = Own(nd)

LEMMA OwnedGrown ==
  ASSUME NEW t \in Seq(Node), NEW h \in DOMAIN t, NEW nd \in Node, NEW u, u = GrownTree(t, h, nd),
         NEW fs, NEW gs, NEW w \in Seq(Pieces), Adds(t, fs, gs, nd, w)
  PROVE  Flat(Owned(u, gs)) = Join2(Flat(Owned(t, fs)), w)
<1>1. PICK L \in Nat : L = Len(t)
  OBVIOUS
<1>2. /\ u \in Seq(Node) /\ Len(u) = L + 1 /\ u[L + 1] = nd
      /\ \A n \in 1 .. L : Own(u[n]) = Own(t[n])
  <2>1. OwnGrew(t, nd, u)
    BY GrownOwn
  <2> QED
    BY <1>1, <2>1 DEF OwnGrew
<1>3. PICK a \in Seq(Seq(Pieces)) :
        /\ a = Owned(t, fs) /\ Len(a) = L
        /\ \A n \in 1 .. L : a[n] = IF Unread(fs, n) THEN <<>> ELSE Own(t[n])
  <2>1. PICK a \in Seq(Seq(Pieces)) : IsOwned(a, t, fs)
    BY OwnedTyped
  <2> QED
    BY <1>1, <2>1 DEF IsOwned
<1>4. PICK b \in Seq(Seq(Pieces)) :
        /\ b = Owned(u, gs) /\ Len(b) = L + 1
        /\ \A n \in 1 .. L + 1 : b[n] = IF Unread(gs, n) THEN <<>> ELSE Own(u[n])
  <2>1. PICK b \in Seq(Seq(Pieces)) : IsOwned(b, u, gs)
    BY <1>2, OwnedTyped
  <2> QED
    BY <1>2, <2>1 DEF IsOwned
<1>5. PICK c \in Seq(Seq(Pieces)) : LongerBy(c, a, w)
  BY OneMore
<1>8. /\ \A n : ~Unread(fs, n)
      /\ \A n \in 1 .. L : ~Unread(gs, n)
      /\ Unread(gs, L + 1) => w = <<>>
      /\ ~Unread(gs, L + 1) => w = Own(nd)
  BY <1>1 DEF Adds
<1>6. b = c
  <2>1. Len(c) = L + 1
    BY <1>3, <1>5, AppendProperties DEF LongerBy
  <2>2. ASSUME NEW n \in 1 .. L + 1 PROVE b[n] = c[n]
    <3>1. CASE n = L + 1
      BY <1>2, <1>3, <1>4, <1>5, <1>8, <3>1 DEF LongerBy
    <3>2. CASE n \in 1 .. L
      BY <1>2, <1>3, <1>4, <1>5, <1>8, <3>2 DEF LongerBy
    <3> QED
      BY <3>1, <3>2
  <2> QED
    BY <1>4, <2>1, <2>2, SeqEqual
<1>7. Flat(Append(a, w)) = Join2(Flat(a), w)
  BY FlatMore DEF Join2
<1> QED
  BY <1>3, <1>4, <1>5, <1>6, <1>7, Zenon DEF LongerBy

CallAdded(fs, s, f, ks) ==
  /\ ks # <<>> /\ ks[1] = f
  /\ \A i \in DOMAIN ks : i # 1 => \/ ks[i].todo = s
                                  \/ \E j \in DOMAIN fs : j # 1 /\ ks[i] = fs[j]

LEMMA AddedCall ==
  ASSUME NEW fs \in Seq(CallFrame), fs # <<>>, NEW s \in Seq(Items), NEW f \in CallFrame,
         NEW ks, ks = <<f>> \o Onward(fs, s)
  PROVE  CallAdded(fs, s, f, ks)
<1>1. PICK gs : gs = Onward(fs, s)
  OBVIOUS
<1>2. /\ gs \in Seq(CallFrame) /\ DOMAIN gs = DOMAIN fs /\ gs[1].todo = s
      /\ \A i \in DOMAIN fs : i # 1 => gs[i] = fs[i]
  BY <1>1, OnwardFacts
<1>3. PICK G \in Nat : G = Len(gs) /\ DOMAIN gs = 1 .. G
  BY <1>2
<1>4. PICK one \in Seq(CallFrame) : one = <<f>> /\ Len(one) = 1 /\ one[1] = f
  <2>1. <<f>> \in Seq(CallFrame) /\ Len(<<f>>) = 1 /\ <<f>>[1] = f
    OBVIOUS
  <2> QED
    BY <2>1
<1>5. /\ ks \in Seq(CallFrame) /\ Len(ks) = G + 1
      /\ \A i \in 1 .. G + 1 : ks[i] = IF i <= 1 THEN one[i] ELSE gs[i - 1]
  BY <1>1, <1>2, <1>3, <1>4, ConcatProperties
<1>6. DOMAIN ks = 1 .. G + 1 /\ ks # <<>> /\ ks[1] = f
  BY <1>3, <1>4, <1>5
<1>7. ASSUME NEW i \in DOMAIN ks, i # 1
      PROVE  ks[i].todo = s \/ \E j \in DOMAIN fs : j # 1 /\ ks[i] = fs[j]
  <2>1. i - 1 \in DOMAIN fs /\ ks[i] = gs[i - 1]
    BY <1>2, <1>3, <1>5, <1>6, <1>7
  <2>2. CASE i - 1 = 1
    BY <1>2, <2>1, <2>2
  <2>3. CASE i - 1 # 1
    BY <1>2, <2>1, <2>3
  <2> QED
    BY <2>2, <2>3
<1> QED
  BY <1>6, <1>7 DEF CallAdded

(* A call begins, on a node with these pieces of the text. *)
LEMMA BeginsStep ==
  ASSUME NInv, IInv', NEW x, NEW g, NEW h, NEW l, Reading(x, g, h, l), ~Light(x),
         NEW items \in Seq(Items), AllPlain(items), NEW nd \in Node, NEW todo \in Seq(Items),
         Begins(nd, todo, items), Fits(todo, nd, TRUE),
         NEW w \in Seq(Pieces), HasNumber(todo) => w = <<>>, ~HasNumber(todo) => w = Own(nd),
         Flat(Taken(source', pos')) = Join2(Flat(Taken(source, pos)), w)
  PROVE  NInv'
<1>1. InOrder(ast, frames) /\ Flat(Owned(ast, frames)) = Flat(Taken(source, pos))
  BY DEF NInv
<1>2. /\ ast \in Seq(Node) /\ h \in DOMAIN ast /\ frames # <<>> /\ h = frames[1].node
      /\ frames \in Seq(CallFrame) /\ g \in Seq(Items) /\ AllPlain(g)
      /\ ~HasNumber(frames[1].todo)
  <2>1. ~Takes(x, "number")
    BY DEF Light, Takes
  <2>2. AllPlain(g)
    BY <1>1, TopItems
  <2>3. ~HasNumber(g)
    BY <2>2, PlainFits
  <2> QED
    BY <1>1, <2>1, <2>2, <2>3, TopItems DEF Reading, Readable, CallsOK
<1>3. PICK L \in Nat : L = Len(ast) /\ DOMAIN ast = 1 .. L
  BY <1>2
<1>4. ast' = GrownTree(ast, h, nd)
  BY <1>2 DEF Begins, Grown, GrownTree, Here
<1>5. ast'[L + 1] = nd /\ Len(ast') = L + 1
  <2>1. OwnGrew(ast, nd, ast')
    BY <1>2, <1>4, GrownOwn
  <2> QED
    BY <1>3, <2>1 DEF OwnGrew
<1>6. PICK s \in Seq(Items) : s = items \o g /\ AllPlain(s)
  <2>1. AllPlain(items \o g) /\ items \o g \in Seq(Items)
    BY <1>2, PlainRow
  <2> QED
    BY <2>1
<1>7. PICK f \in CallFrame : f = [node |-> L + 1, todo |-> todo] /\ f.node = L + 1 /\ f.todo = todo
  <2>1. [node |-> L + 1, todo |-> todo] \in CallFrame
    BY DEF CallFrame
  <2> QED
    BY <2>1
<1>8. PICK ks : ks = <<f>> \o Onward(frames, s)
  OBVIOUS
<1>9. frames' = ks
  <2>1. After(items) = Onward(frames, items \o g)
    BY AfterIs
  <2> QED
    BY <1>3, <1>6, <1>7, <1>8, <2>1 DEF Begins
<1>10. CallAdded(frames, s, f, ks)
  <2>1. frames \in Seq(CallFrame) /\ frames # <<>>
    BY <1>2
  <2> QED
    BY <1>8, <2>1, AddedCall
<1>11. ks # <<>> /\ ks[1] = f
       /\ \A i \in DOMAIN ks : i # 1 => \/ ks[i].todo = s
                                       \/ \E j \in DOMAIN frames : j # 1 /\ ks[i] = frames[j]
  BY <1>10 DEF CallAdded
<1>15. InOrder(ast', ks)
  <2>1. \A i \in DOMAIN ks : i # 1 => AllPlain(ks[i].todo)
    BY <1>1, <1>6, <1>11 DEF InOrder
  <2>2. Fits(ks[1].todo, ast'[ks[1].node], ks[1].node = Len(ast'))
    BY <1>5, <1>7, <1>11
  <2> QED
    BY <2>1, <2>2 DEF InOrder
<1>16. \A n : Unread(ks, n) <=> n = L + 1 /\ HasNumber(todo)
  BY <1>7, <1>11 DEF Unread
<1>17. \A n : ~Unread(frames, n)
  BY <1>2 DEF Unread
<1>18. Adds(ast, frames, ks, nd, w)
  BY <1>3, <1>16, <1>17 DEF Adds
<1>19. Flat(Owned(ast', ks)) = Join2(Flat(Owned(ast, frames)), w)
  <2>1. ast \in Seq(Node) /\ h \in DOMAIN ast
    BY <1>2
  <2> QED
    BY <1>4, <1>18, <2>1, OwnedGrown
<1> QED
  BY <1>1, <1>9, <1>15, <1>19 DEF NInv

LEMMA AllocatesStep ==
  ASSUME NInv, IInv', NEW x, NEW g, NEW h, NEW l, Reading(x, g, h, l), ~Light(x),
         NEW items \in Seq(Items), AllPlain(items), NEW nd \in Node, NEW todo \in Seq(Items),
         Begins(nd, todo, items), Fits(todo, nd, TRUE), HasNumber(todo) \/ Own(nd) = <<>>, Skips
  PROVE  NInv'
<1>1. PICK w \in Seq(Pieces) : w = <<>>
  <2>1. <<>> \in Seq(Pieces)
    OBVIOUS
  <2> QED
    BY <2>1
<1>2. Flat(Taken(source', pos')) = Flat(Taken(source, pos)) /\ Flat(Taken(source, pos)) \in Seq(Pieces)
  BY SkipsFlat, TakenTyped, FlatTyped DEF NInv, IInv
<1>3. Flat(Taken(source', pos')) = Join2(Flat(Taken(source, pos)), w)
  BY <1>1, <1>2, NothingMore
<1> QED
  BY <1>1, <1>3, BeginsStep

LEMMA LeafStep ==
  ASSUME NInv, IInv', NEW x, NEW g, NEW h, NEW l, Reading(x, g, h, l), ~Light(x),
         NEW nd \in Node, ast' = Grown(nd), frames' = After(<<>>),
         Flat(Taken(source', pos')) = Join2(Flat(Taken(source, pos)), Own(nd))
  PROVE  NInv'
<1>1. InOrder(ast, frames) /\ Flat(Owned(ast, frames)) = Flat(Taken(source, pos))
  BY DEF NInv
<1>2. /\ ast \in Seq(Node) /\ h \in DOMAIN ast /\ frames # <<>> /\ h = frames[1].node
      /\ frames \in Seq(CallFrame) /\ g \in Seq(Items) /\ AllPlain(g)
      /\ ~HasNumber(frames[1].todo)
  <2>1. ~Takes(x, "number")
    BY DEF Light, Takes
  <2>2. AllPlain(g)
    BY <1>1, TopItems
  <2>3. ~HasNumber(g)
    BY <2>2, PlainFits
  <2> QED
    BY <1>1, <2>1, <2>2, <2>3, TopItems DEF Reading, Readable, CallsOK
<1>3. ast' = GrownTree(ast, h, nd)
  BY <1>2 DEF Grown, GrownTree, Here
<1>4. PICK gs : gs = Onward(frames, g)
  OBVIOUS
<1>5. frames' = gs
  BY <1>4, AfterNothing
<1>6. /\ DOMAIN gs = DOMAIN frames /\ gs[1].todo = g
      /\ \A i \in DOMAIN frames : i # 1 => gs[i] = frames[i]
  <2>1. frames \in Seq(CallFrame) /\ frames # <<>> /\ g \in Seq(Items)
    BY <1>2
  <2> QED
    BY <1>4, <2>1, OnwardFacts
<1>7. InOrder(ast', gs)
  BY <1>1, <1>2, <1>6, PlainFits DEF InOrder
<1>8. \A n : ~Unread(gs, n) /\ ~Unread(frames, n)
  BY <1>2, <1>6, PlainFits DEF Unread
<1>9. PICK w \in Seq(Pieces) : w = Own(nd)
  BY OwnTyped
<1>10. Flat(Owned(ast', gs)) = Join2(Flat(Owned(ast, frames)), w)
  <2>1. Adds(ast, frames, gs, nd, w)
    BY <1>8, <1>9 DEF Adds
  <2>2. ast \in Seq(Node) /\ h \in DOMAIN ast
    BY <1>2
  <2>3. w \in Seq(Pieces)
    BY <1>9
  <2> QED
    BY <1>3, <2>1, <2>2, <2>3, OwnedGrown
<1> QED
  BY <1>1, <1>5, <1>7, <1>9, <1>10 DEF NInv

-----------------------------------------------------------------------------
(* A node for an operator, which holds nothing of the text, comes before   *)
(* its left operand.                                                       *)

LEMMA EmptyOwn ==
  ASSUME NEW nd, nd.kind \notin {"int", "string"}, ~Numbered(nd), nd.name = "-", nd.params = <<>>
  PROVE  Own(nd) = <<>>
<1>1. Listed(nd.params) = <<>>
  BY DEF Listed
<1>2. Join2(<<>>, <<>>) = <<>>
  BY DEF Join2
<1> QED
  BY <1>1, <1>2, OwnIs

LEMMA BlankOwn ==
  ASSUME NEW k, k \notin {"int", "string"}
  PROVE  Own(Blank(k)) = <<>>
<1>1. /\ Blank(k).kind = k /\ Blank(k).par = "regular" /\ Blank(k).name = "-"
      /\ Blank(k).params = <<>>
  BY DEF Blank
<1> QED
  BY <1>1, EmptyOwn DEF Numbered

LEMMA JoinedOwn ==
  ASSUME NEW t, NEW h, NEW o \in BinaryOps, NEW l, NEW r, Latest(t, h, l, r),
         NEW u, u = JoinedTree(t, h, o, l, r)
  PROVE  \A n \in 1 .. Len(t) + 1 :
           Own(u[n]) = IF n < l THEN Own(t[n]) ELSE IF n = l THEN <<>> ELSE Own(t[n - 1])
<1>1. Operands(t, h, l, r)
  BY OperandFacts
<1>2. /\ t \in Seq(Node) /\ Len(t) \in Nat /\ DOMAIN t = 1 .. Len(t)
      /\ h \in 1 .. Len(t) /\ l \in 1 .. Len(t) /\ h < l
  BY <1>1 DEF Operands
<1> SUFFICES ASSUME NEW n \in 1 .. Len(t) + 1
             PROVE  Own(u[n]) = IF n < l THEN Own(t[n]) ELSE IF n = l THEN <<>> ELSE Own(t[n - 1])
  OBVIOUS
<1>3. CASE n = h
  <2>4. ~(n = l) /\ ~(n > l) /\ n < l
    BY <1>2, <1>3
  <2>1. u[n] = [t[n] EXCEPT !.kids = SubSeq(t[n].kids, 1, Len(t[n].kids) - 1)]
    BY <1>3, <2>4 DEF JoinedTree
  <2>2. PICK b \in Node : b = t[n]
    BY <1>2, <1>3
  <2>3. \A v : Own([b EXCEPT !.kids = v]) = Own(b)
    BY FieldOwn
  <2>5. Own(u[n]) = Own(t[n])
    BY <2>1, <2>2, <2>3
  <2> QED
    BY <2>4, <2>5
<1>4. CASE n < l /\ n # h
  <2>1. ~(n = l) /\ ~(n > l)
    BY <1>2, <1>4
  <2>2. u[n] = t[n]
    BY <1>4, <2>1 DEF JoinedTree
  <2> QED
    BY <1>4, <2>2
<1>5. CASE n = l
  <2>1. u[n] = [Blank("binop") EXCEPT !.op = o, !.kids = <<l + 1, r + 1>>]
    BY <1>2, <1>5 DEF JoinedTree
  <2>2. /\ u[n].kind = "binop" /\ u[n].name = "-" /\ u[n].params = <<>>
    BY <2>1 DEF Blank
  <2>3. Own(u[n]) = <<>>
    BY <2>2, EmptyOwn DEF Numbered
  <2> QED
    BY <1>2, <1>5, <2>3
<1>6. CASE n > l
  <2>1. u[n] = Moved(t[n - 1], l) /\ n - 1 \in 1 .. Len(t) /\ ~(n < l) /\ n # l
    BY <1>2, <1>6 DEF JoinedTree
  <2>2. PICK b \in Node : b = t[n - 1]
    BY <1>2, <2>1
  <2>3. \A v : Own([b EXCEPT !.kids = v]) = Own(b)
    BY FieldOwn
  <2>4. Own(Moved(b, l)) = Own(b)
    BY <2>3 DEF Moved
  <2> QED
    BY <2>1, <2>2, <2>4
<1>7. n < l \/ n = l \/ n > l
  BY <1>2
<1> QED
  BY <1>3, <1>4, <1>5, <1>6, <1>7
LEMMA OwnedJoined ==
  ASSUME NEW t, NEW h, NEW o \in BinaryOps, NEW l, NEW r, Latest(t, h, l, r),
         NEW u, u = JoinedTree(t, h, o, l, r),
         NEW fs, NEW gs, \A n : ~Unread(fs, n) /\ ~Unread(gs, n)
  PROVE  Flat(Owned(u, gs)) = Flat(Owned(t, fs))
<1>1. Operands(t, h, l, r) /\ Joins(t, h, o, l, r, u)
  BY OperandFacts, JoinFacts
<1>2. /\ t \in Seq(Node) /\ l \in 1 .. Len(t) /\ u \in Seq(Node) /\ Len(u) = Len(t) + 1
      /\ Len(t) \in Nat
  BY <1>1 DEF Operands, Joins
<1>3. PICK L \in Nat : L = Len(t)
  BY <1>2
<1>4. PICK a \in Seq(Seq(Pieces)) :
        a = Owned(t, fs) /\ Len(a) = L /\ \A n \in 1 .. L : a[n] = Own(t[n])
  <2>1. PICK a \in Seq(Seq(Pieces)) : IsOwned(a, t, fs)
    BY <1>2, OwnedTyped
  <2> QED
    BY <1>3, <2>1 DEF IsOwned
<1>5. PICK b \in Seq(Seq(Pieces)) :
        b = Owned(u, gs) /\ Len(b) = L + 1 /\ \A n \in 1 .. L + 1 : b[n] = Own(u[n])
  <2>1. PICK b \in Seq(Seq(Pieces)) : IsOwned(b, u, gs)
    BY <1>2, OwnedTyped
  <2> QED
    BY <1>2, <1>3, <2>1 DEF IsOwned
<1>6. PICK c \in Seq(Seq(Pieces)) :
        /\ c = Inserted(a, l) /\ Len(c) = L + 1
        /\ \A n \in 1 .. L + 1 : c[n] = IF n < l THEN a[n] ELSE IF n = l THEN <<>> ELSE a[n - 1]
  <2>1. l \in 1 .. Len(a) + 1
    BY <1>2, <1>3, <1>4
  <2>2. PICK c : c = Inserted(a, l)
    OBVIOUS
  <2>3. /\ c \in Seq(Seq(Pieces)) /\ Len(c) = Len(a) + 1
        /\ \A n \in 1 .. Len(a) + 1 :
             c[n] = IF n < l THEN a[n] ELSE IF n = l THEN <<>> ELSE a[n - 1]
    BY <2>1, <2>2, InsertedTyped
  <2> QED
    BY <1>4, <2>2, <2>3
<1>7. \A n \in 1 .. L + 1 :
        Own(u[n]) = IF n < l THEN Own(t[n]) ELSE IF n = l THEN <<>> ELSE Own(t[n - 1])
  BY <1>3, JoinedOwn
<1>8. b = c
  <2>1. ASSUME NEW n \in 1 .. L + 1 PROVE b[n] = c[n]
    <3>1. CASE n < l
      <4>1. n \in 1 .. L
        BY <1>2, <1>3, <3>1
      <4> QED
        BY <1>4, <1>5, <1>6, <1>7, <3>1, <4>1
    <3>2. CASE n = l
      <4>1. ~(n < l)
        BY <1>2, <3>2
      <4> QED
        BY <1>5, <1>6, <1>7, <3>2, <4>1
    <3>3. CASE n > l
      <4>1. n - 1 \in 1 .. L /\ ~(n < l) /\ n # l
        BY <1>2, <1>3, <3>3
      <4> QED
        BY <1>4, <1>5, <1>6, <1>7, <4>1
    <3> QED
      BY <1>2, <3>1, <3>2, <3>3
  <2> QED
    BY <1>5, <1>6, <2>1, SeqEqual
<1>9. Flat(Inserted(a, l)) = Flat(a)
  <2>1. l \in 1 .. Len(a) + 1
    BY <1>2, <1>3, <1>4
  <2> QED
    BY <2>1, FlatInserted
<1> QED
  BY <1>4, <1>5, <1>6, <1>8, <1>9

LEMMA HeavyTop ==
  ASSUME NInv, NEW x, NEW g, NEW h, NEW l, Reading(x, g, h, l), ~Light(x)
  PROVE  AllPlain(g) /\ \A n : ~Unread(frames, n)
<1>1. ~Takes(x, "number")
  BY DEF Light, Takes
<1>2. AllPlain(g)
  BY TopItems DEF NInv
<1>3. ~HasNumber(frames[1].todo)
  <2>1. ~HasNumber(g)
    BY <1>2, PlainFits
  <2> QED
    BY <1>1, <2>1, TopItems DEF NInv
<1> QED
  BY <1>2, <1>3 DEF Unread

LEMMA JoinStep ==
  ASSUME NInv, IInv', Join
  PROVE  NInv'
<1>1. PICK x \in Items, g \in Seq(Items), h \in DOMAIN ast, l \in Looks :
        Reading(x, g, h, l) /\ x.op = "join"
  BY NextItem DEF Join, NInv
<1>2. /\ x = Todo[1] /\ Here = h /\ h = frames[1].node /\ Can(x, l)
      /\ Readable(ast, frames) /\ frames # <<>> /\ l = Look(ast, h) /\ AtTheEnd(ast, h)
      /\ frames \in Seq(CallFrame)
  BY <1>1 DEF Reading, Todo, Here, Readable, CallsOK
<1>3. x.what \in BinaryOps /\ Len(l.kids) >= 2
  BY <1>1, <1>2 DEF Can, Idle, Single
<1>4. TreeOK(ast)
  BY <1>2 DEF Readable
<1>5. Len(ast[h].kids) >= 2
  BY <1>2, <1>3, <1>4, LookFacts
<1>6. PICK a : a = ast[h].kids[Len(ast[h].kids) - 1]
  OBVIOUS
<1>7. PICK b : b = ast[h].kids[Len(ast[h].kids)]
  OBVIOUS
<1>8. Latest(ast, h, a, b)
  BY <1>2, <1>4, <1>5, <1>6, <1>7 DEF Latest
<1>9. ast' = JoinedTree(ast, h, x.what, a, b)
  BY <1>2, <1>6, <1>7 DEF Join, Joined, JoinedTree
<1>10. PICK gs : gs = Onward(frames, g)
  OBVIOUS
<1>11. frames' = gs /\ source' = source /\ pos' = pos
  <2>1. frames' = After(<<>>) /\ pos \in Int
    BY DEF Join, NInv, IInv
  <2> QED
    BY <1>1, <1>10, <2>1, AfterNothing DEF Join, Advance
<1>12. /\ DOMAIN gs = DOMAIN frames /\ gs # <<>> /\ gs[1].todo = g
       /\ \A i \in DOMAIN frames : i # 1 => gs[i] = frames[i]
  <2>1. frames \in Seq(CallFrame) /\ frames # <<>>
    BY <1>2
  <2> QED
    BY <1>10, <2>1, OnwardFacts
<1>13. AllPlain(g) /\ \A n : ~Unread(frames, n)
  <2>1. ~Light(x)
    BY <1>1 DEF Light, OfParams
  <2> QED
    BY <1>1, <2>1, HeavyTop
<1>14. InOrder(ast', gs)
  BY <1>12, <1>13, PlainFits DEF InOrder, NInv
<1>15. \A n : ~Unread(gs, n)
  BY <1>12, <1>13, PlainFits DEF Unread
<1>16. Flat(Owned(ast', gs)) = Flat(Owned(ast, frames))
  BY <1>3, <1>8, <1>9, <1>13, <1>15, OwnedJoined
<1> QED
  BY <1>11, <1>14, <1>16 DEF NInv

LEMMA ReturnStep ==
  ASSUME NInv, IInv', Return
  PROVE  NInv'
<1>1. /\ frames # <<>> /\ frames[1].todo = <<>> /\ frames' = Tail(frames)
      /\ UNCHANGED <<source, pos, ast>>
  BY DEF Return, Todo
<1>2. frames \in Seq(CallFrame) /\ ast \in Seq(Node)
  BY DEF NInv, IInv, Readable, CallsOK, TreeOK
<1>3. PICK n \in Nat : Len(frames) = n /\ DOMAIN frames = 1 .. n /\ n >= 1
  BY <1>1, <1>2
<1>4. PICK gs : gs = Tail(frames)
  OBVIOUS
<1>5. DOMAIN gs = 1 .. n - 1 /\ \A i \in 1 .. n - 1 : gs[i] = frames[i + 1]
  BY <1>1, <1>2, <1>3, <1>4
<1>6. \A i \in DOMAIN gs : AllPlain(gs[i].todo)
  <2> TAKE i \in DOMAIN gs
  <2>1. i + 1 \in DOMAIN frames /\ i + 1 # 1 /\ gs[i] = frames[i + 1]
    BY <1>3, <1>5
  <2> QED
    BY <2>1 DEF NInv, InOrder
<1>7. gs # <<>> => AllPlain(gs[1].todo)
  <2> HAVE gs # <<>>
  <2>1. gs \in Seq(CallFrame)
    BY <1>1, <1>2, <1>4
  <2>2. 1 \in DOMAIN gs
    BY <2>1
  <2> QED
    BY <1>6, <2>2
<1>8. InOrder(ast', gs)
  BY <1>6, <1>7, PlainFits DEF InOrder
<1>9. \A m : ~Unread(gs, m) /\ ~Unread(frames, m)
  <2>1. ~HasNumber(<<>>)
    BY DEF HasNumber
  <2> QED
    BY <1>1, <1>7, <2>1, PlainFits DEF Unread
<1>10. Owned(ast, gs) = Owned(ast, frames)
  BY <1>2, <1>9, OwnedSame
<1> QED
  BY <1>1, <1>4, <1>8, <1>10 DEF NInv

-----------------------------------------------------------------------------
(* The items of the constructs *)

LEMMA PlainItems ==
  /\ \A k \in Words \cup Marks : Eat(k) \in Items /\ Plain(Eat(k)) /\ Eat(k).op = "eat" /\ Eat(k).what = k
  /\ \A o \in Ops \ {"eat", "value", "param", "type", "list"} : Enter(o) \in Items /\ Plain(Enter(o))
  /\ Enter("comma") \in Items /\ Plain(Enter("comma"))
  /\ \A w \in Whats : /\ w # "params" => List(w) \in Items /\ Plain(List(w))
                      /\ CallIn(w) \in Items /\ Plain(CallIn(w))
                      /\ Item("join", w, 0) \in Items /\ Plain(Item("join", w, 0))
  /\ \A n \in Nat : More(n) \in Items /\ Plain(More(n))
<1>1. ASSUME NEW k \in Words \cup Marks
      PROVE  Eat(k) \in Items /\ Plain(Eat(k)) /\ Eat(k).op = "eat" /\ Eat(k).what = k
  <2>1. k \in Whats
    BY DEF Whats
  <2> QED
    BY <2>1, ItemFacts DEF Plain, OfParams
<1>2. ASSUME NEW o \in Ops \ {"eat", "value", "param", "type", "list"}
      PROVE  Enter(o) \in Items /\ Plain(Enter(o))
  BY ItemFacts DEF Plain, OfParams
<1>3. Enter("comma") \in Items /\ Plain(Enter("comma"))
  <2>1. "comma" \in Ops
    BY DEF Ops
  <2> QED
    BY <2>1, <1>2
<1>4. ASSUME NEW w \in Whats
      PROVE  /\ w # "params" => List(w) \in Items /\ Plain(List(w))
             /\ CallIn(w) \in Items /\ Plain(CallIn(w))
             /\ Item("join", w, 0) \in Items /\ Plain(Item("join", w, 0))
  <2>1. "join" \in Ops
    BY DEF Ops
  <2> QED
    BY <2>1, ItemFacts DEF Plain, OfParams
<1>5. ASSUME NEW n \in Nat PROVE More(n) \in Items /\ Plain(More(n))
  BY ItemFacts DEF Plain, OfParams
<1> QED
  BY <1>1, <1>2, <1>3, <1>4, <1>5

LEMMA PlainRows ==
  /\ <<>> \in Seq(Items) /\ AllPlain(<<>>)
  /\ \A a \in Items : Plain(a) => <<a>> \in Seq(Items) /\ AllPlain(<<a>>)
  /\ \A a, b \in Items : Plain(a) /\ Plain(b) => <<a, b>> \in Seq(Items) /\ AllPlain(<<a, b>>)
  /\ \A a, b, c \in Items : Plain(a) /\ Plain(b) /\ Plain(c) =>
       <<a, b, c>> \in Seq(Items) /\ AllPlain(<<a, b, c>>)
  /\ \A a, b, c, d \in Items : Plain(a) /\ Plain(b) /\ Plain(c) /\ Plain(d) =>
       <<a, b, c, d>> \in Seq(Items) /\ AllPlain(<<a, b, c, d>>)
<1>1. <<>> \in Seq(Items) /\ AllPlain(<<>>)
  BY DEF AllPlain
<1>2. ASSUME NEW a \in Items, Plain(a) PROVE <<a>> \in Seq(Items) /\ AllPlain(<<a>>)
  BY <1>2 DEF AllPlain
<1>3. ASSUME NEW a \in Items, NEW b \in Items, Plain(a), Plain(b)
      PROVE  <<a, b>> \in Seq(Items) /\ AllPlain(<<a, b>>)
  <2>1. \A i \in 1 .. 2 : i = 1 \/ i = 2
    OBVIOUS
  <2> QED
    BY <1>3, <2>1 DEF AllPlain
<1>4. ASSUME NEW a \in Items, NEW b \in Items, NEW c \in Items, Plain(a), Plain(b), Plain(c)
      PROVE  <<a, b, c>> \in Seq(Items) /\ AllPlain(<<a, b, c>>)
  <2>1. \A i \in 1 .. 3 : i = 1 \/ i = 2 \/ i = 3
    OBVIOUS
  <2> QED
    BY <1>4, <2>1 DEF AllPlain
<1>5. ASSUME NEW a \in Items, NEW b \in Items, NEW c \in Items, NEW d \in Items,
             Plain(a), Plain(b), Plain(c), Plain(d)
      PROVE  <<a, b, c, d>> \in Seq(Items) /\ AllPlain(<<a, b, c, d>>)
  <2>1. \A i \in 1 .. 4 : i = 1 \/ i = 2 \/ i = 3 \/ i = 4
    OBVIOUS
  <2> QED
    BY <1>5, <2>1 DEF AllPlain
<1> QED
  BY <1>1, <1>2, <1>3, <1>4, <1>5

(* The words, as elements of the sets they are in *)
LEMMA WordFacts ==
  /\ {"print", "if", "else", "for", "func", "return", "process", "thread", "await"} \subseteq Words
  /\ {";", "(", ")", "{", "}", ",", "=", "!"} \subseteq Marks
  /\ UpdateOps \subseteq Marks /\ DOMAIN RuleOf \subseteq Marks /\ TypeWords \subseteq Words
  /\ (Words \cup Marks) \cap Content = {} /\ "eof" \notin Words \cup Marks
BY DEF Words, Marks, TypeWords, UpdateOps, RuleOf, Content

LEMMA PlainOperand ==
  ASSUME NEW k \in 1 .. 5
  PROVE  Operand(k) \in Seq(Items) /\ AllPlain(Operand(k))
<1> DEFINE mores == [i \in 1 .. 5 - k |-> More(5 - i)]
<1>1. \A i \in 1 .. 5 - k : More(5 - i) \in Items /\ Plain(More(5 - i))
  BY PlainItems
<1>2. mores \in Seq(Items) /\ AllPlain(mores)
  BY <1>1 DEF AllPlain
<1>3. PICK m : m = mores
  OBVIOUS
<1>4. "unary" \in Ops \ {"eat", "value", "param", "type", "list"}
  BY DEF Ops, Single
<1>5. <<Enter("unary")>> \in Seq(Items) /\ AllPlain(<<Enter("unary")>>)
  BY <1>4, PlainItems, PlainRows
<1>6. Operand(k) = <<Enter("unary")>> \o m
  BY <1>3 DEF Operand
<1> QED
  BY <1>2, <1>3, <1>5, <1>6, PlainRow

LEMMA PlainExpression == Expression \in Seq(Items) /\ AllPlain(Expression)
<1>1. 1 \in 1 .. 5
  OBVIOUS
<1> QED
  BY <1>1, PlainOperand DEF Expression

LEMMA PlainBraces ==
  ASSUME NEW list \in {"statements", "names"}
  PROVE  Braces(list) \in Seq(Items) /\ AllPlain(Braces(list))
<1>1. list \in Whats /\ list # "params"
  BY Spoken
<1>2. /\ Eat("{") \in Items /\ Plain(Eat("{")) /\ Eat("}") \in Items /\ Plain(Eat("}"))
      /\ List(list) \in Items /\ Plain(List(list))
  BY <1>1, WordFacts, PlainItems
<1> QED
  BY <1>2, PlainRows DEF Braces

LEMMA PlainElement ==
  ASSUME NEW w \in {"program", "statements", "arguments", "names"}
  PROVE  Element(w) \o <<List(w)>> \in Seq(Items) /\ AllPlain(Element(w) \o <<List(w)>>)
<1>1. w \in Whats /\ w # "params"
  BY Spoken
<1>2. <<List(w)>> \in Seq(Items) /\ AllPlain(<<List(w)>>)
  BY <1>1, PlainItems, PlainRows
<1>3. {"awaited", "statement"} \subseteq Ops \ {"eat", "value", "param", "type", "list"}
  BY DEF Ops, Single
<1>4. /\ Enter("awaited") \in Items /\ Plain(Enter("awaited"))
      /\ Enter("statement") \in Items /\ Plain(Enter("statement"))
      /\ Enter("comma") \in Items /\ Plain(Enter("comma"))
  BY <1>3, PlainItems
<1>5. PICK e : e = Element(w)
  OBVIOUS
<1>6. e \in Seq(Items) /\ AllPlain(e)
  <2>1. CASE w = "arguments"
    <3>1. e = Expression \o <<Enter("comma")>>
      BY <1>5, <2>1 DEF Element
    <3>2. <<Enter("comma")>> \in Seq(Items) /\ AllPlain(<<Enter("comma")>>)
      BY <1>4, PlainRows
    <3> QED
      BY <3>1, <3>2, PlainExpression, PlainRow
  <2>2. CASE w = "names"
    <3>1. e = <<Enter("awaited"), Enter("comma")>>
      BY <1>5, <2>2 DEF Element
    <3> QED
      BY <1>4, <3>1, PlainRows
  <2>3. CASE w \in {"program", "statements"}
    <3>1. e = <<Enter("statement")>>
      BY <1>5, <2>3 DEF Element
    <3> QED
      BY <1>4, <3>1, PlainRows
  <2> QED
    BY <2>1, <2>2, <2>3
<1> QED
  BY <1>2, <1>5, <1>6, PlainRow

(* An expression between words *)
LEMMA PlainAround ==
  ASSUME NEW a \in Seq(Items), NEW b \in Seq(Items), AllPlain(a), AllPlain(b)
  PROVE  (a \o Expression) \o b \in Seq(Items) /\ AllPlain((a \o Expression) \o b)
<1>1. PICK c : c = a \o Expression
  OBVIOUS
<1>2. c \in Seq(Items) /\ AllPlain(c)
  BY <1>1, PlainExpression, PlainRow
<1> QED
  BY <1>1, <1>2, PlainRow

LEMMA PlainLoop == LoopParts \in Seq(Items) /\ AllPlain(LoopParts)
<1>1. {"declaration", "update", "block"} \subseteq Ops \ {"eat", "value", "param", "type", "list"}
  BY DEF Ops, Single
<1>2. /\ Eat("for") \in Items /\ Plain(Eat("for")) /\ Eat("(") \in Items /\ Plain(Eat("("))
      /\ Eat(";") \in Items /\ Plain(Eat(";")) /\ Eat(")") \in Items /\ Plain(Eat(")"))
      /\ Enter("declaration") \in Items /\ Plain(Enter("declaration"))
      /\ Enter("update") \in Items /\ Plain(Enter("update"))
      /\ Enter("block") \in Items /\ Plain(Enter("block"))
  BY <1>1, WordFacts, PlainItems
<1>3. PICK a \in Seq(Items) : a = <<Eat("for"), Eat("("), Enter("declaration")>> /\ AllPlain(a)
  BY <1>2, PlainRows
<1>4. PICK b \in Seq(Items) : b = <<Eat(";"), Enter("update"), Eat(")"), Enter("block")>> /\ AllPlain(b)
  BY <1>2, PlainRows
<1>5. LoopParts = (a \o Expression) \o b
  BY <1>3, <1>4 DEF LoopParts
<1> QED
  BY <1>3, <1>4, <1>5, PlainAround

-----------------------------------------------------------------------------
(* Each action keeps the second invariant: those that leave the tree       *)

LEMMA QuietStep ==
  ASSUME NInv, IInv', NEW x, NEW g, NEW h, NEW l, Reading(x, g, h, l), ~Light(x),
         NEW items \in Seq(Items), AllPlain(items), Does(items)
  PROVE  NInv'
<1>1. frames' = After(items) /\ ast' = ast /\ Skips
  BY DEF Does, Skips
<1>2. Len(ast') = Len(ast) /\ \A n \in DOMAIN ast : Own(ast'[n]) = Own(ast[n])
  BY <1>1
<1> QED
  BY <1>1, <1>2, HeavyStep

LEMMA QuietTake ==
  ASSUME NInv, IInv', NEW x, NEW g, NEW h, NEW l, Reading(x, g, h, l), ~Light(x),
         NEW items \in Seq(Items), AllPlain(items), frames' = After(items), ast' = ast,
         NEW kinds, Sees(kinds), kinds \subseteq Words \cup Marks, Advance(1)
  PROVE  NInv'
<1>1. "eof" \notin kinds /\ kinds \cap Content = {}
  BY WordFacts
<1>2. Skips
  BY <1>1, SkipsToken DEF NInv
<1>3. Len(ast') = Len(ast) /\ \A n \in DOMAIN ast : Own(ast'[n]) = Own(ast[n])
  OBVIOUS
<1> QED
  BY <1>2, <1>3, HeavyStep

LEMMA Heavy ==
  \A x : \/ x.op \in Single \cup {"else", "value", "assign", "more", "join"}
         \/ x.op = "list" /\ x.what # "params"
         => ~Light(x)
BY DEF Light, OfParams, Single

LEMMA ListEndsStep ==
  ASSUME NInv, IInv', ListEnds
  PROVE  NInv'
<1>1. PICK x \in Items, g \in Seq(Items), h \in DOMAIN ast, l \in Looks :
        Reading(x, g, h, l) /\ x.op = "list"
  BY NextItem DEF ListEnds, NInv
<1>2. Does(<<>>)
  BY DEF ListEnds
<1>3. CASE x.what = "params"
  <2>1. ~Takes(x, "number") /\ frames' = After(<<>>) /\ ast' = ast /\ Skips
    BY <1>1, <1>2 DEF Takes, Does, Skips
  <2> QED
    BY <1>1, <2>1, LightStep
<1>4. CASE x.what # "params"
  BY <1>1, <1>2, <1>4, Heavy, PlainRows, QuietStep
<1> QED
  BY <1>3, <1>4

LEMMA ElseStep ==
  ASSUME NInv, IInv', ElseIf \/ ElseBlock \/ NoElse
  PROVE  NInv'
<1>1. PICK x \in Items, g \in Seq(Items), h \in DOMAIN ast, l \in Looks :
        Reading(x, g, h, l) /\ x.op = "else"
  BY NextItem DEF ElseIf, ElseBlock, NoElse, NInv
<1>2. {"if", "block"} \subseteq Ops \ {"eat", "value", "param", "type", "list"}
  BY DEF Ops, Single
<1>3. /\ Eat("else") \in Items /\ Plain(Eat("else")) /\ Enter("if") \in Items /\ Plain(Enter("if"))
      /\ Enter("block") \in Items /\ Plain(Enter("block"))
  BY <1>2, WordFacts, PlainItems
<1>4. PICK a \in Seq(Items) : a = <<Eat("else"), Enter("if")>> /\ AllPlain(a)
  BY <1>3, PlainRows
<1>5. PICK b \in Seq(Items) : b = <<Eat("else"), Enter("block")>> /\ AllPlain(b)
  BY <1>3, PlainRows
<1>6. PICK c \in Seq(Items) : c = <<>> /\ AllPlain(c)
  BY PlainRows
<1>7. PICK items \in Seq(Items) : AllPlain(items) /\ Does(items)
  BY <1>4, <1>5, <1>6 DEF ElseIf, ElseBlock, NoElse
<1> QED
  BY <1>1, <1>7, Heavy, QuietStep

LEMMA InThreadStep ==
  ASSUME NInv, IInv', ThreadBlock \/ ThreadStatement \/ ProcessStatement
  PROVE  NInv'
<1>1. PICK x \in Items, g \in Seq(Items), h \in DOMAIN ast, l \in Looks :
        Reading(x, g, h, l) /\ x.op = "statement"
  BY NextItem DEF ThreadBlock, ThreadStatement, ProcessStatement, Statement, NInv
<1>2. "inline" \in Ops \ {"eat", "value", "param", "type", "list"}
      /\ {"thread", "process"} \subseteq Whats
  BY Spoken DEF Ops, Single
<1>3. /\ Eat("thread") \in Items /\ Plain(Eat("thread"))
      /\ Enter("inline") \in Items /\ Plain(Enter("inline"))
      /\ CallIn("thread") \in Items /\ Plain(CallIn("thread"))
      /\ CallIn("process") \in Items /\ Plain(CallIn("process"))
  BY <1>2, WordFacts, PlainItems
<1>4. PICK a \in Seq(Items) : a = <<Eat("thread"), Enter("inline")>> /\ AllPlain(a)
  BY <1>3, PlainRows
<1>5. PICK b \in Seq(Items) : b = <<Eat("thread"), CallIn("thread")>> /\ AllPlain(b)
  BY <1>3, PlainRows
<1>6. PICK c \in Seq(Items) : c = <<CallIn("process")>> /\ AllPlain(c)
  BY <1>3, PlainRows
<1>7. PICK items \in Seq(Items) : AllPlain(items) /\ Does(items)
  BY <1>4, <1>5, <1>6 DEF ThreadBlock, ThreadStatement, ProcessStatement
<1>8. ~Light(x)
  BY <1>1, Heavy DEF Single
<1> QED
  BY <1>1, <1>7, <1>8, QuietStep

LEMMA OperatorStep ==
  ASSUME NInv, IInv', Operator
  PROVE  NInv'
<1>1. PICK x \in Items, g \in Seq(Items), h \in DOMAIN ast, l \in Looks :
        Reading(x, g, h, l) /\ x.op = "more"
  BY NextItem DEF Operator, NInv
<1>2. x = Todo[1] /\ Can(x, l)
  BY <1>1 DEF Reading, Todo
<1>3. x.level \in 1 .. 4
  BY <1>1, <1>2, MoreFacts
<1>4. Sees(Levels[x.level]) /\ Levels[x.level] \subseteq DOMAIN RuleOf /\ Advance(1) /\ ast' = ast
  BY <1>2, <1>3, NeverEnds DEF Operator
<1>5. PICK w \in BinaryOps : w = RuleOf[Peek(0).kind]
  BY <1>3, <1>4, NeverEnds DEF Sees
<1>6. Plain(x) /\ Item("join", w, 0) \in Items /\ Plain(Item("join", w, 0))
  <2>1. w \in Whats
    BY Spoken
  <2>2. Plain(x)
    BY <1>1 DEF Plain, OfParams
  <2> QED
    BY <2>1, <2>2, PlainItems
<1>7. PICK b \in Seq(Items) : b = <<Item("join", w, 0), x>> /\ AllPlain(b)
  BY <1>6, PlainRows
<1>8. PICK a \in Seq(Items) : a = Operand(x.level + 1) /\ AllPlain(a)
  <2>1. x.level + 1 \in 1 .. 5
    BY <1>3
  <2> QED
    BY <2>1, PlainOperand
<1>9. PICK items \in Seq(Items) : items = a \o b /\ AllPlain(items)
  BY <1>7, <1>8, PlainRow
<1>10. frames' = After(items)
  BY <1>2, <1>5, <1>7, <1>8, <1>9 DEF Operator
<1>11. Levels[x.level] \subseteq Words \cup Marks
  BY <1>4, WordFacts
<1> QED
  BY <1>1, <1>4, <1>9, <1>10, <1>11, Heavy, QuietTake

LEMMA NoOperatorStep ==
  ASSUME NInv, IInv', NoOperator
  PROVE  NInv'
<1>1. PICK x \in Items, g \in Seq(Items), h \in DOMAIN ast, l \in Looks :
        Reading(x, g, h, l) /\ x.op = "more"
  BY NextItem DEF NoOperator, NInv
<1>2. Does(<<>>)
  BY DEF NoOperator
<1> QED
  BY <1>1, <1>2, Heavy, PlainRows, QuietStep

LEMMA ParenthesisStep ==
  ASSUME NInv, IInv', Parenthesis
  PROVE  NInv'
<1>1. PICK x \in Items, g \in Seq(Items), h \in DOMAIN ast, l \in Looks :
        Reading(x, g, h, l) /\ x.op = "unary"
  BY NextItem DEF Parenthesis, NInv
<1>2. <<Eat(")")>> \in Seq(Items) /\ AllPlain(<<Eat(")")>>)
  BY WordFacts, PlainItems, PlainRows
<1>3. PICK items \in Seq(Items) : items = Expression \o <<Eat(")")>> /\ AllPlain(items)
  BY <1>2, PlainExpression, PlainRow
<1>4. frames' = After(items) /\ ast' = ast /\ Advance(1) /\ Sees({"("})
  BY <1>3 DEF Parenthesis
<1>5. {"("} \subseteq Words \cup Marks
  BY WordFacts
<1>6. ~Light(x)
  BY <1>1, Heavy DEF Single
<1> QED
  BY <1>1, <1>3, <1>4, <1>5, <1>6, QuietTake

LEMMA CommaStep ==
  ASSUME NInv, IInv', Comma
  PROVE  NInv'
<1>1. PICK x \in Items, g \in Seq(Items), h \in DOMAIN ast, l \in Looks :
        Reading(x, g, h, l) /\ x.op = "comma"
  BY NextItem DEF Comma, NInv
<1>2. frames' = After(<<>>) /\ ast' = ast /\ ~Takes(x, "number")
  BY <1>1 DEF Comma, Takes
<1>3. Skips
  <2>1. CASE Sees({","})
    <3>1. Advance(1) /\ "eof" \notin {","} /\ {","} \cap Content = {}
      BY <2>1 DEF Comma, Content
    <3> QED
      BY <2>1, <3>1, SkipsToken DEF NInv
  <2>2. CASE ~Sees({","})
    <3>1. Advance(0)
      BY <2>2 DEF Comma
    <3> QED
      BY <3>1 DEF Advance, NInv, IInv, Skips
  <2> QED
    BY <2>1, <2>2
<1> QED
  BY <1>1, <1>2, <1>3, LightStep

-----------------------------------------------------------------------------
(* The actions that begin a call                                           *)

LEMMA PlainCall ==
  ASSUME NInv, IInv', NEW x, NEW g, NEW h, NEW l, Reading(x, g, h, l), ~Light(x),
         NEW k \in Kinds \ {"int", "string"}, NEW todo \in Seq(Items), AllPlain(todo),
         Begins(Blank(k), todo, <<>>), Skips
  PROVE  NInv'
<1>1. Blank(k) \in Node /\ Own(Blank(k)) = <<>>
  BY BlankFacts, BlankOwn
<1>2. Fits(todo, Blank(k), TRUE)
  BY PlainFits
<1> QED
  BY <1>1, <1>2, PlainRows, AllocatesStep

LEMMA AllocatesPlain ==
  ASSUME NInv, IInv', NEW x, NEW g, NEW h, NEW l, Reading(x, g, h, l), x.op \in Single,
         NEW k \in Kinds \ {"int", "string"}, NEW todo \in Seq(Items), AllPlain(todo),
         Allocates(Blank(k), todo, <<>>)
  PROVE  NInv'
<1>1. Begins(Blank(k), todo, <<>>) /\ Skips
  BY DEF Allocates, Skips
<1> QED
  BY <1>1, Heavy, PlainCall

LEMMA StatementKinds ==
  {"print", "if", "block", "thread", "for", "return", "await", "unary", "decl", "update", "func",
   "call"} \subseteq Kinds \ {"int", "string"}
BY DEF Kinds, StmtKinds, ExprKinds

LEMMA PrintStep ==
  ASSUME NInv, IInv', PrintStatement
  PROVE  NInv'
<1>1. PICK x \in Items, g \in Seq(Items), h \in DOMAIN ast, l \in Looks :
        Reading(x, g, h, l) /\ x.op = "statement"
  BY NextItem DEF PrintStatement, Statement, NInv
<1>2. /\ Eat("print") \in Items /\ Plain(Eat("print")) /\ Eat("(") \in Items /\ Plain(Eat("("))
      /\ Eat(";") \in Items /\ Plain(Eat(";")) /\ Eat(")") \in Items /\ Plain(Eat(")"))
  BY WordFacts, PlainItems
<1>3. PICK a \in Seq(Items) : a = <<Eat("print"), Eat("(")>> /\ AllPlain(a)
  BY <1>2, PlainRows
<1>4. PICK b \in Seq(Items) : b = <<Eat(")"), Eat(";")>> /\ AllPlain(b)
  BY <1>2, PlainRows
<1>5. PICK c \in Seq(Items) : c = (a \o Expression) \o b /\ AllPlain(c)
  BY <1>3, <1>4, PlainAround
<1>6. Allocates(Blank("print"), c, <<>>)
  BY <1>3, <1>4, <1>5 DEF PrintStatement
<1>7. "print" \in Kinds \ {"int", "string"} /\ x.op \in Single
  BY <1>1, StatementKinds DEF Single
<1> QED
  BY <1>1, <1>5, <1>6, <1>7, AllocatesPlain

LEMMA IfStep ==
  ASSUME NInv, IInv', IfStatement
  PROVE  NInv'
<1>0. At("statement") \/ At("if")
  BY DEF IfStatement, Statement
<1>1. PICK x \in Items, g \in Seq(Items), h \in DOMAIN ast, l \in Looks :
        Reading(x, g, h, l) /\ x.op \in {"statement", "if"}
  BY <1>0, NextItem DEF NInv
<1>2. {"block", "else"} \subseteq Ops \ {"eat", "value", "param", "type", "list"}
  BY DEF Ops, Single
<1>3. /\ Eat("if") \in Items /\ Plain(Eat("if")) /\ Eat("(") \in Items /\ Plain(Eat("("))
      /\ Eat(")") \in Items /\ Plain(Eat(")"))
      /\ Enter("block") \in Items /\ Plain(Enter("block"))
      /\ Enter("else") \in Items /\ Plain(Enter("else"))
  BY <1>2, WordFacts, PlainItems
<1>4. PICK a \in Seq(Items) : a = <<Eat("if"), Eat("(")>> /\ AllPlain(a)
  BY <1>3, PlainRows
<1>5. PICK b \in Seq(Items) : b = <<Eat(")"), Enter("block"), Enter("else")>> /\ AllPlain(b)
  BY <1>3, PlainRows
<1>6. PICK c \in Seq(Items) : c = (a \o Expression) \o b /\ AllPlain(c)
  BY <1>4, <1>5, PlainAround
<1>7. Allocates(Blank("if"), c, <<>>)
  BY <1>4, <1>5, <1>6 DEF IfStatement
<1>8. "if" \in Kinds \ {"int", "string"} /\ x.op \in Single
  BY <1>1, StatementKinds DEF Single
<1> QED
  BY <1>1, <1>6, <1>7, <1>8, AllocatesPlain

LEMMA BlockStep ==
  ASSUME NInv, IInv', ParseBlock \/ ThreadBody
  PROVE  NInv'
<1>1. At("block") \/ At("inline")
  BY DEF ParseBlock, ThreadBody
<1>2. PICK x \in Items, g \in Seq(Items), h \in DOMAIN ast, l \in Looks :
        Reading(x, g, h, l) /\ x.op \in {"block", "inline"}
  BY <1>1, NextItem DEF NInv
<1>3. PICK k \in {"block", "thread"} : Allocates(Blank(k), Braces("statements"), <<>>)
  BY DEF ParseBlock, ThreadBody
<1>4. k \in Kinds \ {"int", "string"} /\ x.op \in Single
  BY <1>2, StatementKinds DEF Single
<1> QED
  BY <1>2, <1>3, <1>4, PlainBraces, AllocatesPlain

LEMMA ReturnStatementStep ==
  ASSUME NInv, IInv', ReturnStatement
  PROVE  NInv'
<1>1. PICK x \in Items, g \in Seq(Items), h \in DOMAIN ast, l \in Looks :
        Reading(x, g, h, l) /\ x.op = "statement"
  BY NextItem DEF ReturnStatement, Statement, NInv
<1>2. /\ Eat("return") \in Items /\ Plain(Eat("return")) /\ Eat(";") \in Items /\ Plain(Eat(";"))
  BY WordFacts, PlainItems
<1>3. PICK a \in Seq(Items) : a = <<Eat("return")>> /\ AllPlain(a)
  BY <1>2, PlainRows
<1>4. PICK b \in Seq(Items) : b = <<Eat(";")>> /\ AllPlain(b)
  BY <1>2, PlainRows
<1>5. PICK c \in Seq(Items) : c = (a \o Expression) \o b /\ AllPlain(c)
  BY <1>3, <1>4, PlainAround
<1>6. Allocates(Blank("return"), c, <<>>)
  BY <1>3, <1>4, <1>5 DEF ReturnStatement
<1>7. "return" \in Kinds \ {"int", "string"} /\ x.op \in Single
  BY <1>1, StatementKinds DEF Single
<1> QED
  BY <1>1, <1>5, <1>6, <1>7, AllocatesPlain

LEMMA AwaitStep ==
  ASSUME NInv, IInv', ParseAwait
  PROVE  NInv'
<1>1. PICK x \in Items, g \in Seq(Items), h \in DOMAIN ast, l \in Looks :
        Reading(x, g, h, l) /\ x.op = "statement"
  BY NextItem DEF ParseAwait, Statement, NInv
<1>2. /\ Eat("await") \in Items /\ Plain(Eat("await")) /\ Eat(";") \in Items /\ Plain(Eat(";"))
  BY WordFacts, PlainItems
<1>3. PICK a \in Seq(Items) : a = <<Eat("await")>> /\ AllPlain(a)
  BY <1>2, PlainRows
<1>4. PICK b \in Seq(Items) : b = <<Eat(";")>> /\ AllPlain(b)
  BY <1>2, PlainRows
<1>5. PICK d \in Seq(Items) : d = a \o Braces("names") /\ AllPlain(d)
  BY <1>3, PlainBraces, PlainRow
<1>6. PICK c \in Seq(Items) : c = d \o b /\ AllPlain(c)
  BY <1>4, <1>5, PlainRow
<1>7. Allocates(Blank("await"), c, <<>>)
  BY <1>3, <1>4, <1>5, <1>6 DEF ParseAwait
<1>8. "await" \in Kinds \ {"int", "string"} /\ x.op \in Single
  BY <1>1, StatementKinds DEF Single
<1> QED
  BY <1>1, <1>6, <1>7, <1>8, AllocatesPlain

LEMMA NegationStep ==
  ASSUME NInv, IInv', Negation
  PROVE  NInv'
<1>1. PICK x \in Items, g \in Seq(Items), h \in DOMAIN ast, l \in Looks :
        Reading(x, g, h, l) /\ x.op = "unary"
  BY NextItem DEF Negation, NInv
<1>2. "unary" \in Ops \ {"eat", "value", "param", "type", "list"}
  BY DEF Ops, Single
<1>3. PICK c \in Seq(Items) : c = <<Enter("unary")>> /\ AllPlain(c)
  BY <1>2, PlainItems, PlainRows
<1>4. Begins(Blank("unary"), c, <<>>) /\ Advance(1) /\ Sees({"!"})
  BY <1>3 DEF Negation
<1>5. Skips
  <2>1. "eof" \notin {"!"} /\ {"!"} \cap Content = {}
    BY DEF Content
  <2> QED
    BY <1>4, <2>1, SkipsToken DEF NInv
<1>6. "unary" \in Kinds \ {"int", "string"} /\ ~Light(x)
  BY <1>1, StatementKinds, Heavy DEF Single
<1> QED
  BY <1>1, <1>3, <1>4, <1>5, <1>6, PlainCall

(* The calls that read into their node: what they read comes first. *)
LEMMA FitsFirst ==
  ASSUME NEW s, NEW nd, Suits(s[1], nd), \A j \in DOMAIN s : j # 1 => Plain(s[j])
  PROVE  Fits(s, nd, TRUE)
BY DEF Fits

LEMMA FitsAfterWord ==
  ASSUME NEW k \in Words \cup Marks, NEW u \in Seq(Items), NEW nd, Fits(u, nd, TRUE)
  PROVE  <<Eat(k)>> \o u \in Seq(Items) /\ Fits(<<Eat(k)>> \o u, nd, TRUE)
<1>1. PICK s \in Seq(Items) : s = <<Eat(k)>> /\ Len(s) = 1 /\ DOMAIN s = {1} /\ s[1] = Eat(k)
  <2>1. Eat(k) \in Items
    BY PlainItems
  <2>2. <<Eat(k)>> \in Seq(Items) /\ Len(<<Eat(k)>>) = 1 /\ DOMAIN <<Eat(k)>> = {1}
        /\ <<Eat(k)>>[1] = Eat(k)
    BY <2>1
  <2> QED
    BY <2>2
<1>2. PICK w \in Seq(Items) : w = s \o u
  BY ConcatProperties
<1>3. /\ \A j \in DOMAIN w : (j \in DOMAIN s /\ w[j] = s[j])
                               \/ \E i \in DOMAIN u : w[j] = u[i] /\ j = Len(s) + i
      /\ \A j \in DOMAIN s : j \in DOMAIN w /\ w[j] = s[j]
      /\ \A i \in DOMAIN u : Len(s) + i \in DOMAIN w /\ w[Len(s) + i] = u[i]
  BY <1>2, InRow
<1>4. Plain(s[1]) /\ \A y : Before(s[1], y)
  <2>1. Eat(k).op = "eat" /\ Eat(k).what = k /\ Plain(Eat(k))
    BY PlainItems
  <2>2. ~OfParams(Eat(k)) /\ ~Takes(Eat(k), "name") /\ ~Takes(Eat(k), "number") /\ Light(Eat(k))
    BY <2>1, PlainFacts DEF OfParams, Light
  <2> QED
    BY <1>1, <2>1, <2>2 DEF Before
<1>5. ASSUME NEW j \in DOMAIN w, ~Plain(w[j])
      PROVE  Suits(w[j], nd) /\ \A i \in 1 .. j - 1 : Before(w[i], w[j])
  <2>1. PICK m \in DOMAIN u : w[j] = u[m] /\ j = 1 + m
    BY <1>1, <1>3, <1>4, <1>5
  <2>2. Suits(u[m], nd) /\ \A i \in 1 .. m - 1 : Before(u[i], u[m])
    BY <1>5, <2>1 DEF Fits
  <2>3. DOMAIN u = 1 .. Len(u) /\ Len(u) \in Nat
    OBVIOUS
  <2>4. ASSUME NEW i \in 1 .. j - 1 PROVE Before(w[i], w[j])
    <3>1. CASE i = 1
      BY <1>1, <1>3, <1>4, <3>1
    <3>2. CASE i # 1
      <4>1. i - 1 \in 1 .. m - 1 /\ i - 1 \in DOMAIN u /\ 1 + (i - 1) = i
        BY <2>1, <2>3, <3>2
      <4>2. w[i] = u[i - 1]
        BY <1>1, <1>3, <4>1
      <4> QED
        BY <2>1, <2>2, <4>1, <4>2
    <3> QED
      BY <3>1, <3>2
  <2> QED
    BY <2>1, <2>2, <2>4
<1> QED
  BY <1>1, <1>2, <1>5 DEF Fits

(* A node that has nothing of the text yet, and its name to read *)
Nameless(nd) == nd.name = "-" /\ nd.params = <<>> /\ ~Numbered(nd) /\ nd.kind \notin {"int", "string"}

LEMMA NamelessFacts ==
  ASSUME NEW nd, Nameless(nd)
  PROVE  Own(nd) = <<>> /\ Suits(Eat("name"), nd)
<1>1. Eat("name").op = "eat" /\ Eat("name").what = "name" /\ Eat("name") \in Items
  BY Spoken, ItemFacts
<1>2. Own(nd) = <<>>
  BY EmptyOwn DEF Nameless
<1> QED
  BY <1>1, <1>2 DEF Suits, Takes, OfParams, Nameless

LEMMA BlankNameless ==
  ASSUME NEW k \in Kinds \ {"int", "string"}
  PROVE  Blank(k) \in Node /\ Nameless(Blank(k)) /\ Blank(k).kind = k
<1>1. Blank(k) \in Node /\ Blank(k).kind = k /\ Blank(k).name = "-" /\ Blank(k).par = "regular"
  BY BlankFacts
<1>2. Blank(k).params = <<>>
  BY DEF Blank
<1> QED
  BY <1>1, <1>2 DEF Nameless, Numbered

LEMMA NameThen ==
  ASSUME NEW nd, Nameless(nd), NEW u \in Seq(Items), AllPlain(u)
  PROVE  <<Eat("name")>> \o u \in Seq(Items) /\ Fits(<<Eat("name")>> \o u, nd, TRUE)
<1>1. Eat("name") \in Items
  BY Spoken, ItemFacts
<1>2. PICK s \in Seq(Items) : s = <<Eat("name")>> /\ DOMAIN s = {1} /\ s[1] = Eat("name")
  <2>1. <<Eat("name")>> \in Seq(Items) /\ DOMAIN <<Eat("name")>> = {1}
        /\ <<Eat("name")>>[1] = Eat("name")
    BY <1>1
  <2> QED
    BY <2>1
<1>3. Fits(s, nd, TRUE)
  BY <1>2, NamelessFacts, FitsFirst
<1> QED
  BY <1>2, <1>3, FitsThen, ConcatProperties

LEMMA UpdateStep ==
  ASSUME NInv, IInv', VarUpdate
  PROVE  NInv'
<1>0. At("statement") \/ At("update")
  BY DEF VarUpdate, Statement
<1>1. PICK x \in Items, g \in Seq(Items), h \in DOMAIN ast, l \in Looks :
        Reading(x, g, h, l) /\ x.op \in {"statement", "update"}
  BY <1>0, NextItem DEF NInv
<1>2. PICK nd \in Node : nd = Blank("update") /\ Nameless(nd)
  BY StatementKinds, BlankNameless
<1>3. "assign" \in Ops \ {"eat", "value", "param", "type", "list"}
  BY DEF Ops
<1>4. PICK b \in Items : b = Enter("assign") /\ Plain(b)
  BY <1>3, PlainItems
<1>5. PICK a \in Items : a = Eat("name")
  BY Spoken, ItemFacts
<1>6. PICK c \in Seq(Items) : c = <<a, b>> /\ Fits(c, nd, TRUE)
  <2>1. <<a, b>> \in Seq(Items) /\ DOMAIN <<a, b>> = {1, 2} /\ <<a, b>>[1] = a /\ <<a, b>>[2] = b
    OBVIOUS
  <2>2. PICK s : s = <<a, b>>
    OBVIOUS
  <2>3. Suits(s[1], nd) /\ \A j \in DOMAIN s : j # 1 => Plain(s[j])
    BY <1>2, <1>4, <1>5, <2>1, <2>2, NamelessFacts
  <2>4. Fits(s, nd, TRUE)
    BY <2>3, FitsFirst
  <2> QED
    BY <2>1, <2>2, <2>4
<1>7. PICK d \in Seq(Items) : d = <<Eat(";")>> /\ AllPlain(d)
  BY WordFacts, PlainItems, PlainRows
<1>8. PICK e \in Seq(Items) : e = <<>> /\ AllPlain(e)
  BY PlainRows
<1>9. Skips /\ (Begins(nd, c, d) \/ Begins(nd, c, e))
  BY <1>2, <1>4, <1>5, <1>6, <1>7, <1>8 DEF VarUpdate, Allocates, Skips
<1>10. ~Light(x) /\ Own(nd) = <<>>
  BY <1>1, <1>2, NamelessFacts, Heavy DEF Single
<1> QED
  BY <1>1, <1>6, <1>7, <1>8, <1>9, <1>10, AllocatesStep

LEMMA DeclarationStep ==
  ASSUME NInv, IInv', VarDeclaration
  PROVE  NInv'
<1>0. At("statement") \/ At("declaration")
  BY DEF VarDeclaration, Statement
<1>1. PICK x \in Items, g \in Seq(Items), h \in DOMAIN ast, l \in Looks :
        Reading(x, g, h, l) /\ x.op \in {"statement", "declaration"}
  BY <1>0, NextItem DEF NInv
<1>2. PICK nd \in Node : nd = Blank("decl") /\ Nameless(nd) /\ nd.kind = "decl"
  BY StatementKinds, BlankNameless
<1>3. PICK p \in Items : p = Item("type", "decl", 0) /\ p.op = "type" /\ p.what = "decl"
  <2>1. /\ Item("type", "decl", 0) \in Items
        /\ Item("type", "decl", 0).op = "type" /\ Item("type", "decl", 0).what = "decl"
    <3>1. "type" \in Ops /\ "decl" \in Whats
      BY Spoken DEF Ops
    <3> QED
      BY <3>1, ItemFacts
  <2> QED
    BY <2>1
<1>4. PICK q \in Items : q = Eat("name") /\ q.op = "eat" /\ q.what = "name"
  <2>1. Eat("name") \in Items /\ Eat("name").op = "eat" /\ Eat("name").what = "name"
    BY Spoken, ItemFacts
  <2> QED
    BY <2>1
<1>5. PICK r \in Items : r = Eat("=") /\ r.op = "eat" /\ r.what = "="
  <2>1. Eat("=") \in Items /\ Eat("=").op = "eat" /\ Eat("=").what = "="
    BY WordFacts, PlainItems
  <2> QED
    BY <2>1
<1>6. PICK v \in Items : v = Enter("value") /\ v.op = "value"
  BY ItemFacts DEF Ops
<1>7. PICK s \in Seq(Items) : /\ s = <<p, q, r, v>> /\ DOMAIN s = 1 .. 4
                              /\ s[1] = p /\ s[2] = q /\ s[3] = r /\ s[4] = v
  <2>1. /\ <<p, q, r, v>> \in Seq(Items) /\ DOMAIN <<p, q, r, v>> = 1 .. 4
        /\ <<p, q, r, v>>[1] = p /\ <<p, q, r, v>>[2] = q
        /\ <<p, q, r, v>>[3] = r /\ <<p, q, r, v>>[4] = v
    OBVIOUS
  <2> QED
    BY <2>1
<1>8. Plain(p) /\ Plain(r)
  BY <1>3, <1>5, WordFacts DEF Plain, OfParams
<1>9. /\ \A y : ~Takes(y, "number") => Before(p, y) /\ Before(r, y)
      /\ \A y : ~Takes(y, "name") /\ ~Takes(y, "number") => Before(q, y)
  BY <1>3, <1>4, <1>5 DEF Before, Light, OfParams, Takes
<1>10. /\ Takes(q, "name") /\ ~Takes(q, "number") /\ ~Takes(v, "name") /\ ~Takes(v, "number")
  BY <1>4, <1>6 DEF Takes
<1>11. Suits(q, nd) /\ Suits(v, nd)
  <2>1. Suits(q, nd)
    BY <1>2, <1>4, NamelessFacts
  <2> QED
    BY <1>2, <1>6, <2>1 DEF Suits, Takes, OfParams
<1>12. Fits(s, nd, TRUE)
  <2>1. ASSUME NEW j \in 1 .. 4, ~Plain(s[j])
        PROVE  Suits(s[j], nd) /\ \A i \in 1 .. j - 1 : Before(s[i], s[j])
    <3>1. j = 2 \/ j = 4
      <4>1. j = 1 \/ j = 2 \/ j = 3 \/ j = 4
        OBVIOUS
      <4> QED
        BY <1>7, <1>8, <2>1, <4>1
    <3>2. CASE j = 2
      <4>1. \A i \in 1 .. 2 - 1 : i = 1
        OBVIOUS
      <4> QED
        BY <1>7, <1>9, <1>10, <1>11, <3>2, <4>1
    <3>3. CASE j = 4
      <4>1. \A i \in 1 .. 4 - 1 : i = 1 \/ i = 2 \/ i = 3
        OBVIOUS
      <4> QED
        BY <1>7, <1>9, <1>10, <1>11, <3>3, <4>1
    <3> QED
      BY <3>1, <3>2, <3>3
  <2> QED
    BY <1>7, <2>1 DEF Fits
<1>13. Begins(nd, s, <<>>) /\ Skips
  BY <1>2, <1>3, <1>4, <1>5, <1>6, <1>7 DEF VarDeclaration, Allocates, Skips
<1>14. ~Light(x) /\ Own(nd) = <<>>
  BY <1>1, <1>2, NamelessFacts, Heavy DEF Single
<1> QED
  BY <1>1, <1>12, <1>13, <1>14, PlainRows, AllocatesStep

LEMMA CallStep ==
  ASSUME NInv, IInv', FunctionCall
  PROVE  NInv'
<1>1. PICK x \in Items, g \in Seq(Items), h \in DOMAIN ast, l \in Looks :
        Reading(x, g, h, l) /\ x.op = "call"
  BY NextItem DEF FunctionCall, NInv
<1>2. x = Todo[1] /\ Can(x, l)
  BY <1>1 DEF Reading, Todo
<1>3. PICK p \in {"thread", "process"} : p = x.what
  BY <1>1, <1>2 DEF Can, Idle, Single
<1>4. PICK b \in Node : b = Blank("call") /\ Nameless(b) /\ b.kind = "call"
  BY StatementKinds, BlankNameless
<1>5. PICK nd \in Node : nd = [b EXCEPT !.par = p] /\ Nameless(nd)
  <2>1. p \in ParallelTypes
    BY DEF ParallelTypes
  <2>2. [b EXCEPT !.par = p] \in Node
    BY <2>1, FieldFacts
  <2>3. PICK nd : nd = [b EXCEPT !.par = p]
    OBVIOUS
  <2>4. nd.kind = b.kind /\ nd.name = b.name /\ nd.params = b.params
    BY <2>3 DEF Node
  <2> QED
    BY <1>4, <2>2, <2>3, <2>4 DEF Nameless, Numbered
<1>6. /\ Eat("(") \in Items /\ Plain(Eat("(")) /\ Eat(")") \in Items /\ Plain(Eat(")"))
      /\ Eat(";") \in Items /\ Plain(Eat(";"))
      /\ List("arguments") \in Items /\ Plain(List("arguments"))
  BY Spoken, WordFacts, PlainItems
<1>7. PICK u \in Seq(Items) : u = <<Eat("("), List("arguments"), Eat(")"), Eat(";")>> /\ AllPlain(u)
  BY <1>6, PlainRows
<1>8. PICK r \in Seq(Items) : r = <<Eat("name")>> \o u /\ Fits(r, nd, TRUE)
  BY <1>5, <1>7, NameThen
<1>9. r = <<Eat("name"), Eat("("), List("arguments"), Eat(")"), Eat(";")>>
  <2>1. PICK p1 \in Items, p2 \in Items, p3 \in Items, p4 \in Items, p5 \in Items :
          /\ p1 = Eat("name") /\ p2 = Eat("(") /\ p3 = List("arguments")
          /\ p4 = Eat(")") /\ p5 = Eat(";")
    <3>1. Eat("name") \in Items
      BY Spoken, ItemFacts
    <3> QED
      BY <1>6, <3>1
  <2>2. <<p1, p2, p3, p4, p5>> = <<p1>> \o <<p2, p3, p4, p5>>
    OBVIOUS
  <2> QED
    BY <1>7, <1>8, <2>1, <2>2
<1>10. PICK q \in Seq(Items) : q = <<Eat("process")>> \o r /\ Fits(q, nd, TRUE)
  BY <1>8, WordFacts, FitsAfterWord
<1>11. <<>> \o r = r
  OBVIOUS
<1>12. Skips /\ (Begins(nd, r, <<>>) \/ Begins(nd, q, <<>>))
  BY <1>2, <1>3, <1>4, <1>5, <1>9, <1>10, <1>11 DEF FunctionCall, Allocates, Skips
<1>13. ~Light(x) /\ Own(nd) = <<>>
  BY <1>1, <1>5, NamelessFacts, Heavy DEF Single
<1> QED
  BY <1>1, <1>8, <1>10, <1>12, <1>13, PlainRows, AllocatesStep
(* Items of parameters before the rest *)
OfList(y) == OfParams(y) \/ y.op = "comma"

LEMMA OfListFacts ==
  \A y : OfList(y) => /\ Light(y) /\ ~Takes(y, "name") /\ ~Takes(y, "number")
                      /\ \A nd : nd.kind = "func" => Suits(y, nd)
BY DEF OfList, OfParams, Light, Takes, Suits

LEMMA FitsParams ==
  ASSUME NEW s \in Seq(Items), NEW g \in Seq(Items), NEW nd, nd.kind = "func", Fits(g, nd, TRUE),
         \A j \in DOMAIN g : Takes(g[j], "name") => FALSE,
         \A i \in DOMAIN s : OfList(s[i])
  PROVE  Fits(s \o g, nd, TRUE) /\ ~HasNumber(s)
<1>1. PICK m \in Nat : m = Len(s) /\ DOMAIN s = 1 .. m
  OBVIOUS
<1>2. PICK n \in Nat : n = Len(g) /\ DOMAIN g = 1 .. n
  OBVIOUS
<1>3. PICK u : u = s \o g
  OBVIOUS
<1>4. /\ \A j \in DOMAIN u : (j \in 1 .. m /\ u[j] = s[j])
                               \/ \E k \in 1 .. n : u[j] = g[k] /\ j = m + k
      /\ \A j \in 1 .. m : u[j] = s[j]
      /\ \A k \in 1 .. n : u[m + k] = g[k]
  <2>1. /\ \A j \in DOMAIN u : (j \in DOMAIN s /\ u[j] = s[j])
                                 \/ \E k \in DOMAIN g : u[j] = g[k] /\ j = Len(s) + k
        /\ \A j \in DOMAIN s : u[j] = s[j]
        /\ \A k \in DOMAIN g : u[Len(s) + k] = g[k]
    BY <1>3, InRow
  <2> QED
    BY <1>1, <1>2, <2>1
<1>5. \A i \in 1 .. m : Light(s[i]) /\ ~Takes(s[i], "name") /\ ~Takes(s[i], "number") /\ Suits(s[i], nd)
  BY <1>1, OfListFacts
<1>6. \A i \in 1 .. m : \A y : ~Takes(y, "name") => Before(s[i], y)
  BY <1>5 DEF Before
<1>7. ASSUME NEW j \in DOMAIN u, ~Plain(u[j])
      PROVE  Suits(u[j], nd) /\ \A i \in 1 .. j - 1 : Before(u[i], u[j])
  <2>1. CASE j \in 1 .. m /\ u[j] = s[j]
    <3>1. \A i \in 1 .. j - 1 : i \in 1 .. m
      BY <2>1
    <3>2. ~Takes(u[j], "name") /\ Suits(u[j], nd)
      BY <1>5, <2>1
    <3> QED
      BY <1>4, <1>6, <3>1, <3>2
  <2>2. ASSUME NEW k \in 1 .. n, u[j] = g[k], j = m + k
        PROVE  Suits(u[j], nd) /\ \A i \in 1 .. j - 1 : Before(u[i], u[j])
    <3>1. Suits(g[k], nd) /\ \A i \in 1 .. k - 1 : Before(g[i], g[k])
      BY <1>2, <1>7, <2>2 DEF Fits
    <3>2. ~Takes(g[k], "name")
      BY <1>2
    <3>3. ASSUME NEW i \in 1 .. j - 1 PROVE Before(u[i], g[k])
      <4>1. CASE i <= m
        <5>1. i \in 1 .. m
          BY <2>2, <4>1
        <5> QED
          BY <1>4, <1>6, <3>2, <5>1
      <4>2. CASE i > m
        <5>1. PICK e \in 1 .. k - 1 : e = i - m /\ e \in 1 .. n /\ m + e = i
          <6>1. i - m \in 1 .. k - 1 /\ i - m \in 1 .. n /\ m + (i - m) = i
            BY <2>2, <4>2
          <6> QED
            BY <6>1
        <5>2. u[i] = g[e]
          BY <1>4, <5>1
        <5> QED
          BY <3>1, <5>2
      <4> QED
        BY <2>2, <4>1, <4>2
    <3> QED
      BY <2>2, <3>1, <3>3
  <2> QED
    BY <1>4, <2>1, <2>2
<1>8. Fits(u, nd, TRUE)
  BY <1>7 DEF Fits
<1> QED
  BY <1>1, <1>3, <1>5, <1>8 DEF HasNumber

(* A list of parameters goes on: its type and its name are still to read. *)
LEMMA ParamsStep ==
  ASSUME NInv, IInv', NEW x, NEW g, NEW h, NEW l, Reading(x, g, h, l), OfParams(x),
         NEW items \in Seq(Items), \A i \in DOMAIN items : OfList(items[i]),
         frames' = After(items), ast' = ast, Skips
  PROVE  NInv'
<1>1. InOrder(ast, frames)
  BY DEF NInv
<1>2. ~Plain(x) /\ ~Takes(x, "number")
  BY DEF Plain, OfParams, Takes
<1>3. /\ Fits(g, ast[h], h = Len(ast)) /\ h = Len(ast) /\ Suits(x, ast[h])
      /\ \A j \in DOMAIN g : ~Plain(g[j]) => Before(x, g[j])
  BY <1>1, <1>2, TopItems
<1>4. ast[h].kind = "func" /\ (h = Len(ast)) = TRUE
  BY <1>3 DEF Suits
<1>5. \A j \in DOMAIN g : Takes(g[j], "name") => FALSE
  BY <1>3, PlainFacts DEF Before
<1>6. g \in Seq(Items)
  BY DEF Reading
<1>7. Fits(g, ast[h], TRUE)
  BY <1>3, <1>4
<1>8. Fits(items \o g, ast[h], TRUE) /\ ~HasNumber(items)
  BY <1>4, <1>5, <1>6, <1>7, FitsParams
<1>9. Fits(items \o g, ast'[h], h = Len(ast))
  BY <1>4, <1>8
<1> QED
  BY <1>2, <1>8, <1>9, StepInPlace

LEMMA TwoAndOne ==
  \A a, b, c \in Items : <<a, b>> \o <<c>> = <<a, b, c>>
<1> TAKE a, b, c \in Items
<1>1. PICK u \in Seq(Items) : u = <<a, b>> /\ Len(u) = 2 /\ u[1] = a /\ u[2] = b
  <2>1. <<a, b>> \in Seq(Items) /\ Len(<<a, b>>) = 2 /\ <<a, b>>[1] = a /\ <<a, b>>[2] = b
    OBVIOUS
  <2> QED
    BY <2>1
<1>2. PICK v \in Seq(Items) : v = <<c>> /\ Len(v) = 1 /\ v[1] = c
  <2>1. <<c>> \in Seq(Items) /\ Len(<<c>>) = 1 /\ <<c>>[1] = c
    OBVIOUS
  <2> QED
    BY <2>1
<1>3. PICK w \in Seq(Items) : w = <<a, b, c>> /\ Len(w) = 3 /\ w[1] = a /\ w[2] = b /\ w[3] = c
  <2>1. /\ <<a, b, c>> \in Seq(Items) /\ Len(<<a, b, c>>) = 3
        /\ <<a, b, c>>[1] = a /\ <<a, b, c>>[2] = b /\ <<a, b, c>>[3] = c
    OBVIOUS
  <2> QED
    BY <2>1
<1>4. PICK z \in Seq(Items) : z = u \o v /\ Len(z) = 3
  <2>1. u \o v \in Seq(Items) /\ Len(u \o v) = 3
    BY <1>1, <1>2, ConcatProperties
  <2> QED
    BY <2>1
<1>5. \A i \in 1 .. 3 : z[i] = IF i <= 2 THEN u[i] ELSE v[i - 2]
  BY <1>1, <1>2, <1>4, ConcatProperties
<1>6. z[1] = a /\ z[2] = b /\ z[3] = c
  BY <1>1, <1>2, <1>5
<1>7. \A i \in 1 .. 3 : i = 1 \/ i = 2 \/ i = 3
  OBVIOUS
<1>8. z = w
  BY <1>3, <1>4, <1>6, <1>7, SeqEqual
<1> QED
  BY <1>1, <1>2, <1>3, <1>4, <1>8

LEMMA ListGoesOnStep ==
  ASSUME NInv, IInv', ListGoesOn
  PROVE  NInv'
<1>1. PICK x \in Items, g \in Seq(Items), h \in DOMAIN ast, l \in Looks :
        Reading(x, g, h, l) /\ x.op = "list"
  BY NextItem DEF ListGoesOn, NInv
<1>2. x = Todo[1] /\ Can(x, l)
  BY <1>1 DEF Reading, Todo
<1>3. PICK w \in {"program", "statements", "arguments", "names", "params"} : w = x.what
  BY <1>1, <1>2 DEF Can, Idle, Single
<1>4. Does(Element(w) \o <<List(w)>>)
  BY <1>2, <1>3 DEF ListGoesOn
<1>5. CASE w # "params"
  <2>1. Element(w) \o <<List(w)>> \in Seq(Items) /\ AllPlain(Element(w) \o <<List(w)>>)
    BY <1>5, PlainElement
  <2>2. ~Light(x)
    BY <1>1, <1>3, <1>5, Heavy
  <2> QED
    BY <1>1, <1>4, <2>1, <2>2, QuietStep
<1>6. CASE w = "params"
  <2>1. OfParams(x)
    BY <1>1, <1>3, <1>6 DEF OfParams
  <2>2. PICK a \in Items : a = Item("type", "param", 0) /\ OfList(a)
    <3>1. "type" \in Ops /\ "param" \in Whats
      BY Spoken DEF Ops
    <3>2. /\ Item("type", "param", 0) \in Items
          /\ Item("type", "param", 0).op = "type" /\ Item("type", "param", 0).what = "param"
      BY <3>1, ItemFacts
    <3> QED
      BY <3>2 DEF OfList, OfParams
  <2>3. PICK b \in Items : b = Enter("comma") /\ OfList(b)
    <3>1. "comma" \in Ops
      BY DEF Ops
    <3>2. Enter("comma") \in Items /\ Enter("comma").op = "comma"
      BY <3>1, ItemFacts
    <3> QED
      BY <3>2 DEF OfList
  <2>4. PICK c \in Items : c = List(w) /\ OfList(c)
    <3>1. List(w) \in Items /\ List(w).op = "list" /\ List(w).what = w
      <4>1. w \in Whats
        BY Spoken
      <4> QED
        BY <4>1, ItemFacts
    <3> QED
      BY <1>6, <3>1 DEF OfList, OfParams
  <2>5. PICK s \in Seq(Items) : s = <<a, b, c>> /\ \A i \in DOMAIN s : OfList(s[i])
    <3>1. /\ <<a, b, c>> \in Seq(Items) /\ DOMAIN <<a, b, c>> = 1 .. 3
          /\ <<a, b, c>>[1] = a /\ <<a, b, c>>[2] = b /\ <<a, b, c>>[3] = c
      OBVIOUS
    <3>2. \A i \in 1 .. 3 : i = 1 \/ i = 2 \/ i = 3
      OBVIOUS
    <3>3. \A i \in 1 .. 3 : OfList(<<a, b, c>>[i])
      BY <2>2, <2>3, <2>4, <3>1, <3>2
    <3> QED
      BY <3>1, <3>3
  <2>6. Element(w) = <<a, b>>
    BY <1>6, <2>2, <2>3 DEF Element
  <2>7. <<a, b>> \o <<c>> = <<a, b, c>>
    BY TwoAndOne
  <2>8. Does(s)
    BY <1>4, <2>4, <2>5, <2>6, <2>7
  <2>9. frames' = After(s) /\ ast' = ast /\ Skips
    BY <2>8 DEF Does, Skips
  <2> QED
    BY <1>1, <2>1, <2>5, <2>9, ParamsStep
<1> QED
  BY <1>5, <1>6
(* A field of the node is written, and nothing that the node holds changes. *)
LEMMA WritesSame ==
  ASSUME NEW x, NEW g, NEW h, NEW l, Reading(x, g, h, l), NEW nd, Writes(nd), Own(nd) = Own(ast[h])
  PROVE  Len(ast') = Len(ast) /\ ast'[h] = nd /\ \A n \in DOMAIN ast : Own(ast'[n]) = Own(ast[n])
<1>1. h \in DOMAIN ast /\ Here = h
  BY DEF Reading, Here
<1>2. ast \in Seq(Node)
  BY DEF Reading, Readable, TreeOK
<1>3. ast' = [ast EXCEPT ![h] = nd]
  BY <1>1 DEF Writes
<1>4. Len(ast') = Len(ast) /\ ast'[h] = nd /\ \A n \in DOMAIN ast : n # h => ast'[n] = ast[n]
  BY <1>1, <1>2, <1>3
<1> QED
  BY <1>4

(* What fits a node fits one that differs in its type or its operator. *)
Alike(nd, md) == /\ md.kind = nd.kind /\ md.name = nd.name /\ md.params = nd.params /\ md.par = nd.par

LEMMA FitsAlike ==
  ASSUME NEW s, NEW nd, NEW md, NEW last, Alike(nd, md), Fits(s, nd, last)
  PROVE  Fits(s, md, last)
<1>1. \A y : Suits(y, nd) => Suits(y, md)
  BY DEF Suits, Alike, Numbered
<1> QED
  BY <1>1 DEF Fits

WithType(r, t) == [r EXCEPT !.type = t]

LEMMA TypeReadStep ==
  ASSUME NInv, IInv', NEW x, NEW g, NEW h, NEW l, Reading(x, g, h, l), x.op = "type",
         NEW t \in Types \cup {"void"}, TypeRead(t), Skips
  PROVE  NInv'
<1>1. x = Todo[1] /\ Here = h /\ ast[h] \in Node
  BY DEF Reading, Todo, Here
<1>2. CASE x.what = "param"
  <2>1. frames' = After(<<Item("param", t, 0)>>) /\ ast' = ast
    BY <1>1, <1>2 DEF TypeRead
  <2>2. PICK y \in Items : y = Item("param", t, 0) /\ OfList(y)
    <3>1. "param" \in Ops /\ t \in Whats
      BY Spoken DEF Ops, TypeWords
    <3>2. Item("param", t, 0) \in Items /\ Item("param", t, 0).op = "param"
      BY <3>1, ItemFacts
    <3> QED
      BY <3>2 DEF OfList, OfParams
  <2>3. PICK s \in Seq(Items) : s = <<y>> /\ \A i \in DOMAIN s : OfList(s[i])
    <3>1. <<y>> \in Seq(Items) /\ DOMAIN <<y>> = {1} /\ <<y>>[1] = y
      OBVIOUS
    <3> QED
      BY <2>2, <3>1
  <2>4. OfParams(x)
    BY <1>2 DEF OfParams
  <2> QED
    BY <2>1, <2>2, <2>3, <2>4, ParamsStep
<1>3. CASE x.what # "param"
  <2>1. PICK nd : nd = WithType(ast[h], t)
    OBVIOUS
  <2>2. frames' = After(<<>>) /\ Writes(nd)
    BY <1>1, <1>3, <2>1 DEF TypeRead, WithType
  <2>3. Own(nd) = Own(ast[h])
    BY <1>1, <2>1, FieldOwn DEF WithType
  <2>4. Alike(ast[h], nd)
    BY <1>1, <2>1 DEF WithType, Alike, Node
  <2>5. Len(ast') = Len(ast) /\ ast'[h] = nd /\ \A n \in DOMAIN ast : Own(ast'[n]) = Own(ast[n])
    BY <2>2, <2>3, WritesSame
  <2>6. <<>> \in Seq(Items) /\ <<>> \o g = g /\ ~HasNumber(<<>>)
    BY NothingBefore
  <2>7. Fits(g, ast[h], h = Len(ast))
    BY TopItems DEF NInv
  <2>8. Fits(<<>> \o g, ast'[h], h = Len(ast))
    BY <2>4, <2>5, <2>6, <2>7, FitsAlike
  <2>9. ~Takes(x, "number")
    BY DEF Takes
  <2> QED
    BY <2>2, <2>5, <2>6, <2>8, <2>9, StepInPlace
<1> QED
  BY <1>2, <1>3

LEMMA TypeStep ==
  ASSUME NInv, IInv', TypeWord \/ TypeMissing
  PROVE  NInv'
<1>1. PICK x \in Items, g \in Seq(Items), h \in DOMAIN ast, l \in Looks :
        Reading(x, g, h, l) /\ x.op = "type"
  BY NextItem DEF TypeWord, TypeMissing, NInv
<1>2. /\ TypesHere \subseteq Types \cup {"void"} /\ Types \subseteq Types \cup {"void"}
      /\ "eof" \notin TypesHere /\ TypesHere \cap Content = {}
  BY DEF TypesHere, TypeWords, Types, Content
<1>3. CASE TypeWord
  <2>1. Sees(TypesHere) /\ TypeRead(Peek(0).kind) /\ Advance(1)
    BY <1>3 DEF TypeWord
  <2>2. Peek(0).kind \in Types \cup {"void"}
    BY <1>2, <2>1 DEF Sees
  <2>3. Skips
    BY <1>2, <2>1, SkipsToken DEF NInv
  <2> QED
    BY <1>1, <2>1, <2>2, <2>3, TypeReadStep
<1>4. CASE TypeMissing
  <2>1. PICK t \in TypesHere \cup Types : TypeRead(t)
    BY <1>4 DEF TypeMissing
  <2>2. t \in Types \cup {"void"}
    BY <1>2
  <2>3. Skips
    BY <1>4 DEF TypeMissing, Advance, Skips, NInv, IInv
  <2> QED
    BY <1>1, <2>1, <2>2, <2>3, TypeReadStep
<1> QED
  BY <1>3, <1>4

LEMMA ValueWritesStep ==
  ASSUME NInv, IInv', NEW x, NEW g, NEW h, NEW l, Reading(x, g, h, l), x.op = "value",
         NEW p, NEW items \in Seq(Items), AllPlain(items), frames' = After(items), WritesPar(p)
  PROVE  NInv'
<1>1. Here = h /\ Can(x, l) /\ ast[h] \in Node /\ l = Look(ast, h)
  BY DEF Reading, Here
<1>2. ast[h].kind # "for"
  BY <1>1 DEF Can, Idle, Single, Look
<1>3. PICK nd : nd = WithPar(ast[h], p)
  OBVIOUS
<1>4. Writes(nd) /\ Skips
  BY <1>1, <1>3 DEF WritesPar, WithPar, Skips
<1>5. Own(nd) = Own(ast[h])
  BY <1>1, <1>2, <1>3, FieldOwn DEF WithPar
<1>6. Len(ast') = Len(ast) /\ \A n \in DOMAIN ast : Own(ast'[n]) = Own(ast[n])
  BY <1>4, <1>5, WritesSame
<1>7. ~Light(x)
  BY Heavy
<1> QED
  BY <1>4, <1>6, <1>7, HeavyStep

LEMMA ValueStep ==
  ASSUME NInv, IInv', Value
  PROVE  NInv'
<1>1. PICK x \in Items, g \in Seq(Items), h \in DOMAIN ast, l \in Looks :
        Reading(x, g, h, l) /\ x.op = "value"
  BY NextItem DEF Value, NInv
<1>2. PICK a \in Seq(Items) : a = Expression \o <<Eat(";")>> /\ AllPlain(a)
  <2>1. PICK u \in Seq(Items) : u = <<Eat(";")>> /\ AllPlain(u)
    BY WordFacts, PlainItems, PlainRows
  <2>2. Expression \o u \in Seq(Items) /\ AllPlain(Expression \o u)
    BY <2>1, PlainExpression, PlainRow
  <2> QED
    BY <2>1, <2>2
<1>3. "thread" \in Whats /\ "process" \in Whats
  BY Spoken
<1>4. PICK b \in Seq(Items) : b = <<Eat("thread"), CallIn("thread")>> /\ AllPlain(b)
  BY <1>3, WordFacts, PlainItems, PlainRows
<1>5. PICK c \in Seq(Items) : c = <<CallIn("process")>> /\ AllPlain(c)
  BY <1>3, PlainItems, PlainRows
<1>6. \/ frames' = After(a) /\ WritesPar("regular")
      \/ frames' = After(b) /\ WritesPar("thread")
      \/ frames' = After(c) /\ WritesPar("process")
  BY <1>2, <1>4, <1>5 DEF Value
<1> QED
  BY <1>1, <1>2, <1>4, <1>5, <1>6, ValueWritesStep

LEMMA AssignStep ==
  ASSUME NInv, IInv', Assign
  PROVE  NInv'
<1>1. PICK x \in Items, g \in Seq(Items), h \in DOMAIN ast, l \in Looks :
        Reading(x, g, h, l) /\ x.op = "assign"
  BY NextItem DEF Assign, NInv
<1>2. Here = h /\ ast[h] \in Node
  BY <1>1 DEF Reading, Here
<1>3. Sees(UpdateOps) /\ Advance(1) /\ UpdateOps \subseteq Marks
  BY WordFacts DEF Assign
<1>4. Skips
  <2>1. "eof" \notin UpdateOps /\ UpdateOps \cap Content = {}
    BY DEF UpdateOps, Content
  <2> QED
    BY <1>3, <2>1, SkipsToken DEF NInv
<1>5. PICK nd : nd = WithOp(ast[h], Peek(0).kind)
  OBVIOUS
<1>6. Writes(nd) /\ Own(nd) = Own(ast[h])
  <2>1. Writes(nd)
    BY <1>2, <1>5 DEF Assign, WithOp
  <2>2. Own(nd) = Own(ast[h])
    BY <1>2, <1>5, FieldOwn DEF WithOp
  <2> QED
    BY <2>1, <2>2
<1>7. Len(ast') = Len(ast) /\ \A n \in DOMAIN ast : Own(ast'[n]) = Own(ast[n])
  BY <1>1, <1>6, WritesSame
<1>8. PICK e \in Seq(Items) : e = <<>> /\ AllPlain(e)
  BY PlainRows
<1>9. PICK a \in Seq(Items) : a = Expression /\ AllPlain(a)
  BY PlainExpression
<1>10. frames' = After(e) \/ frames' = After(a)
  BY <1>8, <1>9 DEF Assign
<1>11. ~Light(x)
  BY <1>1, Heavy
<1> QED
  BY <1>1, <1>4, <1>7, <1>8, <1>9, <1>10, <1>11, HeavyStep
(* The head of a function *)
LEMMA HeadFits ==
  ASSUME NEW nd, Nameless(nd), nd.kind = "func"
  PROVE  LET s == <<Eat("func"), Item("type", "func", 0), Eat("name"), Eat("("),
                    List("params"), Eat(")")>>
         IN  s \in Seq(Items) /\ Fits(s, nd, TRUE)
<1>1. PICK a \in Items : a = Eat("func") /\ Plain(a) /\ a.op = "eat" /\ a.what = "func"
  <2>1. /\ Eat("func") \in Items /\ Plain(Eat("func"))
        /\ Eat("func").op = "eat" /\ Eat("func").what = "func"
    BY WordFacts, PlainItems
  <2> QED
    BY <2>1
<1>2. PICK b \in Items : b = Item("type", "func", 0) /\ b.op = "type" /\ b.what = "func"
  <2>1. /\ Item("type", "func", 0) \in Items
        /\ Item("type", "func", 0).op = "type" /\ Item("type", "func", 0).what = "func"
    <3>1. "type" \in Ops /\ "func" \in Whats
      BY Spoken DEF Ops
    <3> QED
      BY <3>1, ItemFacts
  <2> QED
    BY <2>1
<1>3. PICK c \in Items : c = Eat("name") /\ c.op = "eat" /\ c.what = "name"
  <2>1. Eat("name") \in Items /\ Eat("name").op = "eat" /\ Eat("name").what = "name"
    BY Spoken, ItemFacts
  <2> QED
    BY <2>1
<1>4. PICK d \in Items : d = Eat("(") /\ Plain(d) /\ d.op = "eat" /\ d.what = "("
  <2>1. /\ Eat("(") \in Items /\ Plain(Eat("(")) /\ Eat("(").op = "eat" /\ Eat("(").what = "("
    BY WordFacts, PlainItems
  <2> QED
    BY <2>1
<1>5. PICK e \in Items : e = List("params") /\ e.op = "list" /\ e.what = "params"
  <2>1. List("params") \in Items /\ List("params").op = "list" /\ List("params").what = "params"
    BY Spoken, ItemFacts
  <2> QED
    BY <2>1
<1>6. PICK f \in Items : f = Eat(")") /\ Plain(f)
  <2>1. Eat(")") \in Items /\ Plain(Eat(")"))
    BY WordFacts, PlainItems
  <2> QED
    BY <2>1
<1>7. PICK s \in Seq(Items) : /\ s = <<a, b, c, d, e, f>> /\ DOMAIN s = 1 .. 6
                              /\ s[1] = a /\ s[2] = b /\ s[3] = c /\ s[4] = d /\ s[5] = e /\ s[6] = f
  <2>1. /\ <<a, b, c, d, e, f>> \in Seq(Items) /\ DOMAIN <<a, b, c, d, e, f>> = 1 .. 6
        /\ <<a, b, c, d, e, f>>[1] = a /\ <<a, b, c, d, e, f>>[2] = b
        /\ <<a, b, c, d, e, f>>[3] = c /\ <<a, b, c, d, e, f>>[4] = d
        /\ <<a, b, c, d, e, f>>[5] = e /\ <<a, b, c, d, e, f>>[6] = f
    OBVIOUS
  <2> QED
    BY <2>1
<1>8. Plain(b)
  BY <1>2 DEF Plain, OfParams
<1>9. /\ \A y : ~Takes(y, "number") => Before(a, y) /\ Before(b, y) /\ Before(d, y)
      /\ \A y : ~Takes(y, "name") /\ ~Takes(y, "number") => Before(c, y)
  BY <1>1, <1>2, <1>3, <1>4 DEF Before, Light, OfParams, Takes
<1>10. /\ Takes(c, "name") /\ ~Takes(c, "number") /\ ~Takes(e, "name") /\ ~Takes(e, "number")
  BY <1>3, <1>5 DEF Takes
<1>11. Suits(c, nd) /\ Suits(e, nd)
  <2>1. Suits(c, nd)
    BY <1>3, NamelessFacts
  <2> QED
    BY <1>5, <2>1 DEF Suits, Takes, OfParams
<1>12. ASSUME NEW j \in 1 .. 6, ~Plain(s[j])
       PROVE  Suits(s[j], nd) /\ \A i \in 1 .. j - 1 : Before(s[i], s[j])
  <2>1. j = 3 \/ j = 5
    <3>1. j = 1 \/ j = 2 \/ j = 3 \/ j = 4 \/ j = 5 \/ j = 6
      OBVIOUS
    <3> QED
      BY <1>1, <1>4, <1>6, <1>7, <1>8, <1>12, <3>1
  <2>2. CASE j = 3
    <3>1. \A i \in 1 .. 3 - 1 : i = 1 \/ i = 2
      OBVIOUS
    <3> QED
      BY <1>7, <1>9, <1>10, <1>11, <2>2, <3>1
  <2>3. CASE j = 5
    <3>1. \A i \in 1 .. 5 - 1 : i = 1 \/ i = 2 \/ i = 3 \/ i = 4
      OBVIOUS
    <3> QED
      BY <1>7, <1>9, <1>10, <1>11, <2>3, <3>1
  <2> QED
    BY <2>1, <2>2, <2>3
<1>13. Fits(s, nd, TRUE)
  BY <1>7, <1>12 DEF Fits
<1>14. s = <<Eat("func"), Item("type", "func", 0), Eat("name"), Eat("("), List("params"), Eat(")")>>
  BY <1>1, <1>2, <1>3, <1>4, <1>5, <1>6, <1>7
<1> QED
  BY <1>13, <1>14

LEMMA FunctionStep ==
  ASSUME NInv, IInv', Function
  PROVE  NInv'
<1>1. PICK x \in Items, g \in Seq(Items), h \in DOMAIN ast, l \in Looks :
        Reading(x, g, h, l) /\ x.op = "statement"
  BY NextItem DEF Function, Statement, NInv
<1>2. PICK nd \in Node : nd = Blank("func") /\ Nameless(nd) /\ nd.kind = "func"
  BY StatementKinds, BlankNameless
<1>3. PICK s : s = <<Eat("func"), Item("type", "func", 0), Eat("name"), Eat("("),
                     List("params"), Eat(")")>>
  OBVIOUS
<1>4. s \in Seq(Items) /\ Fits(s, nd, TRUE)
  BY <1>2, <1>3, HeadFits
<1>5. PICK u \in Seq(Items) : u = Braces("statements") /\ AllPlain(u)
  BY PlainBraces
<1>6. PICK todo \in Seq(Items) : todo = s \o u /\ Fits(todo, nd, TRUE)
  <2>1. s \o u \in Seq(Items)
    BY <1>4, ConcatProperties
  <2>2. Fits(s \o u, nd, TRUE)
    BY <1>4, <1>5, FitsThen
  <2> QED
    BY <2>1, <2>2
<1>7. Begins(nd, todo, <<>>) /\ Skips
  BY <1>2, <1>3, <1>5, <1>6 DEF Function, Allocates, Skips
<1>8. ~Light(x) /\ Own(nd) = <<>>
  BY <1>1, <1>2, NamelessFacts, Heavy DEF Single
<1> QED
  BY <1>1, <1>6, <1>7, <1>8, PlainRows, AllocatesStep

(* The number of threads is read before the parts of the loop. *)
LEMMA NumberFits ==
  ASSUME NEW nd, Numbered(nd)
  PROVE  LET s == <<Eat("thread"), Eat("="), Eat("number")>>
         IN  s \in Seq(Items) /\ Fits(s, nd, TRUE) /\ HasNumber(s)
<1>1. PICK a \in Items : a = Eat("thread") /\ Plain(a) /\ a.op = "eat" /\ a.what = "thread"
  <2>1. /\ Eat("thread") \in Items /\ Plain(Eat("thread"))
        /\ Eat("thread").op = "eat" /\ Eat("thread").what = "thread"
    BY WordFacts, PlainItems
  <2> QED
    BY <2>1
<1>2. PICK b \in Items : b = Eat("=") /\ Plain(b) /\ b.op = "eat" /\ b.what = "="
  <2>1. Eat("=") \in Items /\ Plain(Eat("=")) /\ Eat("=").op = "eat" /\ Eat("=").what = "="
    BY WordFacts, PlainItems
  <2> QED
    BY <2>1
<1>3. PICK c \in Items : c = Eat("number") /\ c.op = "eat" /\ c.what = "number"
  <2>1. Eat("number") \in Items /\ Eat("number").op = "eat" /\ Eat("number").what = "number"
    BY Spoken, ItemFacts
  <2> QED
    BY <2>1
<1>4. PICK s \in Seq(Items) : /\ s = <<a, b, c>> /\ DOMAIN s = 1 .. 3
                              /\ s[1] = a /\ s[2] = b /\ s[3] = c
  <2>1. /\ <<a, b, c>> \in Seq(Items) /\ DOMAIN <<a, b, c>> = 1 .. 3
        /\ <<a, b, c>>[1] = a /\ <<a, b, c>>[2] = b /\ <<a, b, c>>[3] = c
    OBVIOUS
  <2> QED
    BY <2>1
<1>5. Takes(c, "number") /\ ~Takes(c, "name") /\ Suits(c, nd)
  BY <1>3 DEF Takes, Suits, OfParams
<1>6. \A y : ~Takes(y, "name") => Before(a, y) /\ Before(b, y)
  BY <1>1, <1>2 DEF Before, Light, Takes
<1>7. ASSUME NEW j \in 1 .. 3, ~Plain(s[j])
      PROVE  Suits(s[j], nd) /\ \A i \in 1 .. j - 1 : Before(s[i], s[j])
  <2>1. j = 1 \/ j = 2 \/ j = 3
    OBVIOUS
  <2>2. j = 3
    BY <1>1, <1>2, <1>4, <1>7, <2>1
  <2>3. \A i \in 1 .. 3 - 1 : i = 1 \/ i = 2
    OBVIOUS
  <2> QED
    BY <1>4, <1>5, <1>6, <2>2, <2>3
<1>8. Fits(s, nd, TRUE)
  BY <1>4, <1>7 DEF Fits
<1>9. HasNumber(s)
  <2>1. 3 \in DOMAIN s
    BY <1>4
  <2> QED
    BY <1>4, <1>5, <2>1 DEF HasNumber
<1> QED
  BY <1>1, <1>2, <1>3, <1>4, <1>8, <1>9

LEMMA LoopStep ==
  ASSUME NInv, IInv', ForLoop \/ ThreadedLoop
  PROVE  NInv'
<1>1. PICK x \in Items, g \in Seq(Items), h \in DOMAIN ast, l \in Looks :
        Reading(x, g, h, l) /\ x.op = "statement"
  BY NextItem DEF ForLoop, ThreadedLoop, Statement, NInv
<1>2. PICK b \in Node : b = Blank("for") /\ b.kind = "for"
  BY StatementKinds, BlankNameless
<1>3. CASE ForLoop
  <2>1. Allocates(Blank("for"), LoopParts, <<>>)
    BY <1>3 DEF ForLoop
  <2>2. x.op \in Single /\ "for" \in Kinds \ {"int", "string"}
    BY <1>1, StatementKinds DEF Single
  <2> QED
    BY <1>1, <2>1, <2>2, PlainLoop, AllocatesPlain
<1>4. CASE ThreadedLoop
  <2>1. PICK nd \in Node : nd = [b EXCEPT !.par = "thread"] /\ Numbered(nd)
    <3>1. "thread" \in ParallelTypes
      BY DEF ParallelTypes
    <3>2. /\ [b EXCEPT !.par = "thread"] \in Node
          /\ [b EXCEPT !.par = "thread"].kind = "for" /\ [b EXCEPT !.par = "thread"].par = "thread"
      BY <1>2, <3>1, FieldFacts
    <3> QED
      BY <3>2 DEF Numbered
  <2>2. PICK s : s = <<Eat("thread"), Eat("="), Eat("number")>>
    OBVIOUS
  <2>3. s \in Seq(Items) /\ Fits(s, nd, TRUE) /\ HasNumber(s)
    BY <2>1, <2>2, NumberFits
  <2>4. PICK u \in Seq(Items) : u = LoopParts /\ AllPlain(u)
    BY PlainLoop
  <2>5. PICK todo \in Seq(Items) : todo = s \o u /\ Fits(todo, nd, TRUE) /\ HasNumber(todo)
    <3>1. s \o u \in Seq(Items)
      BY <2>3, ConcatProperties
    <3>2. Fits(s \o u, nd, TRUE)
      BY <2>3, <2>4, FitsThen
    <3>3. HasNumber(s \o u)
      BY <2>3, NumberRow
    <3> QED
      BY <3>1, <3>2, <3>3
  <2>6. Begins(nd, todo, <<>>) /\ Skips
    BY <1>2, <1>4, <2>1, <2>2, <2>4, <2>5 DEF ThreadedLoop, Allocates, Skips
  <2>7. ~Light(x)
    BY <1>1, Heavy DEF Single
  <2> QED
    BY <1>1, <2>1, <2>5, <2>6, <2>7, PlainRows, AllocatesStep
<1> QED
  BY <1>3, <1>4
LEMMA NothingFirst ==
  ASSUME NEW X, NEW a \in Seq(X)
  PROVE  Join2(<<>>, a) = a
BY DEF Join2

(* What a node with one name holds *)
LEMMA NamedOwn ==
  ASSUME NEW nd, nd.kind \notin {"int", "string"}, ~Numbered(nd), nd.name # "-", nd.params = <<>>,
         nd.name \in Names
  PROVE  Own(nd) = <<<<"name", nd.name>>>>
<1>1. Listed(nd.params) = <<>>
  BY DEF Listed
<1>2. PICK a \in Seq(Pieces) : a = <<<<"name", nd.name>>>>
  <2>1. <<"name", nd.name>> \in Pieces
    BY DEF Pieces
  <2>2. PICK q \in Pieces : q = <<"name", nd.name>>
    BY <2>1
  <2>3. <<q>> \in Seq(Pieces)
    OBVIOUS
  <2> QED
    BY <2>2, <2>3
<1>3. Join2(a, <<>>) = a
  BY NothingMore
<1> QED
  BY <1>1, <1>2, <1>3, OwnIs

(* A name, a number, or a word is consumed. *)
LEMMA NameStep ==
  ASSUME NInv, IInv', Consume, "-" \notin Names,
         NEW x, NEW g, NEW h, NEW l, Reading(x, g, h, l), x.op = "eat", x.what = "name"
  PROVE  NInv'
<1>1. x = Todo[1] /\ Here = h /\ ast[h] \in Node /\ InOrder(ast, frames) /\ IInv
  BY DEF Reading, Todo, Here, NInv
<1>2. Sees({"name"}) /\ "eof" \notin {"name"} /\ Advance(1) /\ frames' = After(<<>>)
  BY <1>1 DEF Consume
<1>3. Peek(0) \in Token /\ Peek(0).kind = "name"
  BY <1>1, <1>2, SeesToken
<1>4. PICK v \in Names : v = Peek(0).name /\ v # "-"
  BY <1>3, TokenFacts
<1>5. ~Plain(x) /\ Takes(x, "name") /\ ~Takes(x, "number")
  BY PlainFacts DEF Takes
<1>6. /\ Suits(x, ast[h]) /\ Fits(g, ast[h], h = Len(ast))
      /\ \A j \in DOMAIN g : ~Plain(g[j]) => Suits(g[j], ast[h]) /\ Before(x, g[j])
  BY <1>1, <1>5, TopItems
<1>7. /\ ast[h].name = "-" /\ ast[h].params = <<>> /\ ~Numbered(ast[h])
      /\ ast[h].kind \notin {"int", "string"}
  BY <1>5, <1>6 DEF Suits
<1>8. PICK b \in Node : b = ast[h]
  BY <1>1
<1>9. PICK nd \in Node : /\ nd = [b EXCEPT !.name = v] /\ nd.name = v /\ nd.kind = b.kind
                         /\ nd.par = b.par /\ nd.params = b.params
  <2>1. /\ [b EXCEPT !.name = v] \in Node /\ [b EXCEPT !.name = v].name = v
        /\ [b EXCEPT !.name = v].kind = b.kind /\ [b EXCEPT !.name = v].par = b.par
        /\ [b EXCEPT !.name = v].params = b.params
    BY DEF Node
  <2> QED
    BY <2>1
<1>10. Writes(nd)
  BY <1>1, <1>3, <1>4, <1>8, <1>9 DEF Consume, Sees
<1>11. ~Numbered(nd) <=> ~Numbered(b)
  BY <1>9 DEF Numbered
<1>12. ~HasNumber(g)
  <2> SUFFICES ASSUME NEW j \in DOMAIN g, Takes(g[j], "number") PROVE FALSE
    BY DEF HasNumber
  <2>1. Suits(g[j], ast[h])
    BY <1>6, PlainFacts
  <2> QED
    BY <1>7, <2>1 DEF Suits
<1>13. Fits(g, nd, h = Len(ast))
  <2>1. \A j \in DOMAIN g : ~Plain(g[j]) => Before(x, g[j])
    BY <1>6
  <2>2. \A y : Suits(y, ast[h]) /\ Before(x, y) => Suits(y, nd)
    BY <1>5, <1>7, <1>8, <1>9, <1>11 DEF Suits, Before
  <2> QED
    BY <1>6, <2>1, <2>2, FitsChanged
<1>14. Own(nd) = <<<<"name", v>>>>
  BY <1>4, <1>7, <1>8, <1>9, <1>11, NamedOwn
<1>15. Own(ast[h]) = <<>>
  BY <1>7, EmptyOwn
<1>16. PICK a \in Seq(Pieces) : a = OfToken(Peek(0)) /\ a = <<<<"name", v>>>>
  <2>1. OfToken(Peek(0)) = <<<<"name", v>>>>
    BY <1>3, <1>4 DEF OfToken
  <2> QED
    BY <1>3, <2>1, OfTokenFacts
<1>17. Own(nd) = Join2(IF Takes(x, "number") THEN <<>> ELSE Own(ast[h]), OfToken(Peek(0)))
  <2>1. Join2(<<>>, a) = a
    BY NothingFirst
  <2> QED
    BY <1>5, <1>14, <1>15, <1>16, <2>1
<1> QED
  BY <1>2, <1>5, <1>10, <1>12, <1>13, <1>17, StepTakes

LEMMA NumberStep ==
  ASSUME NInv, IInv', Consume,
         NEW x, NEW g, NEW h, NEW l, Reading(x, g, h, l), x.op = "eat", x.what = "number"
  PROVE  NInv'
<1>1. x = Todo[1] /\ Here = h /\ ast[h] \in Node /\ InOrder(ast, frames) /\ IInv
  BY DEF Reading, Todo, Here, NInv
<1>2. Sees({"number"}) /\ "eof" \notin {"number"} /\ Advance(1) /\ frames' = After(<<>>)
  BY <1>1 DEF Consume
<1>3. Peek(0) \in Token /\ Peek(0).kind = "number"
  BY <1>1, <1>2, SeesToken
<1>4. PICK v \in Int : v = Peek(0).num
  BY <1>3, TokenFacts
<1>5. ~Plain(x) /\ Takes(x, "number")
  BY PlainFacts DEF Takes
<1>6. Suits(x, ast[h]) /\ Fits(g, ast[h], h = Len(ast)) /\ ~HasNumber(g)
  BY <1>1, <1>5, TopItems
<1>7. Numbered(ast[h])
  BY <1>5, <1>6 DEF Suits
<1>8. PICK b \in Node : b = ast[h]
  BY <1>1
<1>9. PICK nd \in Node : nd = [b EXCEPT !.num = v] /\ nd.num = v /\ Alike(b, nd)
  <2>1. /\ [b EXCEPT !.num = v] \in Node /\ [b EXCEPT !.num = v].num = v
        /\ [b EXCEPT !.num = v].kind = b.kind /\ [b EXCEPT !.num = v].par = b.par
        /\ [b EXCEPT !.num = v].params = b.params /\ [b EXCEPT !.num = v].name = b.name
    BY DEF Node
  <2> QED
    BY <2>1 DEF Alike
<1>10. Writes(nd)
  BY <1>1, <1>3, <1>4, <1>8, <1>9 DEF Consume, Sees
<1>11. Numbered(nd)
  BY <1>7, <1>8, <1>9 DEF Numbered, Alike
<1>12. Fits(g, nd, h = Len(ast))
  BY <1>6, <1>8, <1>9, FitsAlike
<1>13. Own(nd) = <<<<"number", v>>>>
  <2>1. nd.kind = "for"
    BY <1>11 DEF Numbered
  <2> QED
    BY <1>9, <1>11, <2>1, OwnIs
<1>14. PICK a \in Seq(Pieces) : a = OfToken(Peek(0)) /\ a = <<<<"number", v>>>>
  <2>1. OfToken(Peek(0)) = <<<<"number", v>>>>
    BY <1>3, <1>4 DEF OfToken
  <2> QED
    BY <1>3, <2>1, OfTokenFacts
<1>15. Own(nd) = Join2(IF Takes(x, "number") THEN <<>> ELSE Own(ast[h]), OfToken(Peek(0)))
  <2>1. Join2(<<>>, a) = a
    BY NothingFirst
  <2> QED
    BY <1>5, <1>13, <1>14, <2>1
<1> QED
  BY <1>2, <1>5, <1>6, <1>10, <1>12, <1>15, StepTakes

LEMMA ConsumeStep ==
  ASSUME NInv, IInv', Consume, "-" \notin Names
  PROVE  NInv'
<1>1. PICK x \in Items, g \in Seq(Items), h \in DOMAIN ast, l \in Looks :
        Reading(x, g, h, l) /\ x.op = "eat"
  BY NextItem DEF Consume, NInv
<1>2. x = Todo[1] /\ IInv
  BY <1>1 DEF Reading, Todo, NInv
<1>3. Sees({x.what}) /\ "eof" \notin {x.what} /\ Advance(1) /\ frames' = After(<<>>)
  BY <1>2, NeverEnds DEF Consume, Items
<1>4. CASE x.what \notin {"name", "number"}
  <2>1. Peek(0) \in Token /\ Peek(0).kind = x.what
    BY <1>2, <1>3, SeesToken
  <2>2. ast' = ast
    BY <1>4, <2>1 DEF Consume, Sees
  <2>3. x.what # "text"
    <3>1. SUFFICES ASSUME x.what = "text" PROVE FALSE
      OBVIOUS
    <3>2. ~Plain(x)
      BY <1>1, <3>1, WordFacts DEF Plain, Content
    <3>3. Suits(x, ast[h])
      BY <1>1, <3>2, TopItems DEF NInv
    <3> QED
      BY <1>1, <3>1, <3>3 DEF Suits
  <2>4. {x.what} \cap Content = {}
    BY <1>4, <2>3 DEF Content
  <2>5. Skips
    BY <1>2, <1>3, <2>4, SkipsToken
  <2>6. ~Takes(x, "number")
    BY <1>4 DEF Takes
  <2> QED
    BY <1>1, <1>3, <2>2, <2>5, <2>6, LightStep
<1> QED
  BY <1>1, <1>4, NameStep, NumberStep

LEMMA ParamStep ==
  ASSUME NInv, IInv', Param
  PROVE  NInv'
<1>1. PICK x \in Items, g \in Seq(Items), h \in DOMAIN ast, l \in Looks :
        Reading(x, g, h, l) /\ x.op = "param"
  BY NextItem DEF Param, NInv
<1>2. x = Todo[1] /\ Here = h /\ ast[h] \in Node /\ Can(x, l) /\ InOrder(ast, frames) /\ IInv
  BY <1>1 DEF Reading, Todo, Here, NInv
<1>3. x.what \in Types
  BY <1>1, <1>2 DEF Can, Idle, Single
<1>4. Sees({"name"}) /\ "eof" \notin {"name"} /\ Advance(1) /\ frames' = After(<<>>)
  BY DEF Param
<1>5. Peek(0) \in Token /\ Peek(0).kind = "name" /\ Peek(0).name \in Names
  BY <1>2, <1>4, SeesToken, TokenFacts
<1>6. PICK p \in Params : p = [name |-> Peek(0).name, type |-> x.what] /\ p.name = Peek(0).name
  <2>1. /\ [name |-> Peek(0).name, type |-> x.what] \in Params
        /\ [name |-> Peek(0).name, type |-> x.what].name = Peek(0).name
    BY <1>3, <1>5 DEF Params
  <2> QED
    BY <2>1
<1>7. ~Plain(x) /\ OfParams(x) /\ ~Takes(x, "number")
  BY <1>1 DEF Plain, OfParams, Takes
<1>8. /\ Suits(x, ast[h]) /\ Fits(g, ast[h], h = Len(ast))
      /\ \A j \in DOMAIN g : ~Plain(g[j]) => Suits(g[j], ast[h]) /\ Before(x, g[j])
  BY <1>1, <1>2, <1>7, TopItems
<1>9. PICK b \in Node : b = ast[h] /\ b.kind = "func"
  BY <1>2, <1>7, <1>8 DEF Suits
<1>10. PICK s \in Seq(Params) : s = Append(b.params, p)
  <2>1. Append(b.params, p) \in Seq(Params)
    BY DEF Node
  <2> QED
    BY <2>1
<1>11. PICK nd \in Node : /\ nd = WithParams(b, s) /\ nd.params = s /\ nd.kind = "func"
                          /\ nd.name = b.name
  <2>1. /\ [b EXCEPT !.params = s] \in Node /\ [b EXCEPT !.params = s].params = s
        /\ [b EXCEPT !.params = s].kind = b.kind /\ [b EXCEPT !.params = s].name = b.name
    BY DEF Node
  <2> QED
    BY <1>9, <2>1 DEF WithParams
<1>12. Writes(nd)
  BY <1>2, <1>6, <1>9, <1>10, <1>11 DEF Param, WithParams
<1>13. ~Numbered(b) /\ ~Numbered(nd)
  BY <1>9, <1>11 DEF Numbered
<1>14. ~HasNumber(g)
  <2> SUFFICES ASSUME NEW j \in DOMAIN g, Takes(g[j], "number") PROVE FALSE
    BY DEF HasNumber
  <2>1. Suits(g[j], ast[h])
    BY <1>8, PlainFacts
  <2> QED
    BY <1>9, <1>13, <2>1 DEF Suits
<1>15. Fits(g, nd, h = Len(ast))
  <2>1. \A j \in DOMAIN g : ~Plain(g[j]) => Before(x, g[j])
    BY <1>8
  <2>2. \A y : Suits(y, ast[h]) /\ Before(x, y) => Suits(y, nd)
    BY <1>7, <1>9, <1>11, <1>13 DEF Suits, Before
  <2> QED
    BY <1>8, <2>1, <2>2, FitsChanged
<1>16. PICK n : n = IF b.name = "-" THEN <<>> ELSE <<<<"name", b.name>>>>
  OBVIOUS
<1>17. n \in Seq(Pieces)
  <2>1. b.name # "-" => <<"name", b.name>> \in Pieces
    BY DEF Node, Pieces
  <2> QED
    BY <1>16, <2>1
<1>18. PICK a \in Seq(Pieces) : a = OfToken(Peek(0)) /\ a = <<<<"name", p.name>>>>
  <2>1. OfToken(Peek(0)) = <<<<"name", p.name>>>>
    BY <1>5, <1>6 DEF OfToken
  <2> QED
    BY <1>5, <2>1, OfTokenFacts
<1>19. PICK c \in Seq(Pieces) : c = Listed(b.params) /\ Listed(s) = Join2(c, a)
  <2>1. b.params \in Seq(Params)
    BY DEF Node
  <2>2. Listed(b.params) \in Seq(Pieces) /\ Listed(s) = Join2(Listed(b.params), a)
    BY <1>10, <1>18, <2>1, ListedFacts
  <2> QED
    BY <2>2
<1>20. Own(b) = Join2(n, c) /\ Own(nd) = Join2(n, Join2(c, a))
  <2>1. Own(b) = Join2(n, Listed(b.params))
    BY <1>9, <1>13, <1>16, OwnIs
  <2>2. Own(nd) = Join2(n, Listed(s))
    BY <1>11, <1>13, <1>16, OwnIs
  <2> QED
    BY <1>19, <2>1, <2>2
<1>21. Join2(Join2(n, c), a) = Join2(n, Join2(c, a))
  BY <1>17, Associative
<1>22. Own(nd) = Join2(IF Takes(x, "number") THEN <<>> ELSE Own(ast[h]), OfToken(Peek(0)))
  BY <1>7, <1>9, <1>18, <1>20, <1>21
<1> QED
  BY <1>1, <1>4, <1>7, <1>12, <1>14, <1>15, <1>22, StepTakes
(* A token that becomes a node holds what it was. *)
LEMMA LeafOwn ==
  ASSUME NEW t \in Token, t.kind \in Content, "-" \notin Names
  PROVE  Own(Leaf(t)) = OfToken(t)
<1>1. CASE t.kind = "name"
  <2>1. PICK v \in Names : v = t.name /\ v # "-"
    BY <1>1, TokenFacts
  <2>2. PICK nd : nd = [Blank("ident") EXCEPT !.name = v]
    OBVIOUS
  <2>3. nd.kind = "ident" /\ nd.name = v /\ nd.params = <<>>
    BY <2>2 DEF Blank
  <2>4. Own(nd) = <<<<"name", v>>>>
    BY <2>1, <2>3, NamedOwn DEF Numbered
  <2>5. Leaf(t) = nd
    BY <1>1, <2>1, <2>2 DEF Leaf
  <2> QED
    BY <1>1, <2>1, <2>4, <2>5 DEF OfToken
<1>2. CASE t.kind = "number"
  <2>1. PICK nd : nd = [Blank("int") EXCEPT !.num = t.num]
    OBVIOUS
  <2>2. nd.kind = "int" /\ nd.num = t.num
    BY <2>1 DEF Blank
  <2>3. Leaf(t) = nd
    BY <1>2, <2>1 DEF Leaf
  <2>4. Own(nd) = <<<<"number", nd.num>>>>
    BY <2>2, OwnIs
  <2> QED
    BY <1>2, <2>2, <2>3, <2>4 DEF OfToken
<1>3. CASE t.kind = "text"
  <2>1. PICK nd : nd = Blank("string")
    OBVIOUS
  <2>2. nd.kind = "string" /\ ~Numbered(nd)
    BY <2>1 DEF Blank, Numbered
  <2>3. Leaf(t) = nd
    BY <1>3, <2>1 DEF Leaf
  <2>4. Own(nd) = <<<<"text">>>>
    BY <2>2, OwnIs
  <2> QED
    BY <1>3, <2>3, <2>4 DEF OfToken
<1> QED
  BY <1>1, <1>2, <1>3 DEF Content

LEMMA LiteralStep ==
  ASSUME NInv, IInv', Literal, "-" \notin Names
  PROVE  NInv'
<1>1. At("unary") \/ At("awaited")
  BY DEF Literal
<1>2. PICK x \in Items, g \in Seq(Items), h \in DOMAIN ast, l \in Looks :
        Reading(x, g, h, l) /\ x.op \in {"unary", "awaited"}
  BY <1>1, NextItem DEF NInv
<1>3. Sees(Content) /\ "eof" \notin Content /\ IInv
  BY DEF Literal, Sees, Content, NInv
<1>4. PICK t \in Token : t = Peek(0) /\ t.kind \in Content
  BY <1>3, SeesToken
<1>5. PICK nd \in Node : nd = Leaf(t)
  BY <1>4, LeafFacts
<1>6. ast' = Grown(nd) /\ frames' = After(<<>>) /\ Advance(1)
  BY <1>4, <1>5 DEF Literal
<1>7. Own(nd) = OfToken(Peek(0))
  BY <1>4, <1>5, LeafOwn
<1>8. source' = source /\ pos' = pos + 1
  BY <1>6 DEF Advance
<1>9. Flat(Taken(source', pos')) = Join2(Flat(Taken(source, pos)), Own(nd))
  BY <1>3, <1>7, <1>8, TakesToken
<1>10. ~Light(x)
  BY <1>2, Heavy DEF Single
<1> QED
  BY <1>2, <1>6, <1>9, <1>10, LeafStep

(* Two tokens, the second of which holds nothing *)
LEMMA TakesTwo ==
  ASSUME IInv, Sees({"name"}), Peek(1).kind = "(", source' = source, pos' = pos + 2
  PROVE  Flat(Taken(source', pos')) = Join2(Flat(Taken(source, pos)), OfToken(Peek(0)))
<1>1. pos + 0 < Len(source) /\ pos + 1 < Len(source)
  BY DEF Sees, Peek, EndToken
<1>2. source \in Seq(Token) /\ pos \in 0 .. Len(source) /\ Len(source) \in Nat /\ pos \in Nat
  BY DEF IInv
<1>3. /\ pos < Len(source) /\ pos + 0 + 1 = pos + 1 /\ pos + 1 + 1 = pos + 2
      /\ pos + 1 \in Nat /\ pos + 2 \in 1 .. Len(source) /\ pos + 1 \in 1 .. Len(source)
      /\ pos + 2 \in 0 .. Len(source) /\ pos + 1 \in 0 .. Len(source)
  BY <1>1, <1>2
<1>4. Peek(0) = source[pos + 1] /\ Peek(1) = source[pos + 2]
  BY <1>1, <1>3 DEF Peek
<1>5. Flat(Taken(source, pos + 1)) = Join2(Flat(Taken(source, pos)), OfToken(source[pos + 1]))
  BY <1>2, <1>3, TakenMore
<1>6. Flat(Taken(source, pos + 2)) = Join2(Flat(Taken(source, pos + 1)), OfToken(source[pos + 2]))
  <2>1. PICK q \in Nat : q = pos + 1 /\ q < Len(source) /\ q + 1 = pos + 2
    BY <1>1, <1>3
  <2>2. Flat(Taken(source, q + 1)) = Join2(Flat(Taken(source, q)), OfToken(source[q + 1]))
    BY <1>2, <2>1, TakenMore
  <2> QED
    BY <2>1, <2>2
<1>7. OfToken(source[pos + 2]) = <<>>
  <2>1. PICK t \in Token : t = source[pos + 2]
    BY <1>2, <1>3, ElementOfSeq
  <2>2. t.kind \notin Content
    BY <1>4, <2>1 DEF Content
  <2> QED
    BY <2>1, <2>2, OfTokenFacts
<1>8. Flat(Taken(source, pos + 1)) \in Seq(Pieces)
  <2>1. Taken(source, pos + 1) \in Seq(Seq(Pieces))
    BY <1>2, <1>3, TakenTyped
  <2> QED
    BY <2>1, FlatTyped
<1>9. Flat(Taken(source, pos + 2)) = Flat(Taken(source, pos + 1))
  BY <1>6, <1>7, <1>8, NothingMore
<1> QED
  BY <1>4, <1>5, <1>9

LEMMA CallValueStep ==
  ASSUME NInv, IInv', CallValue, "-" \notin Names
  PROVE  NInv'
<1>1. PICK x \in Items, g \in Seq(Items), h \in DOMAIN ast, l \in Looks :
        Reading(x, g, h, l) /\ x.op = "unary"
  BY NextItem DEF CallValue, NInv
<1>2. Sees({"name"}) /\ "eof" \notin {"name"} /\ Peek(1).kind = "(" /\ Advance(2) /\ IInv
  BY DEF CallValue, NInv
<1>3. Peek(0) \in Token /\ Peek(0).kind = "name"
  BY <1>2, SeesToken
<1>4. PICK v \in Names : v = Peek(0).name /\ v # "-"
  BY <1>3, TokenFacts
<1>5. PICK par \in ParallelTypes :
        Begins([Blank("call") EXCEPT !.name = v, !.par = par], <<List("arguments"), Eat(")")>>, <<>>)
  BY <1>4 DEF CallValue
<1>6. PICK nd \in Node : /\ nd = [Blank("call") EXCEPT !.name = v, !.par = par]
                         /\ nd.kind = "call" /\ nd.name = v /\ nd.params = <<>>
  <2>1. PICK b \in Node : b = Blank("call") /\ Nameless(b) /\ b.kind = "call"
    BY StatementKinds, BlankNameless
  <2>2. /\ [b EXCEPT !.name = v, !.par = par] \in Node
        /\ [b EXCEPT !.name = v, !.par = par].kind = "call"
        /\ [b EXCEPT !.name = v, !.par = par].name = v
        /\ [b EXCEPT !.name = v, !.par = par].params = b.params
    BY <2>1 DEF Node
  <2> QED
    BY <2>1, <2>2 DEF Nameless
<1>7. PICK w \in Seq(Pieces) : w = Own(nd) /\ w = <<<<"name", v>>>>
  <2>1. Own(nd) = <<<<"name", v>>>>
    BY <1>4, <1>6, NamedOwn DEF Numbered
  <2> QED
    BY <2>1, OwnTyped
<1>8. OfToken(Peek(0)) = w
  BY <1>3, <1>4, <1>7 DEF OfToken
<1>9. PICK todo \in Seq(Items) : todo = <<List("arguments"), Eat(")")>> /\ AllPlain(todo)
  <2>1. /\ List("arguments") \in Items /\ Plain(List("arguments"))
        /\ Eat(")") \in Items /\ Plain(Eat(")"))
    BY Spoken, WordFacts, PlainItems
  <2> QED
    BY <2>1, PlainRows
<1>10. Begins(nd, todo, <<>>)
  BY <1>5, <1>6, <1>9
<1>11. Fits(todo, nd, TRUE) /\ ~HasNumber(todo)
  BY <1>9, PlainFits
<1>12. source' = source /\ pos' = pos + 2
  BY <1>2 DEF Advance
<1>13. Flat(Taken(source', pos')) = Join2(Flat(Taken(source, pos)), w)
  BY <1>2, <1>8, <1>12, TakesTwo
<1>14. ~Light(x)
  BY <1>1, Heavy DEF Single
<1>15. HasNumber(todo) => w = <<>>
  BY <1>11
<1>16. ~HasNumber(todo) => w = Own(nd)
  BY <1>7
<1> QED
  BY <1>1, <1>10, <1>11, <1>13, <1>14, <1>15, <1>16, PlainRows, BeginsStep

LEMMA OtherSteps ==
  ASSUME NInv, IInv', UNCHANGED <<source, pos, frames, ast>>
  PROVE  NInv'
<1>1. Owned(ast', frames') = Owned(ast, frames)
  BY DEF Owned, Unread
<1>2. InOrder(ast', frames')
  BY DEF NInv
<1> QED
  BY <1>1, <1>2 DEF NInv

(* Every step keeps the invariant. *)
LEMMA StepKeepsN ==
  ASSUME NInv, Next, "-" \notin Names
  PROVE  NInv'
<1>1. IInv'
  BY StepKeeps DEF NInv
<1>2. ASSUME ConsumeFails \/ AssignFails \/ NameMissing \/ StatementFails \/ PrimaryFails \/ Finish
      PROVE  NInv'
  <2>1. UNCHANGED <<source, pos, frames, ast>>
    BY <1>2 DEF ConsumeFails, AssignFails, NameMissing, StatementFails, PrimaryFails, Finish, Fail
  <2> QED
    BY <1>1, <2>1, OtherSteps
<1>3. CASE Statements
  <2>1. \/ PrintStatement \/ IfStatement \/ ElseIf \/ ElseBlock \/ NoElse \/ ParseBlock
        \/ VarDeclaration \/ TypeWord \/ TypeMissing \/ Value \/ VarUpdate \/ Assign
        \/ ForLoop \/ ThreadedLoop \/ ThreadBlock \/ ThreadBody \/ ThreadStatement
        \/ ProcessStatement \/ FunctionCall \/ Function \/ Param
        \/ ReturnStatement \/ ParseAwait \/ AssignFails \/ NameMissing \/ StatementFails
    BY <1>3 DEF Statements
  <2> QED
    BY <1>1, <1>2, <2>1, PrintStep, IfStep, ElseStep, BlockStep, DeclarationStep, TypeStep,
       ValueStep, UpdateStep, AssignStep, LoopStep, InThreadStep, CallStep, FunctionStep, ParamStep,
       ReturnStatementStep, AwaitStep
<1>4. CASE Expressions
  BY <1>1, <1>2, <1>4, OperatorStep, NoOperatorStep, JoinStep, NegationStep, LiteralStep,
     CallValueStep, ParenthesisStep DEF Expressions
<1>5. CASE ~Statements /\ ~Expressions
  BY <1>1, <1>2, <1>5, ConsumeStep, ListGoesOnStep, ListEndsStep, CommaStep, ReturnStep DEF Next
<1> QED
  BY <1>3, <1>4, <1>5

LEMMA InitKeepsN ==
  ASSUME Sources \subseteq Seq(Token), Init
  PROVE  NInv
<1>1. IInv
  BY InitKeeps
<1>2. PICK nd \in Node : nd = Blank("program") /\ Own(nd) = <<>>
  <2>1. "program" \in Kinds
    BY DEF Kinds
  <2> QED
    BY <2>1, BlankFacts, BlankOwn
<1>3. PICK t \in Seq(Node) : t = <<nd>> /\ Len(t) = 1 /\ t[1] = nd
  <2>1. <<nd>> \in Seq(Node) /\ Len(<<nd>>) = 1 /\ <<nd>>[1] = nd
    OBVIOUS
  <2> QED
    BY <2>1
<1>4. PICK c \in Seq(Items) : c = <<List("program")>> /\ AllPlain(c)
  <2>1. "program" \in Whats
    BY Spoken
  <2> QED
    BY <2>1, PlainItems, PlainRows
<1>5. /\ ast = t /\ pos = 0 /\ DOMAIN frames = {1} /\ frames # <<>>
      /\ frames[1].todo = c /\ frames[1].node = 1
  BY <1>2, <1>3, <1>4 DEF Init
<1>6. Fits(c, ast[1], frames[1].node = Len(ast)) /\ ~HasNumber(c)
  BY <1>4, PlainFits
<1>7. InOrder(ast, frames) /\ \A n : ~Unread(frames, n)
  BY <1>5, <1>6 DEF InOrder, Unread
<1>8. PICK a \in Seq(Seq(Pieces)) : IsOwned(a, t, frames)
  BY OwnedTyped
<1>9. Flat(a) = <<>>
  <2>1. PICK e \in Seq(Seq(Pieces)) : e = <<>>
    <3>1. <<>> \in Seq(Seq(Pieces))
      OBVIOUS
    <3> QED
      BY <3>1
  <2>2. PICK x \in Seq(Pieces) : x = <<>>
    <3>1. <<>> \in Seq(Pieces)
      OBVIOUS
    <3> QED
      BY <3>1
  <2>3. PICK z \in Seq(Seq(Pieces)) : z = Append(e, x) /\ LongerBy(z, e, x)
    <3>1. PICK z \in Seq(Seq(Pieces)) : LongerBy(z, e, x)
      BY OneMore
    <3> QED
      BY <3>1 DEF LongerBy
  <2>4. Len(z) = 1 /\ z[1] = <<>> /\ Len(a) = 1 /\ a[1] = <<>>
    <3>1. Len(a) = 1 /\ a[1] = Own(t[1])
      <4>1. 1 \in 1 .. Len(t) /\ ~Unread(frames, 1)
        BY <1>3, <1>7
      <4> QED
        BY <1>3, <1>8, <4>1 DEF IsOwned
    <3>2. Len(z) = 1 /\ z[1] = x
      BY <2>1, <2>3 DEF LongerBy
    <3> QED
      BY <1>2, <1>3, <2>2, <3>1, <3>2
  <2>5. a = z
    <3>1. \A i \in 1 .. Len(a) : a[i] = z[i]
      BY <2>4
    <3> QED
      BY <2>4, <3>1, SeqEqual
  <2>6. Flat(Append(e, x)) = x
    BY <2>1, FlatAppend
  <2> QED
    BY <2>2, <2>3, <2>5, <2>6
<1>10. Flat(Taken(source, pos)) = <<>>
  <2>1. Taken(source, 0) = <<>>
    BY DEF Taken
  <2> QED
    BY <1>5, <2>1, FlatEmpty
<1>11. Owned(ast, frames) = a
  BY <1>5, <1>8 DEF IsOwned
<1> QED
  BY <1>1, <1>7, <1>9, <1>10, <1>11 DEF NInv

LEMMA AllOfTheText ==
  ASSUME NInv, phase = "parsed"
  PROVE  S!FlattenSeq([n \in DOMAIN ast |-> Own(ast[n])])
           = S!FlattenSeq([i \in 1 .. pos |-> OfToken(source[i])])
<1>1. frames = <<>> /\ ast \in Seq(Node)
  BY DEF NInv, IInv, Readable, TreeOK
<1>2. DOMAIN ast = 1 .. Len(ast) /\ \A n : ~Unread(frames, n)
  BY <1>1 DEF Unread
<1>3. [n \in DOMAIN ast |-> Own(ast[n])] = Owned(ast, frames)
  BY <1>2 DEF Owned
<1>4. Flat(Owned(ast, frames)) = Flat(Taken(source, pos))
  BY DEF NInv
<1> QED
  BY <1>3, <1>4 DEF Flat, Taken

-----------------------------------------------------------------------------
(* The third invariant: the program goes on until the text ends or parse   *)
(* meets a token that it cannot read.  The outermost call has the list of  *)
(* the program still before it, until there is no more to read.            *)

Stopped == Sees({"illegal", "eof"})
Bottom  == frames[Len(frames)].todo

StopInv ==
  /\ frames = <<>> => Stopped
  /\ frames # <<>> =>
       \/ Bottom # <<>> /\ Bottom[Len(Bottom)] = List("program")
       \/ Len(frames) = 1 /\ Bottom = <<>> /\ Stopped

LEMMA TailRows ==
  ASSUME NEW X, NEW s \in Seq(X), s # <<>>
  PROVE  /\ Len(s) \in Nat \ {0}
         /\ Len(s) # 1 => Tail(s) # <<>> /\ Tail(s)[Len(Tail(s))] = s[Len(s)]
         /\ Len(s) = 1 => Tail(s) = <<>>
<1>1. /\ Len(s) \in Nat \ {0} /\ Tail(s) \in Seq(X) /\ Len(Tail(s)) = Len(s) - 1
      /\ \A i \in 1 .. Len(s) - 1 : Tail(s)[i] = s[i + 1]
  OBVIOUS
<1>2. PICK g : g = Tail(s)
  OBVIOUS
<1>3. PICK n \in Nat : n = Len(s)
  BY <1>1
<1>4. /\ g \in Seq(X) /\ Len(g) = n - 1 /\ n # 0
      /\ \A i \in 1 .. n - 1 : g[i] = s[i + 1]
  BY <1>1, <1>2, <1>3
<1>5. ASSUME n # 1 PROVE g # <<>> /\ g[Len(g)] = s[n]
  <2>1. n - 1 \in 1 .. n - 1 /\ (n - 1) + 1 = n
    BY <1>4, <1>5
  <2>2. g[n - 1] = s[n]
    BY <1>4, <2>1
  <2> QED
    BY <1>4, <1>5, <2>2
<1>6. ASSUME n = 1 PROVE g = <<>>
  BY <1>4, <1>6
<1> QED
  BY <1>1, <1>2, <1>3, <1>5, <1>6

(* A sequence, of whatever it is *)
IsRow(a) == \E X : a \in Seq(X)

LEMMA RowsJoin ==
  ASSUME NEW a, NEW b, IsRow(a), IsRow(b)
  PROVE  /\ IsRow(a \o b) /\ Len(a \o b) = Len(a) + Len(b)
         /\ Len(a) \in Nat /\ Len(b) \in Nat
         /\ \A i \in 1 .. Len(b) : (a \o b)[Len(a) + i] = b[i]
         /\ b = <<>> => a \o b = a
<1>1. PICK X : a \in Seq(X)
  BY DEF IsRow
<1>2. PICK Y : b \in Seq(Y)
  BY DEF IsRow
<1>3. PICK Z : Z = X \cup Y
  OBVIOUS
<1>4. a \in Seq(Z)
  <2>1. \A i \in 1 .. Len(a) : a[i] \in Z
    BY <1>1, <1>3
  <2> QED
    BY <1>1, <2>1
<1>5. b \in Seq(Z)
  <2>1. \A i \in 1 .. Len(b) : b[i] \in Z
    BY <1>2, <1>3
  <2> QED
    BY <1>2, <2>1
<1>6. /\ a \o b \in Seq(Z) /\ Len(a \o b) = Len(a) + Len(b)
      /\ Len(a) \in Nat /\ Len(b) \in Nat
      /\ \A i \in 1 .. Len(b) : (a \o b)[Len(a) + i] = b[i]
  BY <1>4, <1>5
<1>7. b = <<>> => a \o b = a
  BY <1>4
<1> QED
  BY <1>6, <1>7 DEF IsRow

LEMMA ShortRows ==
  /\ IsRow(<<>>) /\ \A x : IsRow(<<x>>) /\ Len(<<x>>) = 1 /\ <<x>>[1] = x
  /\ \A x, y : IsRow(<<x, y>>)
<1>1. <<>> \in Seq({})
  OBVIOUS
<1>2. ASSUME NEW x PROVE IsRow(<<x>>) /\ Len(<<x>>) = 1 /\ <<x>>[1] = x
  <2>1. <<x>> \in Seq({x}) /\ Len(<<x>>) = 1 /\ <<x>>[1] = x
    OBVIOUS
  <2> QED
    BY <2>1 DEF IsRow
<1>3. ASSUME NEW x, NEW y PROVE IsRow(<<x, y>>)
  <2>1. <<x, y>> \in Seq({x, y})
    OBVIOUS
  <2> QED
    BY <2>1 DEF IsRow
<1>4. IsRow(<<>>)
  BY <1>1 DEF IsRow
<1> QED
  BY <1>2, <1>3, <1>4

(* The stack with other items for the innermost call *)
LEMMA OtherItems ==
  ASSUME NEW items, frames \in Seq(CallFrame), frames # <<>>
  PROVE  /\ IsRow(After(items)) /\ Len(After(items)) = Len(frames) /\ Len(frames) \in Nat \ {0}
         /\ \A i \in 2 .. Len(frames) : After(items)[i] = frames[i]
         /\ After(items)[1].todo = items \o Tail(Todo)
<1>1. /\ Len(frames) \in Nat \ {0} /\ DOMAIN frames = 1 .. Len(frames)
      /\ frames[1] \in CallFrame
  OBVIOUS
<1>2. PICK s : s = After(items)
  OBVIOUS
<1>3. PICK v : v = items \o Tail(Todo)
  OBVIOUS
<1>4. PICK w : w = [frames[1] EXCEPT !.todo = v]
  OBVIOUS
<1>5. /\ s = [i \in 1 .. Len(frames) |-> s[i]]
      /\ \A i \in 2 .. Len(frames) : s[i] = frames[i]
      /\ s[1] = w
  <2>1. s = [frames EXCEPT ![1] = w]
    BY <1>2, <1>3, <1>4 DEF After, Todo
  <2>2. frames \in [1 .. Len(frames) -> CallFrame] /\ 1 \in 1 .. Len(frames)
    BY <1>1
  <2>3. s = [i \in 1 .. Len(frames) |-> IF i = 1 THEN w ELSE frames[i]]
    BY <2>1, <2>2
  <2> QED
    BY <1>1, <2>3
<1>6. s[1].todo = v
  BY <1>1, <1>4, <1>5 DEF CallFrame
<1>7. PICK Z : Z = {s[i] : i \in 1 .. Len(frames)}
  OBVIOUS
<1>8. s \in [1 .. Len(frames) -> Z]
  <2>1. \A i \in 1 .. Len(frames) : s[i] \in Z
    BY <1>7
  <2> QED
    BY <1>5, <2>1
<1>9. s \in Seq(Z) /\ Len(s) = Len(frames)
  BY <1>1, <1>8
<1> QED
  BY <1>1, <1>2, <1>3, <1>5, <1>6, <1>9 DEF IsRow

(* What a step does to the stack that neither returns nor reads a list *)
Continues(items) ==
  IsRow(items) /\ (frames' = After(items) \/ \E f : frames' = <<f>> \o After(items))

(* The last item of the outermost call stays, if there is another one      *)
(* before it or another call before that one.                              *)
LEMMA LastStays ==
  ASSUME StopInv, frames \in Seq(CallFrame), frames # <<>>, Todo # <<>>,
         NEW items, Continues(items), Len(frames) # 1 \/ Tail(Todo) # <<>>
  PROVE  StopInv'
<1>1. /\ IsRow(After(items)) /\ Len(After(items)) = Len(frames) /\ Len(frames) \in Nat \ {0}
      /\ \A i \in 2 .. Len(frames) : After(items)[i] = frames[i]
      /\ After(items)[1].todo = items \o Tail(Todo)
  BY OtherItems
<1>2. PICK s : s = After(items)
  OBVIOUS
<1>3. s[Len(s)].todo # <<>> /\ s[Len(s)].todo[Len(s[Len(s)].todo)] = List("program")
  <2>1. CASE Len(frames) # 1
    <3>1. Bottom # <<>> /\ Bottom[Len(Bottom)] = List("program")
      BY <2>1 DEF StopInv
    <3>2. Len(s) = Len(frames) /\ s[Len(s)] = frames[Len(frames)]
      BY <1>1, <1>2, <2>1
    <3> QED
      BY <3>1, <3>2 DEF Bottom
  <2>2. CASE Len(frames) = 1
    <3>1. Todo \in Seq(Items)
      <4>1. frames[1] \in CallFrame
        BY <2>2
      <4> QED
        BY <4>1 DEF Todo, CallFrame
    <3>2. Todo[Len(Todo)] = List("program")
      BY <2>2 DEF StopInv, Bottom, Todo
    <3>3. PICK g : g = Tail(Todo)
      OBVIOUS
    <3>4. /\ g \in Seq(Items) /\ Len(g) \in Nat \ {0} /\ Len(Todo) = Len(g) + 1
          /\ g[Len(g)] = Todo[Len(Todo)]
      BY <2>2, <3>1, <3>3
    <3>5. IsRow(g) /\ IsRow(items)
      BY <3>4 DEF IsRow, Continues
    <3>6. PICK r : r = items \o g
      OBVIOUS
    <3>7. /\ IsRow(r) /\ Len(r) = Len(items) + Len(g) /\ Len(items) \in Nat
          /\ r[Len(items) + Len(g)] = g[Len(g)]
      BY <3>4, <3>5, <3>6, RowsJoin
    <3>8. r # <<>> /\ r[Len(r)] = List("program")
      BY <3>2, <3>4, <3>7
    <3>9. Len(s) = 1 /\ s[1].todo = r
      BY <1>1, <1>2, <2>2, <3>3, <3>6
    <3> QED
      BY <3>8, <3>9
  <2> QED
    BY <2>1, <2>2
<1>4. s # <<>> /\ Len(s) \in Nat \ {0}
  BY <1>1, <1>2
<1>5. frames' # <<>> /\ frames'[Len(frames')] = s[Len(s)]
  <2>1. CASE frames' = s
    BY <1>4, <2>1
  <2>2. ASSUME NEW f, frames' = <<f>> \o s PROVE frames' # <<>> /\ frames'[Len(frames')] = s[Len(s)]
    <3>1. IsRow(<<f>>) /\ Len(<<f>>) = 1 /\ IsRow(s)
      BY <1>1, <1>2, ShortRows
    <3>2. /\ Len(<<f>> \o s) = 1 + Len(s)
          /\ \A i \in 1 .. Len(s) : (<<f>> \o s)[1 + i] = s[i]
      BY <3>1, RowsJoin
    <3>3. PICK r : r = <<f>> \o s
      OBVIOUS
    <3>4. Len(r) = 1 + Len(s) /\ r[1 + Len(s)] = s[Len(s)]
      BY <1>4, <3>2, <3>3
    <3>5. r # <<>> /\ r[Len(r)] = s[Len(s)]
      BY <1>4, <3>4
    <3> QED
      BY <2>2, <3>3, <3>5
  <2> QED
    BY <1>2, <2>1, <2>2 DEF Continues
<1> QED
  BY <1>3, <1>5 DEF StopInv, Bottom

(* The steps that neither return nor read a list, and what they leave to do *)
Goes == \E op, items : op # "list" /\ At(op) /\ Continues(items)

LEMMA Going ==
  ASSUME NEW op, op # "list", At(op), NEW items, IsRow(items),
         frames' = After(items) \/ \E nd, todo : Begins(nd, todo, items)
  PROVE  Goes
<1>1. Continues(items)
  BY DEF Begins, Continues
<1> QED
  BY <1>1 DEF Goes

LEMMA AllocatesGoes ==
  ASSUME NEW op, op # "list", At(op), NEW nd, NEW todo, Allocates(nd, todo, <<>>)
  PROVE  Goes
BY Going, ShortRows DEF Allocates

LEMMA ExpressionRows ==
  /\ IsRow(Expression) /\ \A k \in 1 .. 5 : IsRow(Operand(k))
  /\ \A x : IsRow(Expression \o <<x>>)
<1>1. \A k \in 1 .. 5 : IsRow(Operand(k))
  <2> SUFFICES ASSUME NEW k \in 1 .. 5 PROVE IsRow(Operand(k))
    OBVIOUS
  <2>1. PICK m : m = [i \in 1 .. 5 - k |-> More(5 - i)]
    OBVIOUS
  <2>2. PICK Z : Z = {More(5 - i) : i \in 1 .. 5 - k}
    OBVIOUS
  <2>3. m \in [1 .. 5 - k -> Z] /\ 5 - k \in Nat
    BY <2>1, <2>2
  <2>4. m \in Seq(Z)
    BY <2>3
  <2>5. IsRow(m)
    BY <2>4 DEF IsRow
  <2> QED
    BY <2>1, <2>5, RowsJoin, ShortRows DEF Operand
<1>2. IsRow(Expression)
  BY <1>1 DEF Expression
<1>3. \A x : IsRow(Expression \o <<x>>)
  BY <1>2, RowsJoin, ShortRows
<1> QED
  BY <1>1, <1>2, <1>3

LEMMA StatementsGo ==
  ASSUME Statements
  PROVE  Goes \/ Fail
<1>1. CASE PrintStatement
  BY <1>1, AllocatesGoes DEF PrintStatement, Statement
<1>2. CASE IfStatement
  BY <1>2, AllocatesGoes DEF IfStatement, Statement
<1>3. CASE ElseIf \/ ElseBlock \/ NoElse
  <2>1. At("else") /\ \E items : IsRow(items) /\ Does(items)
    BY <1>3, ShortRows DEF ElseIf, ElseBlock, NoElse
  <2> QED
    BY <2>1, Going DEF Does
<1>4. CASE ParseBlock
  BY <1>4, AllocatesGoes DEF ParseBlock
<1>5. CASE VarDeclaration
  BY <1>5, AllocatesGoes DEF VarDeclaration, Statement
<1>6. CASE TypeWord \/ TypeMissing
  <2>1. At("type") /\ \E t : TypeRead(t)
    BY <1>6 DEF TypeWord, TypeMissing
  <2>2. \E items : IsRow(items) /\ frames' = After(items)
    BY <2>1, ShortRows DEF TypeRead
  <2> QED
    BY <2>1, <2>2, Going
<1>7. CASE Value
  <2>1. At("value")
    BY <1>7 DEF Value
  <2>2. \/ frames' = After(<<Eat("thread"), CallIn("thread")>>)
        \/ frames' = After(<<CallIn("process")>>)
        \/ frames' = After(Expression \o <<Eat(";")>>)
    BY <1>7 DEF Value
  <2>3. \E items : IsRow(items) /\ frames' = After(items)
    BY <2>2, ShortRows, ExpressionRows
  <2> QED
    BY <2>1, <2>3, Going
<1>8. CASE VarUpdate
  <2>1. \E op : op # "list" /\ At(op)
    BY <1>8 DEF VarUpdate, Statement
  <2>2. \E nd, todo, items : IsRow(items) /\ Begins(nd, todo, items)
    BY <1>8, ShortRows DEF VarUpdate, Allocates
  <2> QED
    BY <2>1, <2>2, Going
<1>9. CASE Assign
  <2>1. At("assign") /\ (frames' = After(<<>>) \/ frames' = After(Expression))
    BY <1>9 DEF Assign
  <2> QED
    BY <2>1, ShortRows, ExpressionRows, Going
<1>10. CASE ForLoop
  BY <1>10, AllocatesGoes DEF ForLoop, Statement
<1>11. CASE ThreadedLoop
  BY <1>11, AllocatesGoes DEF ThreadedLoop, Statement
<1>12. CASE ThreadBlock \/ ThreadStatement \/ ProcessStatement
  <2>1. At("statement") /\ \E items : IsRow(items) /\ Does(items)
    BY <1>12, ShortRows DEF ThreadBlock, ThreadStatement, ProcessStatement, Statement
  <2> QED
    BY <2>1, Going DEF Does
<1>13. CASE ThreadBody
  BY <1>13, AllocatesGoes DEF ThreadBody
<1>14. CASE FunctionCall
  BY <1>14, AllocatesGoes DEF FunctionCall
<1>15. CASE Function
  BY <1>15, AllocatesGoes DEF Function, Statement
<1>16. CASE Param
  <2>1. At("param") /\ frames' = After(<<>>)
    BY <1>16 DEF Param
  <2> QED
    BY <2>1, ShortRows, Going
<1>17. CASE ReturnStatement
  BY <1>17, AllocatesGoes DEF ReturnStatement, Statement
<1>18. CASE ParseAwait
  BY <1>18, AllocatesGoes DEF ParseAwait, Statement
<1>19. CASE AssignFails \/ NameMissing \/ StatementFails
  BY <1>19 DEF AssignFails, NameMissing, StatementFails
<1> QED
  BY <1>1, <1>2, <1>3, <1>4, <1>5, <1>6, <1>7, <1>8, <1>9, <1>10, <1>11, <1>12, <1>13, <1>14,
     <1>15, <1>16, <1>17, <1>18, <1>19 DEF Statements

LEMMA ExpressionsGo ==
  ASSUME IInv, Expressions
  PROVE  Goes \/ Fail
<1>1. CASE Operator
  <2>1. At("more") /\ Todo[1].level + 1 \in 1 .. 5
    <3>1. PICK x \in Items, g \in Seq(Items), h \in DOMAIN ast, l \in Looks :
            Reading(x, g, h, l) /\ x.op = "more"
      BY <1>1, NextItem DEF Operator
    <3>2. x = Todo[1] /\ Can(x, l)
      BY <3>1 DEF Reading, Todo
    <3>3. x.level \in 1 .. 4
      BY <3>1, <3>2, MoreFacts
    <3> QED
      BY <1>1, <3>2, <3>3 DEF Operator
  <2>2. PICK a, b : /\ a = Operand(Todo[1].level + 1)
                    /\ b = <<Item("join", RuleOf[Peek(0).kind], 0), Todo[1]>>
    OBVIOUS
  <2>3. IsRow(a \o b)
    BY <2>1, <2>2, ExpressionRows, ShortRows, RowsJoin
  <2>4. frames' = After(a \o b)
    BY <1>1, <2>2 DEF Operator
  <2> QED
    BY <2>1, <2>3, <2>4, Going
<1>2. CASE NoOperator \/ Join
  <2>1. \E op : op # "list" /\ At(op) /\ frames' = After(<<>>)
    BY <1>2 DEF NoOperator, Join, Does
  <2> QED
    BY <2>1, ShortRows, Going
<1>3. CASE Negation
  <2>1. At("unary") /\ \E nd, todo : Begins(nd, todo, <<>>)
    BY <1>3 DEF Negation
  <2> QED
    BY <2>1, ShortRows, Going
<1>4. CASE Literal
  <2>1. \E op : op # "list" /\ At(op) /\ frames' = After(<<>>)
    BY <1>4 DEF Literal
  <2> QED
    BY <2>1, ShortRows, Going
<1>5. CASE CallValue
  <2>1. At("unary") /\ \E nd, todo : Begins(nd, todo, <<>>)
    BY <1>5 DEF CallValue
  <2> QED
    BY <2>1, ShortRows, Going
<1>6. CASE Parenthesis
  <2>1. At("unary") /\ frames' = After(Expression \o <<Eat(")")>>)
    BY <1>6 DEF Parenthesis
  <2> QED
    BY <2>1, ExpressionRows, Going
<1>7. CASE PrimaryFails
  BY <1>7 DEF PrimaryFails
<1> QED
  BY <1>1, <1>2, <1>3, <1>4, <1>5, <1>6, <1>7 DEF Expressions

(* The list of the program is the last thing to do, and not to be done yet. *)
LEMMA GoesOnToStop ==
  ASSUME IInv, StopInv, Goes
  PROVE  StopInv'
<1>1. PICK op, items : op # "list" /\ At(op) /\ Continues(items)
  BY DEF Goes
<1>2. frames \in Seq(CallFrame) /\ frames # <<>> /\ Todo # <<>> /\ Todo[1].op # "list"
  BY <1>1 DEF IInv, Readable, CallsOK, At
<1>3. Len(frames) # 1 \/ Tail(Todo) # <<>>
  <2> SUFFICES ASSUME Len(frames) = 1 PROVE Tail(Todo) # <<>>
    OBVIOUS
  <2>1. frames[1] \in CallFrame
    BY <1>2
  <2>2. Todo \in Seq(Items)
    BY <2>1 DEF Todo, CallFrame
  <2>3. Todo[Len(Todo)] = List("program")
    BY <1>2 DEF StopInv, Bottom, Todo
  <2>4. List("program").op = "list"
    BY DEF List, Item
  <2>5. Len(Todo) # 1
    BY <1>2, <2>3, <2>4
  <2> QED
    BY <1>2, <2>2, <2>5, TailRows
<1> QED
  BY <1>1, <1>2, <1>3, LastStays

(* The list of the program comes before itself until there is a reason to  *)
(* stop; any other list has it behind.                                     *)
LEMMA ListsStop ==
  ASSUME IInv, StopInv, ListGoesOn \/ ListEnds
  PROVE  StopInv'
<1>1. /\ frames \in Seq(CallFrame) /\ frames # <<>> /\ Todo # <<>>
      /\ frames[1] \in CallFrame /\ Len(frames) \in Nat
  <2>1. frames \in Seq(CallFrame) /\ frames # <<>> /\ Todo # <<>>
    BY DEF IInv, Readable, CallsOK, ListGoesOn, ListEnds, At
  <2> QED
    BY <2>1
<1>2. Todo \in Seq(Items)
  BY <1>1 DEF Todo, CallFrame
<1>3. PICK e : e = Element(Todo[1].what)
  OBVIOUS
<1>4. PICK y : y = <<List(Todo[1].what)>>
  OBVIOUS
<1>5. IsRow(e) /\ IsRow(y) /\ IsRow(<<>>) /\ Len(y) = 1 /\ y[1] = List(Todo[1].what)
  <2>1. \/ e = Expression \o <<Enter("comma")>>
        \/ e = <<Item("type", "param", 0), Enter("comma")>>
        \/ e = <<Enter("awaited"), Enter("comma")>>
        \/ e = <<Enter("statement")>>
    BY <1>3 DEF Element
  <2> QED
    BY <1>4, <2>1, ExpressionRows, ShortRows
<1>6. PICK r : r = e \o y
  OBVIOUS
<1>7. IsRow(r) /\ Len(r) \in Nat \ {0} /\ r[Len(r)] = List(Todo[1].what)
  <2>0. IsRow(e) /\ IsRow(y)
    BY <1>5
  <2>1. /\ IsRow(r) /\ Len(r) = Len(e) + Len(y) /\ Len(e) \in Nat
        /\ \A i \in 1 .. Len(y) : r[Len(e) + i] = y[i]
    BY <1>6, <2>0, RowsJoin
  <2>2. Len(r) = Len(e) + 1 /\ r[Len(e) + 1] = y[1]
    BY <1>5, <2>1
  <2>3. Len(r) \in Nat \ {0}
    BY <2>1, <2>2
  <2> QED
    BY <1>5, <2>1, <2>2, <2>3
<1>8. frames' = After(r) \/ (frames' = After(<<>>) /\ Sees(Closers[Todo[1].what]))
  BY <1>3, <1>4, <1>6 DEF ListGoesOn, ListEnds, Does
<1>9. UNCHANGED <<source, pos>>
  BY DEF ListGoesOn, ListEnds, Does
<1>10. CASE Len(frames) # 1 \/ Tail(Todo) # <<>>
  <2>1. Continues(r) \/ Continues(<<>>)
    BY <1>5, <1>7, <1>8 DEF Continues
  <2> QED
    BY <1>1, <1>10, <2>1, LastStays
<1>11. CASE Len(frames) = 1 /\ Tail(Todo) = <<>>
  <2>1. Todo[1] = List("program") /\ Todo[1].what = "program"
    <3>1. Todo[Len(Todo)] = List("program")
      BY <1>1, <1>11 DEF StopInv, Bottom, Todo
    <3>2. Len(Todo) = 1
      BY <1>1, <1>2, <1>11
    <3> QED
      BY <3>1, <3>2 DEF List, Item
  <2>2. ASSUME frames' = After(r) PROVE StopInv'
    <3>1. /\ Len(After(r)) = 1 /\ After(r)[1].todo = r \o <<>> /\ IsRow(After(r))
      BY <1>1, <1>11, OtherItems
    <3>2. r \o <<>> = r
      BY <1>5, <1>7, RowsJoin
    <3>3. frames' # <<>> /\ frames'[Len(frames')].todo = r
      BY <2>2, <3>1, <3>2
    <3>4. r # <<>> /\ r[Len(r)] = List("program")
      BY <1>7, <2>1
    <3>5. Bottom' # <<>> /\ Bottom'[Len(Bottom')] = List("program")
      BY <3>3, <3>4 DEF Bottom
    <3> QED
      BY <3>3, <3>5 DEF StopInv
  <2>3. ASSUME frames' = After(<<>>), Sees(Closers[Todo[1].what]) PROVE StopInv'
    <3>0. PICK z : z = <<>>
      OBVIOUS
    <3>1. Len(After(z)) = 1 /\ After(z)[1].todo = z \o z
      BY <1>1, <1>11, <3>0, OtherItems
    <3>2. z \o z = z
      BY <1>5, <3>0, RowsJoin
    <3>3. Sees({"illegal", "eof"})
      <4>1. Closers["program"] = {"illegal", "eof"}
        BY DEF Closers
      <4> QED
        BY <2>1, <2>3, <4>1
    <3>4. Stopped'
      BY <1>9, <3>3 DEF Stopped, Sees, Peek
    <3>5. Len(frames') = 1 /\ frames' # <<>> /\ frames'[Len(frames')].todo = <<>>
      BY <2>3, <3>0, <3>1, <3>2
    <3> QED
      BY <3>4, <3>5 DEF StopInv, Bottom
  <2> QED
    BY <1>8, <2>2, <2>3
<1> QED
  BY <1>10, <1>11

LEMMA ReturnStops ==
  ASSUME IInv, StopInv, Return
  PROVE  StopInv'
<1>1. /\ frames \in Seq(CallFrame) /\ frames # <<>> /\ Todo = <<>>
      /\ frames' = Tail(frames) /\ UNCHANGED <<source, pos>>
  BY DEF IInv, Readable, CallsOK, Return
<1>2. Stopped' = Stopped
  BY <1>1 DEF Stopped, Sees, Peek
<1>3. CASE Len(frames) = 1
  <2>1. Bottom = <<>> /\ frames' = <<>>
    BY <1>1, <1>3, TailRows DEF Bottom, Todo
  <2> QED
    BY <1>1, <1>2, <2>1 DEF StopInv
<1>4. CASE Len(frames) # 1
  <2>1. frames' # <<>> /\ frames'[Len(frames')] = frames[Len(frames)]
    BY <1>1, <1>4, TailRows
  <2>2. Bottom' = Bottom
    BY <2>1 DEF Bottom
  <2>3. Bottom # <<>> /\ Bottom[Len(Bottom)] = List("program")
    BY <1>1, <1>4 DEF StopInv
  <2>4. Bottom' # <<>> /\ Bottom'[Len(Bottom')] = List("program")
    BY <2>2, <2>3
  <2> QED
    BY <2>1, <2>4 DEF StopInv
<1> QED
  BY <1>3, <1>4

LEMMA SameStop ==
  ASSUME StopInv, UNCHANGED <<source, pos, frames>>
  PROVE  StopInv'
BY DEF StopInv, Stopped, Bottom, Sees, Peek

(* The invariant of the whole text *)
ReadInv == NInv /\ StopInv

LEMMA SameReading ==
  ASSUME ReadInv, UNCHANGED <<source, pos, frames, phase, ast>>
  PROVE  ReadInv'
<1>1. IInv'
  BY DEF ReadInv, NInv, IInv
<1>2. NInv'
  BY <1>1, OtherSteps DEF ReadInv
<1> QED
  BY <1>2, SameStop DEF ReadInv

LEMMA StepKeepsReading ==
  ASSUME ReadInv, Next, "-" \notin Names
  PROVE  ReadInv'
<1>1. NInv'
  BY StepKeepsN DEF ReadInv
<1>2. IInv /\ StopInv
  BY DEF ReadInv, NInv
<1>3. CASE Statements \/ Expressions
  <2>1. Goes \/ Fail
    BY <1>2, <1>3, StatementsGo, ExpressionsGo
  <2>2. Fail => UNCHANGED <<source, pos, frames>>
    BY DEF Fail
  <2> QED
    BY <1>1, <1>2, <2>1, <2>2, GoesOnToStop, SameStop DEF ReadInv
<1>4. CASE Consume \/ Comma
  <2>1. \E op : op # "list" /\ At(op) /\ frames' = After(<<>>)
    BY <1>4 DEF Consume, Comma
  <2>2. Goes
    BY <2>1, ShortRows, Going
  <2> QED
    BY <1>1, <1>2, <2>2, GoesOnToStop DEF ReadInv
<1>5. CASE ListGoesOn \/ ListEnds
  BY <1>1, <1>2, <1>5, ListsStop DEF ReadInv
<1>6. CASE Return
  BY <1>1, <1>2, <1>6, ReturnStops DEF ReadInv
<1>7. CASE ConsumeFails \/ Finish
  <2>1. UNCHANGED <<source, pos, frames>>
    BY <1>7 DEF ConsumeFails, Finish, Fail
  <2> QED
    BY <1>1, <1>2, <2>1, SameStop DEF ReadInv
<1> QED
  BY <1>3, <1>4, <1>5, <1>6, <1>7 DEF Next

LEMMA InitKeepsReading ==
  ASSUME Sources \subseteq Seq(Token), Init
  PROVE  ReadInv
<1>1. NInv
  BY InitKeepsN
<1>2. PICK c : c = <<List("program")>>
  OBVIOUS
<1>3. PICK f : f = [node |-> 1, todo |-> c]
  OBVIOUS
<1>4. frames = <<f>> /\ f.todo = c
  BY <1>2, <1>3 DEF Init
<1>5. Len(frames) = 1 /\ frames # <<>> /\ frames[1] = f
  BY <1>4
<1>6. c # <<>> /\ c[Len(c)] = List("program")
  BY <1>2
<1>7. Bottom = c
  BY <1>4, <1>5 DEF Bottom
<1> QED
  BY <1>1, <1>5, <1>6, <1>7 DEF ReadInv, StopInv

LEMMA WholeText == ReadInv => NothingDropped
<1> SUFFICES ASSUME ReadInv, phase = "parsed"
             PROVE  /\ pos = Len(source) \/ source[pos + 1].kind = "illegal"
                    /\ S!FlattenSeq([n \in DOMAIN ast |-> Own(ast[n])])
                         = S!FlattenSeq([i \in 1 .. pos |-> OfToken(source[i])])
  BY DEF NothingDropped
<1>1. S!FlattenSeq([n \in DOMAIN ast |-> Own(ast[n])])
        = S!FlattenSeq([i \in 1 .. pos |-> OfToken(source[i])])
  BY AllOfTheText DEF ReadInv
<1>2. frames = <<>> /\ source \in Seq(Token) /\ pos \in 0 .. Len(source)
  BY DEF ReadInv, NInv, IInv
<1>3. Peek(0).kind \in {"illegal", "eof"}
  BY <1>2 DEF ReadInv, StopInv, Stopped, Sees
<1>4. ASSUME pos # Len(source) PROVE source[pos + 1].kind = "illegal"
  <2>1. pos + 0 < Len(source) /\ pos + 1 \in 1 .. Len(source) /\ pos + 0 + 1 = pos + 1
    BY <1>2, <1>4
  <2>2. Peek(0) = source[pos + 1] /\ source[pos + 1] \in Token
    BY <1>2, <2>1 DEF Peek
  <2>3. source[pos + 1].kind # "eof"
    BY <2>2, TokenFacts DEF Words, TypeWords, Marks, UpdateOps, RuleOf, Content
  <2> QED
    BY <1>3, <2>2, <2>3
<1> QED
  BY <1>1, <1>4

LEMMA ReadInvHolds ==
  ASSUME Sources \subseteq Seq(Token), "-" \notin Names
  PROVE  Spec => []ReadInv
<1>1. Init => ReadInv
  BY InitKeepsReading
<1>2. ReadInv /\ [Next]_vars => ReadInv'
  <2>1. ASSUME ReadInv, UNCHANGED vars PROVE ReadInv'
    <3>1. UNCHANGED <<source, pos, frames, phase, ast>>
      BY <2>1 DEF vars, descent
    <3> QED
      BY <2>1, <3>1, SameReading
  <2> QED
    BY <2>1, StepKeepsReading
<1> QED
  BY <1>1, <1>2, PTL DEF Spec

(* Whatever the program text, the tree that parse returns holds the names, *)
(* numbers and strings of the text, each once and in the order of the      *)
(* text, up to its end or up to a token that parse cannot read where a     *)
(* statement should start: what follows that one is not in the tree.       *)
THEOREM NothingDroppedHolds ==
  ASSUME Sources \subseteq Seq(Token), "-" \notin Names
  PROVE  Spec => []NothingDropped
BY WholeText, ReadInvHolds, PTL
===============================================================================

----------------------------- MODULE EmissionProofs -----------------------------
(***************************************************************************)
(* Proofs about Emission, for every tree that satisfies WellFormed and     *)
(* whatever the analyzer has marked in it.                                 *)
(*                                                                         *)
(* EmissionTypeOK needs that the blocks of C that are open are those that  *)
(* the items of `todo' close (Ladder).  EachWrittenOnce is an account:     *)
(* each item owes the statements that it and the items it will be replaced *)
(* by write (Owed), and every statement is either written, and owed by no  *)
(* item, or not written, and owed by exactly one (Settled).  Each action   *)
(* writes what its item owes or hands it on, undivided, to the items that  *)
(* it puts in its place.                                                   *)
(***************************************************************************)
EXTENDS Emission, TLAPS, NaturalsInduction, FiniteSetTheorems, SequenceTheorems,
        WellFoundedInduction

-----------------------------------------------------------------------------
(* Least and greatest elements, in place of induction *)

NatLess == OpToRel(<, Nat)

LEMMA LeastElement ==
  ASSUME NEW T \in SUBSET Nat, T # {}
  PROVE  \E x \in T : \A y \in T : x <= y
<1>1. IsWellFoundedOn(NatLess, Nat)
  BY NatLessThanWellFounded DEF NatLess
<1>2. PICK x \in T : \A y \in T : ~(<<y, x>> \in NatLess)
  BY <1>1, WFMin
<1>3. ASSUME NEW y \in T PROVE x <= y
  <2>1. x \in Nat /\ y \in Nat
    OBVIOUS
  <2>2. ~(y < x)
    BY <1>2, <2>1 DEF NatLess, OpToRel
  <2> QED
    BY <2>1, <2>2
<1> QED
  BY <1>3

LEMMA GreatestElement ==
  ASSUME NEW N \in Nat, NEW T \in SUBSET (1 .. N), T # {}
  PROVE  \E x \in T : \A y \in T : y <= x
<1> DEFINE U == {N - n : n \in T}
<1>1. U \in SUBSET Nat /\ U # {}
  <2>1. \A n \in T : N - n \in Nat
    OBVIOUS
  <2> QED
    BY <2>1
<1>2. PICK u \in U : \A y \in U : u <= y
  BY <1>1, LeastElement
<1>3. PICK x \in T : u = N - x
  OBVIOUS
<1>4. ASSUME NEW y \in T PROVE y <= x
  <2>1. N - x <= N - y
    BY <1>2, <1>3
  <2>2. x \in Nat /\ y \in Nat
    OBVIOUS
  <2> QED
    BY <2>1, <2>2
<1> QED
  BY <1>4

-----------------------------------------------------------------------------
(* A function that gathers, at each node of a table, the node and what it  *)
(* gathers at the nodes K below it, where those come later in the table.   *)

Gathers(f, N, K) == f = [m \in 1 .. N |-> {m} \cup UNION {f[k] : k \in K[m]}]

ClosedUnder(C, K) == \A m \in C : K[m] \subseteq C

(* The same as the least closed set with the node in it. *)
Reach(N, K, n) == {x \in 1 .. N : \A C \in SUBSET (1 .. N) :
                                    n \in C /\ ClosedUnder(C, K) => x \in C}

LEMMA ReachFixed ==
  ASSUME NEW N \in Nat, NEW K \in [1 .. N -> SUBSET (1 .. N)], NEW n \in 1 .. N
  PROVE  /\ n \in Reach(N, K, n) /\ ClosedUnder(Reach(N, K, n), K)
         /\ Reach(N, K, n) \subseteq 1 .. N
         /\ Reach(N, K, n) = {n} \cup UNION {Reach(N, K, k) : k \in K[n]}
<1>1. \A m \in 1 .. N : /\ m \in Reach(N, K, m) /\ ClosedUnder(Reach(N, K, m), K)
                        /\ Reach(N, K, m) \subseteq 1 .. N
  BY DEF Reach, ClosedUnder
<1> DEFINE U == {n} \cup UNION {Reach(N, K, k) : k \in K[n]}
<1>2. \A x \in Reach(N, K, n) : x \in U
  <2>1. U \in SUBSET (1 .. N) /\ n \in U
    BY <1>1
  <2>2. ClosedUnder(U, K)
    <3> SUFFICES ASSUME NEW m \in U, NEW x \in K[m] PROVE x \in U
      BY DEF ClosedUnder
    <3>1. CASE m = n
      BY <1>1, <3>1
    <3>2. ASSUME NEW k \in K[n], m \in Reach(N, K, k) PROVE x \in U
      BY <1>1, <3>2 DEF ClosedUnder
    <3> QED
      BY <3>1, <3>2
  <2> HIDE DEF U
  <2> QED
    BY <2>1, <2>2 DEF Reach
<1>3. \A k \in K[n] : \A x \in Reach(N, K, k) : x \in Reach(N, K, n)
  <2> SUFFICES ASSUME NEW k \in K[n], NEW x \in Reach(N, K, k),
                      NEW C \in SUBSET (1 .. N), n \in C, ClosedUnder(C, K)
               PROVE  x \in C
    BY DEF Reach
  <2>1. k \in C
    BY DEF ClosedUnder
  <2> QED
    BY <2>1 DEF Reach
<1> QED
  BY <1>1, <1>2, <1>3

LEMMA GatheredIsReach ==
  ASSUME NEW N \in Nat, NEW K \in [1 .. N -> SUBSET (1 .. N)],
         \A m \in 1 .. N : \A k \in K[m] : k > m
  PROVE  /\ \E f : Gathers(f, N, K)
         /\ \A f : Gathers(f, N, K) => \A n \in 1 .. N : f[n] = Reach(N, K, n)
<1>1. \E f : Gathers(f, N, K)
  <2> DEFINE g == [m \in 1 .. N |-> Reach(N, K, m)]
  <2>1. ASSUME NEW m \in 1 .. N
        PROVE  g[m] = {m} \cup UNION {g[k] : k \in K[m]}
    <3>1. \A k \in K[m] : g[k] = Reach(N, K, k)
      OBVIOUS
    <3>2. g[m] = Reach(N, K, m)
      OBVIOUS
    <3>3. Reach(N, K, m) = {m} \cup UNION {Reach(N, K, k) : k \in K[m]}
      BY ReachFixed
    <3> HIDE DEF g
    <3>4. {g[k] : k \in K[m]} = {Reach(N, K, k) : k \in K[m]}
      BY <3>1
    <3> QED
      BY <3>2, <3>3, <3>4
  <2>2. g = [m \in 1 .. N |-> g[m]]
    OBVIOUS
  <2> HIDE DEF g
  <2>3. Gathers(g, N, K)
    BY <2>1, <2>2 DEF Gathers
  <2> QED
    BY <2>3
<1>2. ASSUME NEW f, Gathers(f, N, K) PROVE \A n \in 1 .. N : f[n] = Reach(N, K, n)
  <2>1. \A n \in 1 .. N : f[n] = {n} \cup UNION {f[k] : k \in K[n]}
    BY <1>2 DEF Gathers
  <2> DEFINE Bad == {n \in 1 .. N : f[n] # Reach(N, K, n)}
  <2> SUFFICES ASSUME Bad # {} PROVE FALSE
    OBVIOUS
  <2>2. PICK n \in Bad : \A m \in Bad : m <= n
    BY GreatestElement
  <2>3. \A k \in K[n] : f[k] = Reach(N, K, k)
    <3> SUFFICES ASSUME NEW k \in K[n], k \in Bad PROVE FALSE
      OBVIOUS
    <3>1. k > n /\ k <= n /\ k \in Nat /\ n \in Nat
      BY <2>2
    <3> QED
      BY <3>1
  <2>4. {f[k] : k \in K[n]} = {Reach(N, K, k) : k \in K[n]}
    BY <2>3
  <2> QED
    BY <2>1, <2>4, ReachFixed
<1> QED
  BY <1>1, <1>2

LEMMA ReachFacts ==
  ASSUME NEW N \in Nat, NEW K \in [1 .. N -> SUBSET (1 .. N)], NEW n \in 1 .. N,
         \A m \in 1 .. N : \A k \in K[m] : k > m
  PROVE  /\ n \in Reach(N, K, n) /\ Reach(N, K, n) \subseteq 1 .. N
         /\ \A m \in Reach(N, K, n) : K[m] \subseteq Reach(N, K, n)
         /\ \A m \in Reach(N, K, n) : Reach(N, K, m) \subseteq Reach(N, K, n)
         /\ \A x \in Reach(N, K, n) : x = n \/ \E k \in K[n] : x \in Reach(N, K, k)
         /\ \A m \in Reach(N, K, n) : m >= n
         /\ \A C \in SUBSET (1 .. N) :
              n \in C /\ ClosedUnder(C, K) => Reach(N, K, n) \subseteq C
<1>1. /\ n \in Reach(N, K, n) /\ ClosedUnder(Reach(N, K, n), K)
      /\ Reach(N, K, n) \subseteq 1 .. N
      /\ Reach(N, K, n) = {n} \cup UNION {Reach(N, K, k) : k \in K[n]}
  BY ReachFixed
<1>2. \A C \in SUBSET (1 .. N) : n \in C /\ ClosedUnder(C, K) => Reach(N, K, n) \subseteq C
  BY DEF Reach
<1>3. \A m \in Reach(N, K, n) : Reach(N, K, m) \subseteq Reach(N, K, n)
  BY <1>1 DEF Reach
<1>4. \A m \in Reach(N, K, n) : m >= n
  <2> DEFINE C == {m \in 1 .. N : m >= n}
  <2>1. C \in SUBSET (1 .. N) /\ n \in C
    OBVIOUS
  <2>2. ClosedUnder(C, K)
    <3> SUFFICES ASSUME NEW m \in C, NEW k \in K[m] PROVE k \in C
      BY DEF ClosedUnder
    <3>1. k > m /\ m >= n /\ k \in 1 .. N /\ m \in Nat /\ n \in Nat
      OBVIOUS
    <3> QED
      BY <3>1
  <2> HIDE DEF C
  <2>3. Reach(N, K, n) \subseteq C
    BY <1>2, <2>1, <2>2
  <2> QED
    BY <2>3 DEF C
<1> QED
  BY <1>1, <1>2, <1>3, <1>4 DEF ClosedUnder

-----------------------------------------------------------------------------
(* The tree *)

KidsOf == [n \in Nodes |-> Elements(ast[n].kids)]

LEMMA TreeNodes ==
  ASSUME WellFormed(ast)
  PROVE  /\ Len(ast) \in Nat /\ Nodes = 1 .. Len(ast) /\ 1 \in Nodes /\ Nodes \subseteq Nat
         /\ IsFiniteSet(Nodes)
         /\ ast[1].kind = "program"
         /\ \A n \in Nodes : ast[n] \in Node
<1>1. ast \in Seq(Node) /\ ast # <<>> /\ ast[1].kind = "program"
  BY DEF WellFormed
<1>2. Len(ast) \in Nat /\ Nodes = 1 .. Len(ast) /\ \A n \in Nodes : ast[n] \in Node
  BY <1>1 DEF Nodes
<1>3. 1 \in Nodes
  BY <1>1 DEF Nodes
<1> QED
  BY <1>1, <1>2, <1>3, FS_Interval

LEMMA KidsFacts ==
  ASSUME WellFormed(ast)
  PROVE  /\ KidsOf \in [Nodes -> SUBSET Nodes]
         /\ \A m \in Nodes : \A k \in KidsOf[m] : k > m
         /\ \A m \in Nodes : ast[m].kids \in Seq(Nodes)
         /\ \A m \in Nodes : \A i \in DOMAIN ast[m].kids : ast[m].kids[i] \in KidsOf[m]
         /\ \A m \in Nodes : \A i, j \in DOMAIN ast[m].kids :
              ast[m].kids[i] = ast[m].kids[j] => i = j
<1>1. \A m \in Nodes : \A i \in DOMAIN ast[m].kids :
        ast[m].kids[i] \in Nodes /\ ast[m].kids[i] > m
  BY DEF WellFormed, Nodes
<1>2. \A m \in Nodes : ast[m].kids \in Seq(Nat)
  BY TreeNodes DEF Node
<1>3. ASSUME NEW m \in Nodes PROVE ast[m].kids \in Seq(Nodes)
  <2>1. PICK s : s = ast[m].kids
    OBVIOUS
  <2>2. s \in Seq(Nat) /\ \A i \in DOMAIN s : s[i] \in Nodes
    BY <1>1, <1>2, <2>1
  <2>3. Len(s) \in Nat /\ DOMAIN s = 1 .. Len(s) /\ s = [i \in 1 .. Len(s) |-> s[i]]
    BY <2>2
  <2>4. s \in [1 .. Len(s) -> Nodes]
    BY <2>2, <2>3
  <2> QED
    BY <2>1, <2>3, <2>4
<1>4. ASSUME NEW m \in Nodes, NEW i \in DOMAIN ast[m].kids, NEW j \in DOMAIN ast[m].kids,
             ast[m].kids[i] = ast[m].kids[j], i # j
      PROVE  FALSE
  <2>1. /\ i < j => ast[m].kids[i] < ast[m].kids[j]
        /\ j < i => ast[m].kids[j] < ast[m].kids[i]
    BY DEF WellFormed, Nodes
  <2>2. i \in Nat /\ j \in Nat /\ ast[m].kids[i] \in Nat
    BY <1>2
  <2> QED
    BY <1>4, <2>1, <2>2
<1> QED
  BY <1>1, <1>3, <1>4 DEF KidsOf, Elements

LEMMA UnderIsReach ==
  ASSUME WellFormed(ast)
  PROVE  \A n \in Nodes : Under(n) = Reach(Len(ast), KidsOf, n)
<1> DEFINE N == Len(ast)
           Is(f) == f = [m \in DOMAIN ast |-> {m} \cup UNION {f[k] : k \in Elements(ast[m].kids)}]
           Sub == CHOOSE f : Is(f)
<1>1. /\ N \in Nat /\ Nodes = 1 .. N /\ KidsOf \in [1 .. N -> SUBSET (1 .. N)]
      /\ \A m \in 1 .. N : \A k \in KidsOf[m] : k > m
  BY TreeNodes, KidsFacts
<1>2. ASSUME NEW f PROVE Is(f) <=> Gathers(f, N, KidsOf)
  <2> DEFINE a == [m \in DOMAIN ast |-> {m} \cup UNION {f[k] : k \in Elements(ast[m].kids)}]
             b == [m \in 1 .. N |-> {m} \cup UNION {f[k] : k \in KidsOf[m]}]
  <2>1. \A m \in Nodes : KidsOf[m] = Elements(ast[m].kids)
    BY DEF KidsOf
  <2>2. DOMAIN ast = 1 .. N
    BY <1>1 DEF Nodes
  <2>3. a = b
    BY <1>1, <2>1, <2>2
  <2> QED
    BY <2>3 DEF Gathers
<1>3. \E f : Is(f)
  BY <1>1, <1>2, GatheredIsReach
<1>4. Is(Sub)
  BY <1>3
<1>5. \A n \in Nodes : Under(n) = Sub[n]
  BY DEF Under
<1> HIDE DEF Sub, Is
<1>6. \A n \in 1 .. N : Sub[n] = Reach(N, KidsOf, n)
  BY <1>1, <1>2, <1>4, GatheredIsReach
<1> QED
  BY <1>1, <1>5, <1>6

LEMMA UnderFacts ==
  ASSUME WellFormed(ast), NEW n \in Nodes
  PROVE  /\ n \in Under(n) /\ Under(n) \subseteq Nodes
         /\ \A m \in Under(n) : KidsOf[m] \subseteq Under(n)
         /\ \A m \in Under(n) : Under(m) \subseteq Under(n)
         /\ \A x \in Under(n) : x = n \/ \E k \in KidsOf[n] : x \in Under(k)
         /\ \A m \in Under(n) : m >= n
         /\ \A C \in SUBSET Nodes : n \in C /\ ClosedUnder(C, KidsOf) => Under(n) \subseteq C
<1>1. /\ Len(ast) \in Nat /\ Nodes = 1 .. Len(ast)
      /\ KidsOf \in [1 .. Len(ast) -> SUBSET (1 .. Len(ast))]
      /\ \A m \in 1 .. Len(ast) : \A k \in KidsOf[m] : k > m
  BY TreeNodes, KidsFacts
<1>2. \A m \in Nodes : Under(m) = Reach(Len(ast), KidsOf, m)
  BY UnderIsReach
<1>3. PICK K : K = KidsOf
  OBVIOUS
<1>4. PICK N : N = Len(ast)
  OBVIOUS
<1>5. /\ n \in Reach(N, K, n) /\ Reach(N, K, n) \subseteq 1 .. N
      /\ \A m \in Reach(N, K, n) : K[m] \subseteq Reach(N, K, n)
      /\ \A m \in Reach(N, K, n) : Reach(N, K, m) \subseteq Reach(N, K, n)
      /\ \A x \in Reach(N, K, n) : x = n \/ \E k \in K[n] : x \in Reach(N, K, k)
      /\ \A m \in Reach(N, K, n) : m >= n
      /\ \A C \in SUBSET (1 .. N) :
           n \in C /\ ClosedUnder(C, K) => Reach(N, K, n) \subseteq C
  BY <1>1, <1>3, <1>4, ReachFacts
<1>6. \A m \in Nodes : Under(m) = Reach(N, K, m)
  BY <1>2, <1>3, <1>4
<1>7. Under(n) = Reach(N, K, n) /\ Nodes = 1 .. N
  BY <1>1, <1>4, <1>6
<1> QED
  BY <1>1, <1>3, <1>4, <1>5, <1>6, <1>7

LEMMA OneParent ==
  ASSUME WellFormed(ast), NEW p \in Nodes, NEW q \in Nodes, NEW k \in Nodes,
         k \in KidsOf[p], k \in KidsOf[q]
  PROVE  p = q /\ k # 1 /\ k > p
<1>1. k > p /\ k # 1
  BY TreeNodes, KidsFacts
<1>2. PICK r \in DOMAIN ast : Parents(ast, k) = {r}
  BY <1>1 DEF WellFormed, Nodes
<1>3. p \in Parents(ast, k) /\ q \in Parents(ast, k)
  BY DEF Parents, KidsOf, Elements, Nodes
<1> QED
  BY <1>1, <1>2, <1>3

LEMMA HasParent ==
  ASSUME WellFormed(ast), NEW k \in Nodes, k # 1
  PROVE  \E p \in Nodes : k \in KidsOf[p]
<1>1. PICK p \in DOMAIN ast : Parents(ast, k) = {p}
  BY DEF WellFormed, Nodes
<1> QED
  BY <1>1 DEF Parents, KidsOf, Elements, Nodes

LEMMA ParentUnder ==
  ASSUME WellFormed(ast), NEW n \in Nodes, NEW k \in Under(n), k # n,
         NEW p \in Nodes, k \in KidsOf[p]
  PROVE  p \in Under(n)
<1> SUFFICES ASSUME p \notin Under(n) PROVE FALSE
  OBVIOUS
<1> DEFINE C == Under(n) \ {k}
<1>1. n \in C /\ C \in SUBSET Nodes /\ k \in Nodes
  BY UnderFacts
<1>2. ClosedUnder(C, KidsOf)
  <2> SUFFICES ASSUME NEW m \in C, NEW x \in KidsOf[m] PROVE x \in C
    BY DEF ClosedUnder
  <2>1. x \in Under(n)
    BY UnderFacts
  <2>2. x # k
    BY <1>1, OneParent
  <2> QED
    BY <2>1, <2>2
<1> HIDE DEF C
<1>3. Under(n) \subseteq C
  BY <1>1, <1>2, UnderFacts
<1> QED
  BY <1>3 DEF C

(* Two nodes with a node under both: one is under the other. *)
LEMMA Nested ==
  ASSUME WellFormed(ast), NEW n \in Nodes, NEW m \in Nodes,
         NEW x \in Under(n), x \in Under(m)
  PROVE  n \in Under(m) \/ m \in Under(n)
<1> DEFINE C == Under(n) \cap Under(m)
<1>1. C \in SUBSET Nat /\ x \in C
  BY UnderFacts, TreeNodes
<1>2. PICK y \in C : \A z \in C : y <= z
  BY <1>1, LeastElement
<1>3. CASE y = n \/ y = m
  BY <1>3
<1>4. CASE y # n /\ y # m
  <2>1. y \in Nodes /\ y # 1
    <3>1. y \in Nodes /\ y >= n /\ n >= 1 /\ n \in Nat /\ y \in Nat
      BY UnderFacts, TreeNodes
    <3> QED
      BY <1>4, <3>1
  <2>2. PICK p \in Nodes : y \in KidsOf[p]
    BY <2>1, HasParent
  <2>3. p \in C
    BY <1>4, <2>1, <2>2, ParentUnder
  <2>4. y > p /\ y <= p /\ y \in Nat /\ p \in Nat
    BY <1>2, <2>1, <2>2, <2>3, KidsFacts, TreeNodes
  <2> QED
    BY <2>4
<1> QED
  BY <1>3, <1>4

LEMMA KidsApart ==
  ASSUME WellFormed(ast), NEW n \in Nodes, NEW k \in KidsOf[n], NEW l \in KidsOf[n],
         NEW x \in Under(k), x \in Under(l)
  PROVE  k = l
<1>1. k \in Nodes /\ l \in Nodes /\ k > n /\ l > n
  BY KidsFacts
<1> SUFFICES ASSUME k # l PROVE FALSE
  OBVIOUS
<1>2. k \in Under(l) \/ l \in Under(k)
  BY <1>1, Nested
<1>3. n \in Under(l) \/ n \in Under(k)
  BY <1>1, <1>2, ParentUnder
<1>4. n >= l \/ n >= k
  BY <1>1, <1>3, UnderFacts
<1> QED
  BY <1>1, <1>4, TreeNodes

LEMMA AllUnderProgram ==
  ASSUME WellFormed(ast), NEW n \in Nodes
  PROVE  n \in Under(1)
<1> DEFINE Bad == {m \in Nodes : m \notin Under(1)}
<1> SUFFICES ASSUME Bad # {} PROVE FALSE
  OBVIOUS
<1>1. Bad \in SUBSET Nat /\ 1 \in Nodes
  BY TreeNodes
<1>2. PICK m \in Bad : \A y \in Bad : m <= y
  BY <1>1, LeastElement
<1>3. m # 1
  BY <1>1, UnderFacts
<1>4. PICK p \in Nodes : m \in KidsOf[p]
  BY <1>3, HasParent
<1>5. m > p /\ m \in Nat /\ p \in Nat
  BY <1>4, KidsFacts, TreeNodes
<1>6. p \in Under(1)
  BY <1>2, <1>5
<1> QED
  BY <1>1, <1>4, <1>6, UnderFacts

-----------------------------------------------------------------------------
(* The kinds of nodes, and where statements are listed *)

ListKinds == {"program", "block", "thread", "func"}

(* Nodes whose parts are expressions. *)
Plain == {"decl", "update", "return", "print", "await"} \cup ExprKinds

LEMMA NodeShape ==
  ASSUME WellFormed(ast), NEW n \in Nodes
  PROVE  /\ ast[n].kind \in Kinds /\ ast[n].par \in ParallelTypes
         /\ ast[n].par # "regular" => ast[n].kind \in {"decl", "for", "call"}
         /\ ast[n].kind \in {"decl", "func"} => ast[n].name \in Names
         /\ ast[n].kind \in {"decl", "print"} => Len(ast[n].kids) = 1
         /\ ast[n].kind = "if" => Len(ast[n].kids) \in {2, 3}
         /\ ast[n].kind = "for" => Len(ast[n].kids) = 4
<1>1. ast[n] \in Node /\ Shape(ast, n)
  BY TreeNodes DEF WellFormed, Nodes
<1>2. /\ ast[n].kind \in Kinds /\ ast[n].par \in ParallelTypes
      /\ ast[n].par # "regular" => ast[n].kind \in {"decl", "for", "call"}
  BY <1>1 DEF Node, WellFormed, Nodes
<1>3. ast[n].kind = "decl" => ast[n].name \in Names /\ Len(ast[n].kids) = 1
  BY <1>1 DEF Shape
<1>4. ast[n].kind = "func" => ast[n].name \in Names
  BY <1>1 DEF Shape
<1>5. ast[n].kind = "print" => Len(ast[n].kids) = 1
  BY <1>1 DEF Shape
<1>6. ast[n].kind = "if" => Len(ast[n].kids) \in {2, 3}
  BY <1>1 DEF Shape
<1>7. ast[n].kind = "for" => Len(ast[n].kids) = 4
  BY <1>1 DEF Shape
<1> QED
  BY <1>2, <1>3, <1>4, <1>5, <1>6, <1>7

LEMMA KidAt ==
  ASSUME WellFormed(ast), NEW n \in Nodes, NEW k \in KidsOf[n]
  PROVE  \E i \in 1 .. Len(ast[n].kids) : k = ast[n].kids[i]
<1>1. ast[n].kids \in Seq(Nodes)
  BY KidsFacts
<1>2. DOMAIN ast[n].kids = 1 .. Len(ast[n].kids)
  BY <1>1
<1> QED
  BY <1>2 DEF KidsOf, Elements

LEMMA AtKid ==
  ASSUME WellFormed(ast), NEW n \in Nodes, NEW i \in 1 .. Len(ast[n].kids)
  PROVE  Kid(n, i) \in KidsOf[n] /\ Kid(n, i) \in Nodes /\ Kid(n, i) > n
<1>1. ast[n].kids \in Seq(Nodes)
  BY KidsFacts
<1>2. Kid(n, i) \in KidsOf[n]
  BY <1>1 DEF KidsOf, Elements, Kid
<1> QED
  BY <1>2, KidsFacts

LEMMA KidShape ==
  ASSUME WellFormed(ast), NEW n \in Nodes
  PROVE  /\ ast[n].kind \in ListKinds =>
              \A k \in KidsOf[n] : /\ ast[k].kind \in StmtKinds
                                   /\ ast[k].kind = "call" => ast[k].par # "regular"
         /\ ast[n].kind \in Plain => \A k \in KidsOf[n] : ast[k].kind \in ExprKinds
         /\ ast[n].kind = "if" =>
              /\ ast[Kid(n, 1)].kind \in ExprKinds /\ ast[Kid(n, 2)].kind = "block"
              /\ Len(ast[n].kids) = 3 => ast[Kid(n, 3)].kind \in {"block", "if"}
         /\ ast[n].kind = "for" =>
              /\ ast[Kid(n, 1)].kind = "decl" /\ ast[Kid(n, 2)].kind \in ExprKinds
              /\ ast[Kid(n, 3)].kind = "update" /\ ast[Kid(n, 4)].kind = "block"
<1>1. Shape(ast, n)
  BY DEF WellFormed, Nodes
<1>2. \A k \in KidsOf[n] : \E i \in DOMAIN ast[n].kids : i >= 1 /\ k = ast[n].kids[i]
  <2>1. ast[n].kids \in Seq(Nodes)
    BY KidsFacts
  <2> QED
    BY <2>1, KidAt
<1>3. ast[n].kind \in ListKinds =>
        \A k \in KidsOf[n] : /\ ast[k].kind \in StmtKinds
                             /\ ast[k].kind = "call" => ast[k].par # "regular"
  <2> SUFFICES ASSUME ast[n].kind \in ListKinds, NEW k \in KidsOf[n]
               PROVE  /\ ast[k].kind \in StmtKinds
                      /\ ast[k].kind = "call" => ast[k].par # "regular"
    OBVIOUS
  <2>1. \A i \in DOMAIN ast[n].kids :
          /\ i >= 1 => ast[ast[n].kids[i]].kind \in StmtKinds
          /\ ast[ast[n].kids[i]].kind = "call" => ast[ast[n].kids[i]].par # "regular"
    BY <1>1 DEF Shape, KidsOfKind, ListKinds
  <2> QED
    BY <1>2, <2>1
<1>4. ast[n].kind \in Plain => \A k \in KidsOf[n] : ast[k].kind \in ExprKinds
  <2> SUFFICES ASSUME ast[n].kind \in Plain, NEW k \in KidsOf[n]
               PROVE  ast[k].kind \in ExprKinds
    OBVIOUS
  <2>1. PICK i \in DOMAIN ast[n].kids : i >= 1 /\ k = ast[n].kids[i]
    BY <1>2
  <2>2. CASE ast[n].kind \in {"decl", "return", "print", "unary"}
    <3>1. Len(ast[n].kids) = 1 /\ ast[ast[n].kids[1]].kind \in ExprKinds
      BY <1>1, <2>2 DEF Shape
    <3>2. ast[n].kids \in Seq(Nodes)
      BY KidsFacts
    <3>3. i = 1
      BY <2>1, <3>1, <3>2
    <3> QED
      BY <2>1, <3>1, <3>3
  <2>3. CASE ast[n].kind \in {"update", "call", "binop"}
    <3>1. \A j \in DOMAIN ast[n].kids : j >= 1 => ast[ast[n].kids[j]].kind \in ExprKinds
      BY <1>1, <2>3 DEF Shape, KidsOfKind
    <3> QED
      BY <2>1, <3>1
  <2>4. CASE ast[n].kind = "await"
    <3>1. \A j \in DOMAIN ast[n].kids : j >= 1 => ast[ast[n].kids[j]].kind \in {"ident"}
      BY <1>1, <2>4 DEF Shape, KidsOfKind
    <3> QED
      BY <2>1, <3>1 DEF ExprKinds
  <2>5. CASE ast[n].kind \in {"int", "string", "ident"}
    <3>1. ast[n].kids = <<>>
      BY <1>1, <2>5 DEF Shape
    <3> QED
      BY <2>1, <3>1
  <2> QED
    BY <2>2, <2>3, <2>4, <2>5 DEF Plain, ExprKinds
<1>5. ast[n].kind = "if" =>
        /\ ast[Kid(n, 1)].kind \in ExprKinds /\ ast[Kid(n, 2)].kind = "block"
        /\ Len(ast[n].kids) = 3 => ast[Kid(n, 3)].kind \in {"block", "if"}
  <2> SUFFICES ASSUME ast[n].kind = "if" PROVE <1>5!2
    OBVIOUS
  <2>1. /\ ast[ast[n].kids[1]].kind \in ExprKinds /\ ast[ast[n].kids[2]].kind = "block"
        /\ \A i \in DOMAIN ast[n].kids : i >= 3 => ast[ast[n].kids[i]].kind \in {"block", "if"}
    BY <1>1 DEF Shape, KidsOfKind
  <2>2. Len(ast[n].kids) = 3 => 3 \in DOMAIN ast[n].kids
    BY KidsFacts
  <2> QED
    BY <2>1, <2>2 DEF Kid
<1>6. ast[n].kind = "for" =>
        /\ ast[Kid(n, 1)].kind = "decl" /\ ast[Kid(n, 2)].kind \in ExprKinds
        /\ ast[Kid(n, 3)].kind = "update" /\ ast[Kid(n, 4)].kind = "block"
  BY <1>1 DEF Shape, Kid
<1> QED
  BY <1>3, <1>4, <1>5, <1>6

LEMMA ListedFacts ==
  ASSUME WellFormed(ast), NEW x \in Listed
  PROVE  /\ x \in Nodes /\ x # 1 /\ ast[x].kind \in StmtKinds
         /\ ast[x].kind = "call" => ast[x].par # "regular"
         /\ \A p \in Nodes : x \in KidsOf[p] => ast[p].kind \in ListKinds
         /\ \E p \in Nodes : ast[p].kind \in ListKinds /\ x \in KidsOf[p]
<1>1. PICK m \in Nodes : ast[m].kind \in ListKinds /\ x \in KidsOf[m]
  BY DEF Listed, KidsOf, ListKinds
<1>2. x \in Nodes
  BY <1>1, KidsFacts
<1> QED
  BY <1>1, <1>2, OneParent, KidShape

LEMMA IsListed ==
  ASSUME NEW m \in Nodes, ast[m].kind \in ListKinds, NEW x \in KidsOf[m]
  PROVE  x \in Listed
BY DEF Listed, KidsOf, ListKinds

(* No statement is listed below a node whose parts are expressions. *)
LEMMA PlainUnder ==
  ASSUME WellFormed(ast), NEW n \in Nodes, ast[n].kind \in Plain,
         NEW x \in Under(n), x \in Listed
  PROVE  x = n
<1> SUFFICES ASSUME x # n PROVE FALSE
  OBVIOUS
<1>1. PICK p \in Nodes : ast[p].kind \in ListKinds /\ x \in KidsOf[p]
  BY ListedFacts
<1>2. p \in Under(n)
  BY <1>1, ParentUnder
<1> DEFINE C == {n} \cup {m \in Nodes : ast[m].kind \in ExprKinds}
<1>3. C \in SUBSET Nodes /\ n \in C
  OBVIOUS
<1>4. ClosedUnder(C, KidsOf)
  <2> SUFFICES ASSUME NEW m \in C, NEW k \in KidsOf[m] PROVE k \in C
    BY DEF ClosedUnder
  <2>1. m \in Nodes /\ ast[m].kind \in Plain
    BY DEF Plain
  <2>2. ast[k].kind \in ExprKinds /\ k \in Nodes
    BY <2>1, KidShape, KidsFacts
  <2> QED
    BY <2>2
<1>5. p \in C
  BY <1>2, <1>3, <1>4, UnderFacts
<1> QED
  BY <1>1, <1>5 DEF Plain, ExprKinds, ListKinds

-----------------------------------------------------------------------------
(* Which C function a statement is written in.  The statements in a node   *)
(* that is Apart are not written where that node is.                       *)

Apart(c) == ast[c].kind \in {"func", "thread"} \/ ThreadedLoop(c)

(* The nodes that are written with n; those written with what stands in n; *)
(* those written in the C function that is made of c.                      *)
Near(n)   == {m \in Under(n) : \A c \in Under(n) : Apart(c) /\ m \in Under(c) => m = c}
Within(n) == UNION {Near(k) : k \in KidsOf[n]}
Holds(c)  == IF ast[c].kind = "for" THEN Within(Kid(c, 4)) ELSE Within(c)

LEMMA NearFacts ==
  ASSUME WellFormed(ast), NEW n \in Nodes
  PROVE  /\ n \in Near(n) /\ Near(n) \subseteq Under(n)
         /\ n \notin Within(n) /\ Within(n) \subseteq Under(n)
         /\ \A k, l \in KidsOf[n] : \A x \in Near(k) : x \in Near(l) => k = l
<1>1. n \in Near(n)
  <2> SUFFICES ASSUME NEW c \in Under(n), n \in Under(c) PROVE n = c
    BY UnderFacts DEF Near
  <2>1. c \in Nodes /\ c >= n /\ n >= c
    BY UnderFacts
  <2> QED
    BY <2>1, TreeNodes
<1>2. \A m \in Nodes : Near(m) \subseteq Under(m)
  BY DEF Near
<1>3. ASSUME NEW k \in KidsOf[n]
      PROVE  n \notin Near(k) /\ Near(k) \subseteq Under(n)
  <2>1. k \in Nodes /\ k > n
    BY KidsFacts
  <2>2. n \notin Under(k)
    BY <2>1, UnderFacts, TreeNodes
  <2>3. k \in Under(n) /\ Under(k) \subseteq Under(n)
    BY UnderFacts
  <2> QED
    BY <1>2, <2>1, <2>2, <2>3
<1>4. \A k, l \in KidsOf[n] : \A x \in Near(k) : x \in Near(l) => k = l
  BY <1>2, KidsApart, KidsFacts
<1> QED
  BY <1>1, <1>2, <1>3, <1>4 DEF Within

LEMMA NearApart ==
  ASSUME WellFormed(ast), NEW n \in Nodes, Apart(n)
  PROVE  Near(n) = {n}
<1>1. \A m \in Near(n) : m = n
  BY UnderFacts DEF Near
<1> QED
  BY <1>1, NearFacts

LEMMA NearSplit ==
  ASSUME WellFormed(ast), NEW n \in Nodes, ~Apart(n)
  PROVE  Near(n) = {n} \cup Within(n)
<1>1. ASSUME NEW x \in Near(n), x # n PROVE x \in Within(n)
  <2>1. PICK k \in KidsOf[n] : x \in Under(k)
    BY <1>1, UnderFacts DEF Near
  <2>2. k \in Nodes /\ k \in Under(n) /\ Under(k) \subseteq Under(n)
    BY KidsFacts, UnderFacts
  <2>3. x \in Near(k)
    BY <1>1, <2>1, <2>2 DEF Near
  <2> QED
    BY <2>3 DEF Within
<1>2. ASSUME NEW k \in KidsOf[n], NEW x \in Near(k) PROVE x \in Near(n)
  <2>1. k \in Nodes /\ k \in Under(n) /\ Under(k) \subseteq Under(n) /\ x \in Under(k)
    BY KidsFacts, UnderFacts DEF Near
  <2> SUFFICES ASSUME NEW c \in Under(n), Apart(c), x \in Under(c) PROVE x = c
    BY <2>1 DEF Near
  <2>2. c \in Nodes
    BY UnderFacts
  <2>3. CASE c \in Under(k)
    BY <2>3 DEF Near
  <2>4. CASE c \notin Under(k)
    <3>1. k \in Under(c) /\ k # c
      BY <2>1, <2>2, <2>4, Nested, UnderFacts
    <3>2. n \in Under(c)
      BY <2>1, <2>2, <3>1, ParentUnder
    <3>3. n >= c /\ c >= n
      BY <2>2, <3>2, UnderFacts
    <3>4. n = c
      BY <2>2, <3>3, TreeNodes
    <3> QED
      BY <3>4
  <2> QED
    BY <2>3, <2>4
<1> QED
  BY <1>1, <1>2, NearFacts DEF Within

LEMMA NearPlain ==
  ASSUME WellFormed(ast), NEW n \in Nodes, ast[n].kind \in Plain, NEW x \in Listed
  PROVE  x \in Near(n) => x = n
BY PlainUnder, NearFacts

(* What stands in a node that is Apart and in no other one between.        *)
LEMMA HeldUnder ==
  ASSUME WellFormed(ast), NEW c \in Nodes, Apart(c), NEW x \in Holds(c)
  PROVE  /\ x \in Under(c) /\ x # c
         /\ \A d \in Under(c) : Apart(d) /\ x \in Under(d) => x = d \/ d = c
<1>1. ASSUME NEW n \in Under(c), NEW k \in KidsOf[n], x \in Near(k), n = c \/ ~Apart(n),
             n # c => \A d \in Nodes : n \in KidsOf[d] => d = c
      PROVE  x \in Under(c) /\ x # c
             /\ \A d \in Under(c) : Apart(d) /\ x \in Under(d) => x = d \/ d = c
  <2>1. n \in Nodes /\ k \in Nodes /\ k > n /\ n >= c
    BY UnderFacts, KidsFacts
  <2>2. k \in Under(c) /\ Under(k) \subseteq Under(c) /\ x \in Under(k)
    BY <2>1, UnderFacts, <1>1 DEF Near
  <2>3. x >= k
    BY <2>1, <2>2, UnderFacts
  <2>4. x # c
    BY <2>1, <2>2, <2>3, TreeNodes, UnderFacts
  <2>5. ASSUME NEW d \in Under(c), Apart(d), x \in Under(d), d # c PROVE x = d
    <3>1. d \in Nodes
      BY UnderFacts
    <3>2. CASE d \in Under(k)
      BY <1>1, <2>5, <3>2 DEF Near
    <3>3. CASE d \notin Under(k)
      <4>1. k \in Under(d) /\ k # d
        BY <2>1, <2>2, <2>5, <3>1, <3>3, Nested, UnderFacts
      <4>2. n \in Under(d)
        BY <2>1, <3>1, <4>1, ParentUnder
      <4>3. n # d
        BY <1>1, <2>5
      <4>4. PICK e \in KidsOf[d] : n \in Under(e)
        BY <3>1, <4>2, <4>3, UnderFacts
      <4>5. n # c
        <5>1. n = c => c >= d /\ d >= c
          BY <3>1, <4>2, UnderFacts
        <5> QED
          BY <2>5, <3>1, <5>1, TreeNodes
      <4>6. PICK p \in Nodes : n \in KidsOf[p]
        <5>1. n # 1
          BY <2>1, <4>5, TreeNodes
        <5> QED
          BY <2>1, <5>1, HasParent
      <4>7. p = c /\ p \in Under(d)
        BY <1>1, <2>1, <3>1, <4>2, <4>3, <4>5, <4>6, ParentUnder
      <4>8. c >= d /\ d >= c
        BY <3>1, <4>7, UnderFacts
      <4> QED
        BY <2>5, <3>1, <4>8, TreeNodes
    <3> QED
      BY <3>2, <3>3
  <2> QED
    BY <2>2, <2>4, <2>5
<1>2. CASE ast[c].kind = "for"
  <2>1. 4 \in 1 .. Len(ast[c].kids)
    BY <1>2, NodeShape
  <2>2. Kid(c, 4) \in KidsOf[c] /\ Kid(c, 4) \in Nodes /\ ast[Kid(c, 4)].kind = "block"
    BY <1>2, <2>1, AtKid, KidShape
  <2>3. Kid(c, 4) \in Under(c) /\ ~Apart(Kid(c, 4))
    BY <2>2, UnderFacts DEF Apart, ThreadedLoop
  <2>4. PICK k \in KidsOf[Kid(c, 4)] : x \in Near(k)
    BY <1>2 DEF Holds, Within
  <2>5. \A d \in Nodes : Kid(c, 4) \in KidsOf[d] => d = c
    BY <2>2, OneParent
  <2> QED
    BY <1>1, <2>3, <2>4, <2>5
<1>3. CASE ast[c].kind # "for"
  <2>1. PICK k \in KidsOf[c] : x \in Near(k)
    BY <1>3 DEF Holds, Within
  <2> QED
    BY <1>1, <2>1, UnderFacts
<1> QED
  BY <1>2, <1>3

LEMMA HeldOnce ==
  ASSUME WellFormed(ast), NEW c \in Nodes, NEW d \in Nodes, Apart(c), Apart(d),
         NEW x \in Holds(c), x \in Holds(d)
  PROVE  c = d
<1>1. x \in Under(c) /\ x # c /\ x \in Under(d) /\ x # d
  BY HeldUnder
<1>2. c \in Under(d) \/ d \in Under(c)
  BY <1>1, Nested
<1> QED
  BY <1>1, <1>2, HeldUnder

(* A listed statement is written in the function of the innermost node     *)
(* around it that is Apart, or with a statement of the top level.          *)
LEMMA HeldSomewhere ==
  ASSUME WellFormed(ast), NEW x \in Listed
  PROVE  \/ \E c \in Nodes : Apart(c) /\ x \in Holds(c)
         \/ /\ \E t \in KidsOf[1] : x \in Near(t)
            /\ \A c \in Nodes : Apart(c) /\ x \in Under(c) => x = c
<1> DEFINE Around == {c \in Nodes : Apart(c) /\ x \in Under(c) /\ x # c}
<1>1. x \in Nodes /\ x # 1
  BY ListedFacts
<1>2. CASE Around = {}
  <2>1. PICK t \in KidsOf[1] : x \in Under(t)
    BY <1>1, AllUnderProgram, UnderFacts, TreeNodes
  <2>2. Under(t) \subseteq Nodes
    BY <2>1, UnderFacts, KidsFacts, TreeNodes
  <2>3. x \in Near(t)
    BY <1>2, <2>1, <2>2 DEF Near
  <2> QED
    BY <1>2, <2>3
<1>3. CASE Around # {}
  <2>1. Around \in SUBSET (1 .. Len(ast)) /\ Len(ast) \in Nat
    BY TreeNodes
  <2>2. PICK c \in Around : \A d \in Around : d <= c
    BY <1>3, <2>1, GreatestElement
  <2>3. PICK k \in KidsOf[c] : x \in Under(k)
    BY UnderFacts
  <2>4. k \in Nodes /\ k > c /\ Under(k) \subseteq Nodes
    BY KidsFacts, UnderFacts
  <2>5. x \in Near(k)
    <3> SUFFICES ASSUME NEW d \in Under(k), Apart(d), x \in Under(d), x # d PROVE FALSE
      BY <2>3 DEF Near
    <3>1. d \in Around /\ d >= k
      BY <2>4, UnderFacts
    <3>2. d <= c
      BY <2>2, <3>1
    <3> QED
      BY <2>4, <3>1, <3>2, TreeNodes
  <2>6. x \in Holds(c)
    <3>1. CASE ast[c].kind = "for"
      <4>1. Len(ast[c].kids) = 4
        BY <3>1, NodeShape
      <4>2. PICK i \in 1 .. 4 : k = Kid(c, i)
        BY <4>1, KidAt DEF Kid
      <4>3. ~(ast[k].kind \in Plain)
        <5> SUFFICES ASSUME ast[k].kind \in Plain PROVE FALSE
          OBVIOUS
        <5>1. x = k
          BY <2>3, <2>4, PlainUnder
        <5> QED
          BY <3>1, <5>1, ListedFacts DEF ListKinds
      <4>4. i = 4
        <5>1. ast[Kid(c, 1)].kind \in Plain /\ ast[Kid(c, 2)].kind \in Plain
              /\ ast[Kid(c, 3)].kind \in Plain
          BY <3>1, KidShape DEF Plain
        <5> QED
          BY <4>2, <4>3, <5>1
      <4>5. ast[k].kind = "block"
        BY <3>1, <4>2, <4>4, KidShape
      <4>6. x # k
        BY <4>5, ListedFacts DEF StmtKinds
      <4>7. ~Apart(k)
        BY <4>5 DEF Apart, ThreadedLoop
      <4>8. x \in Within(k)
        BY <2>4, <2>5, <4>6, <4>7, NearSplit
      <4> QED
        BY <3>1, <4>2, <4>4, <4>8 DEF Holds
    <3>2. CASE ast[c].kind # "for"
      BY <2>5, <3>2 DEF Holds, Within
    <3> QED
      BY <3>1, <3>2
  <2> QED
    BY <2>6
<1> QED
  BY <1>2, <1>3

-----------------------------------------------------------------------------
(* The nodes that a walk meets *)

BelowOf(pass) == [n \in Nodes |-> Elements(Below(pass, n))]

LEMMA BelowFacts ==
  ASSUME WellFormed(ast), NEW pass, NEW n \in Nodes
  PROVE  /\ BelowOf(pass)[n] \subseteq KidsOf[n]
         /\ ast[n].kind \in {"program", "block"} => BelowOf(pass)[n] = KidsOf[n]
         /\ ast[n].kind = "func" /\ pass # "locks" => BelowOf(pass)[n] = KidsOf[n]
         /\ ast[n].kind = "if" /\ pass # "locks" =>
              \A i \in 2 .. Len(ast[n].kids) : Kid(n, i) \in BelowOf(pass)[n]
         /\ ast[n].kind = "for" /\ pass # "locks" => Kid(n, 4) \in BelowOf(pass)[n]
<1>1. PICK b : b = Below(pass, n)
  OBVIOUS
<1>2. PICK s : s = ast[n].kids
  OBVIOUS
<1>3. BelowOf(pass)[n] = {b[i] : i \in DOMAIN b}
  BY <1>1 DEF BelowOf, Elements
<1>4. s \in Seq(Nodes) /\ KidsOf[n] = {s[i] : i \in DOMAIN s}
  BY <1>2, KidsFacts DEF KidsOf, Elements
<1>5. CASE ast[n].kind \in {"program", "block"} \/ (ast[n].kind = "func" /\ pass # "locks")
  <2>1. b = s
    BY <1>1, <1>2, <1>5 DEF Below
  <2> QED
    BY <1>3, <1>4, <1>5, <2>1
<1>6. CASE ast[n].kind = "if" /\ pass # "locks"
  <2>1. b = Tail(s)
    BY <1>1, <1>2, <1>6 DEF Below
  <2>2. Len(s) \in {2, 3}
    BY <1>2, <1>6, NodeShape
  <2>3. /\ DOMAIN s = 1 .. Len(s) /\ DOMAIN b = 1 .. Len(s) - 1
        /\ \A i \in 1 .. Len(s) - 1 : b[i] = s[i + 1]
    BY <1>4, <2>1, <2>2
  <2>4. \A i \in DOMAIN b : i + 1 \in DOMAIN s /\ b[i] = s[i + 1]
    BY <2>2, <2>3
  <2>5. \A i \in 2 .. Len(s) : i - 1 \in DOMAIN b /\ b[i - 1] = s[i]
    BY <2>2, <2>3
  <2>6. \A i \in 2 .. Len(ast[n].kids) : Kid(n, i) \in BelowOf(pass)[n]
    BY <1>2, <1>3, <2>5 DEF Kid
  <2> QED
    BY <1>3, <1>4, <1>6, <2>4, <2>6
<1>7. CASE ast[n].kind = "for" /\ pass # "locks"
  <2>1. b = <<s[1], s[4]>> \/ b = <<s[4]>>
    BY <1>1, <1>2, <1>7 DEF Below
  <2>2. Len(s) = 4
    BY <1>2, <1>7, NodeShape
  <2>3. 1 \in DOMAIN s /\ 4 \in DOMAIN s
    BY <1>4, <2>2
  <2>4. {b[i] : i \in DOMAIN b} \subseteq {s[1], s[4]} /\ s[4] \in {b[i] : i \in DOMAIN b}
    BY <2>1
  <2> QED
    BY <1>2, <1>3, <1>4, <1>7, <2>3, <2>4 DEF Kid
<1>8. CASE ast[n].kind = "thread" \/ pass = "locks"
  <2>1. CASE ast[n].kind \in {"program", "block"}
    BY <1>5, <2>1
  <2>2. CASE ast[n].kind \notin {"program", "block"}
    <3>1. b = s \/ b = <<>>
      BY <1>1, <1>2, <1>8, <2>2 DEF Below
    <3> QED
      BY <1>3, <1>4, <1>8, <2>2, <3>1
  <2> QED
    BY <2>1, <2>2
<1>9. CASE ast[n].kind \notin {"program", "block", "func", "if", "for", "thread"}
  <2>1. b = <<>>
    BY <1>1, <1>9 DEF Below
  <2> QED
    BY <1>3, <1>9, <2>1
<1> QED
  BY <1>5, <1>6, <1>7, <1>8, <1>9

LEMMA MetFacts ==
  ASSUME WellFormed(ast), NEW pass
  PROVE  /\ 1 \in Met(pass) /\ Met(pass) \subseteq Nodes
         /\ \A m \in Met(pass) : BelowOf(pass)[m] \subseteq Met(pass)
<1> DEFINE N == Len(ast)
           K == BelowOf(pass)
           Is(f) == f = [m \in DOMAIN ast |-> {m} \cup UNION {f[k] : k \in Elements(Below(pass, m))}]
           From == CHOOSE f : Is(f)
<1>1. /\ N \in Nat /\ Nodes = 1 .. N /\ K \in [1 .. N -> SUBSET (1 .. N)] /\ 1 \in 1 .. N
      /\ \A m \in 1 .. N : \A k \in K[m] : k > m
  <2>1. N \in Nat /\ Nodes = 1 .. N /\ 1 \in Nodes
    BY TreeNodes
  <2>2. \A m \in Nodes : K[m] \subseteq Nodes /\ \A k \in K[m] : k > m
    BY BelowFacts, KidsFacts
  <2>3. K = [m \in Nodes |-> K[m]]
    BY DEF BelowOf
  <2> HIDE DEF K
  <2>4. K \in [Nodes -> SUBSET Nodes]
    BY <2>2, <2>3
  <2> QED
    BY <2>1, <2>2, <2>4
<1>2. ASSUME NEW f PROVE Is(f) <=> Gathers(f, N, K)
  <2> DEFINE a == [m \in DOMAIN ast |-> {m} \cup UNION {f[k] : k \in Elements(Below(pass, m))}]
             b == [m \in 1 .. N |-> {m} \cup UNION {f[k] : k \in K[m]}]
  <2>1. \A m \in Nodes : K[m] = Elements(Below(pass, m))
    BY DEF BelowOf
  <2>2. DOMAIN ast = 1 .. N
    BY <1>1 DEF Nodes
  <2> HIDE DEF K
  <2>3. a = b
    BY <1>1, <2>1, <2>2
  <2> QED
    BY <2>3 DEF Gathers
<1>3. Met(pass) = From[1]
  BY DEF Met
<1> HIDE DEF Is, K
<1>4. \E f : Is(f)
  BY <1>1, <1>2, GatheredIsReach
<1>5. Is(From)
  BY <1>4
<1> HIDE DEF From
<1>6. From[1] = Reach(N, K, 1)
  BY <1>1, <1>2, <1>5, GatheredIsReach
<1>7. /\ 1 \in Reach(N, K, 1) /\ Reach(N, K, 1) \subseteq 1 .. N
      /\ \A m \in Reach(N, K, 1) : K[m] \subseteq Reach(N, K, 1)
  BY <1>1, ReachFacts
<1> QED
  BY <1>1, <1>3, <1>6, <1>7 DEF K

(* A node of these kinds stands in a list of statements. *)
LEMMA StandsInList ==
  ASSUME WellFormed(ast), NEW x \in Nodes, ast[x].kind \in {"func", "thread", "for"}
  PROVE  x \in Listed
<1>1. x # 1
  BY TreeNodes
<1>2. PICK p \in Nodes : x \in KidsOf[p]
  BY <1>1, HasParent
<1>3. ast[p].kind \notin Plain
  BY <1>2, KidShape DEF ExprKinds
<1>4. PICK i \in 1 .. Len(ast[p].kids) : x = Kid(p, i)
  BY <1>2, KidAt DEF Kid
<1>5. ast[p].kind # "if"
  <2> SUFFICES ASSUME ast[p].kind = "if" PROVE FALSE
    OBVIOUS
  <2>1. Len(ast[p].kids) \in {2, 3}
    BY NodeShape
  <2>2. /\ ast[Kid(p, 1)].kind \in ExprKinds /\ ast[Kid(p, 2)].kind = "block"
        /\ Len(ast[p].kids) = 3 => ast[Kid(p, 3)].kind \in {"block", "if"}
    BY KidShape
  <2>3. i = 1 \/ i = 2 \/ (i = 3 /\ Len(ast[p].kids) = 3)
    <3>1. PICK l : l = Len(ast[p].kids)
      OBVIOUS
    <3>2. l \in {2, 3} /\ i \in 1 .. l
      BY <2>1, <3>1
    <3>3. CASE l = 2
      BY <3>2, <3>3
    <3>4. CASE l = 3
      BY <3>1, <3>2, <3>4
    <3> QED
      BY <3>2, <3>3, <3>4
  <2> QED
    BY <1>4, <2>2, <2>3 DEF ExprKinds
<1>6. ast[p].kind # "for"
  <2> SUFFICES ASSUME ast[p].kind = "for" PROVE FALSE
    OBVIOUS
  <2>1. Len(ast[p].kids) = 4
    BY NodeShape
  <2>2. /\ ast[Kid(p, 1)].kind = "decl" /\ ast[Kid(p, 2)].kind \in ExprKinds
        /\ ast[Kid(p, 3)].kind = "update" /\ ast[Kid(p, 4)].kind = "block"
    BY KidShape
  <2>3. i = 1 \/ i = 2 \/ i = 3 \/ i = 4
    BY <2>1
  <2> QED
    BY <1>4, <2>2, <2>3 DEF ExprKinds
<1>7. ast[p].kind \in ListKinds
  BY <1>3, <1>5, <1>6, NodeShape DEF Plain, ListKinds, Kinds, StmtKinds, ExprKinds
<1> QED
  BY <1>2, <1>7, IsListed

(* The walks for workers and wrappers meet every statement that does not   *)
(* stand in a thread block.                                                *)
LEMMA MetListed ==
  ASSUME WellFormed(ast), NEW pass \in {"workers", "wrappers"}, NEW x \in Listed,
         \A c \in Nodes : ast[c].kind = "thread" /\ x \in Under(c) => x = c
  PROVE  x \in Met(pass)
<1> SUFFICES ASSUME x \notin Met(pass) PROVE FALSE
  OBVIOUS
<1> DEFINE Missed == {m \in Nodes : x \in Under(m) /\ m \notin Met(pass)}
<1>1. x \in Missed /\ Missed \subseteq Nat
  BY ListedFacts, UnderFacts, TreeNodes
<1>2. PICK m \in Missed : \A y \in Missed : m <= y
  BY <1>1, LeastElement
<1>3. m \in Nodes /\ m # 1
  BY MetFacts
<1>4. PICK p \in Nodes : m \in KidsOf[p]
  BY <1>3, HasParent
<1>5. p < m /\ p \in Nat /\ m \in Nat
  BY <1>3, <1>4, KidsFacts, TreeNodes
<1>6. x \in Under(p) /\ x # p
  <2>1. m \in Under(p)
    BY <1>4, UnderFacts
  <2>2. x >= m /\ x \in Nat
    BY <1>1, <1>3, UnderFacts
  <2> QED
    BY <1>5, <2>1, <2>2, UnderFacts
<1>7. p \in Met(pass)
  BY <1>2, <1>5, <1>6
<1>8. m \notin BelowOf(pass)[p]
  BY <1>7, MetFacts
<1>9. PICK i \in 1 .. Len(ast[p].kids) : m = Kid(p, i)
  BY <1>4, KidAt DEF Kid
<1>10. ast[p].kind \notin {"program", "block", "func", "thread"}
  BY <1>4, <1>6, <1>8, BelowFacts
<1>11. ast[p].kind \notin Plain
  BY <1>6, PlainUnder
<1>12. ~(ast[m].kind \in Plain /\ m \notin Listed)
  BY <1>3, PlainUnder
<1>13. ast[p].kind # "if"
  <2> SUFFICES ASSUME ast[p].kind = "if" PROVE FALSE
    OBVIOUS
  <2>1. i \notin 2 .. Len(ast[p].kids)
    BY <1>8, <1>9, BelowFacts
  <2>2. i = 1
    BY <2>1, NodeShape
  <2>3. ast[m].kind \in Plain
    BY <1>9, <2>2, KidShape DEF Plain
  <2>4. m \notin Listed
    BY <1>4, ListedFacts DEF ListKinds
  <2> QED
    BY <1>12, <2>3, <2>4
<1>14. ast[p].kind # "for"
  <2> SUFFICES ASSUME ast[p].kind = "for" PROVE FALSE
    OBVIOUS
  <2>1. i # 4
    BY <1>8, <1>9, BelowFacts
  <2>2. i \in {1, 2, 3}
    <3>1. Len(ast[p].kids) = 4
      BY NodeShape
    <3> QED
      BY <2>1, <3>1
  <2>3. ast[m].kind \in Plain
    BY <1>9, <2>2, KidShape DEF Plain
  <2>4. m \notin Listed
    BY <1>4, ListedFacts DEF ListKinds
  <2> QED
    BY <1>12, <2>3, <2>4
<1> QED
  BY <1>10, <1>11, <1>13, <1>14, NodeShape DEF Plain, Kinds, StmtKinds, ExprKinds

-----------------------------------------------------------------------------
(* A set in the order of the text *)

LEMMA PlaceFacts ==
  ASSUME NEW S \in SUBSET Nat, IsFiniteSet(S)
  PROVE  /\ Cardinality(S) \in Nat
         /\ \A n \in S : Place(S, n) \in 1 .. Cardinality(S)
         /\ \A n, m \in S : Place(S, n) = Place(S, m) => n = m
<1> DEFINE To(n) == {m \in S : m <= n}
<1>1. Cardinality(S) \in Nat
  BY FS_CardinalityType
<1>2. ASSUME NEW n \in S
      PROVE  /\ IsFiniteSet(To(n)) /\ Cardinality(To(n)) \in Nat
             /\ Cardinality(To(n)) <= Cardinality(S) /\ Cardinality(To(n)) # 0
  <2>1. To(n) \in SUBSET S
    OBVIOUS
  <2>2. n \in To(n)
    OBVIOUS
  <2> HIDE DEF To
  <2>3. IsFiniteSet(To(n)) /\ Cardinality(To(n)) <= Cardinality(S)
    BY <2>1, FS_Subset
  <2>4. Cardinality(To(n)) \in Nat
    BY <2>3, FS_CardinalityType
  <2>5. Cardinality(To(n)) # 0
    BY <2>2, <2>3, FS_EmptySet
  <2> QED
    BY <2>3, <2>4, <2>5
<1>3. ASSUME NEW n \in S, NEW m \in S, n < m
      PROVE  Cardinality(To(n)) # Cardinality(To(m))
  <2>1. n \in Nat /\ m \in Nat
    OBVIOUS
  <2>2. To(n) \in SUBSET To(m)
    <3>1. \A x \in S : x \in Nat /\ (x <= n => x <= m)
      BY <1>3, <2>1
    <3> QED
      BY <3>1
  <2>3. m \in To(m) /\ m \notin To(n)
    BY <1>3, <2>1
  <2>4. IsFiniteSet(To(m))
    BY <1>2
  <2> HIDE DEF To
  <2>5. Cardinality(To(m)) = Cardinality(To(n)) => To(m) = To(n)
    BY <2>2, <2>4, FS_Subset
  <2> QED
    BY <2>3, <2>5
<1>4. \A n \in S : Place(S, n) = Cardinality(To(n))
  BY DEF Place
<1> HIDE DEF To
<1>5. \A n \in S : Place(S, n) \in 1 .. Cardinality(S)
  BY <1>1, <1>2, <1>4
<1>6. ASSUME NEW n \in S, NEW m \in S, Place(S, n) = Place(S, m) PROVE n = m
  <2>1. n \in Nat /\ m \in Nat /\ ~(n < m) /\ ~(m < n)
    BY <1>3, <1>4, <1>6
  <2> QED
    BY <2>1
<1> QED
  BY <1>1, <1>5, <1>6

LEMMA InOrderFacts ==
  ASSUME NEW S \in SUBSET Nat, IsFiniteSet(S)
  PROVE  /\ InOrder(S) \in Seq(S) /\ Elements(InOrder(S)) = S
         /\ Len(InOrder(S)) = Cardinality(S)
         /\ \A i, j \in DOMAIN InOrder(S) : InOrder(S)[i] = InOrder(S)[j] => i = j
<1> DEFINE g == [n \in S |-> Place(S, n)]
           C == Cardinality(S)
<1>1. /\ C \in Nat /\ g \in [S -> 1 .. C]
      /\ \A n, m \in S : g[n] = g[m] => n = m
      /\ \A n \in S : Place(S, n) = g[n]
  BY PlaceFacts
<1> HIDE DEF g
<1>2. g \in Injection(S, 1 .. C)
  BY <1>1 DEF Injection, IsInjective
<1>3. IsFiniteSet(1 .. C) /\ Cardinality(1 .. C) = C
  <2>1. /\ IsFiniteSet(1 .. C)
        /\ Cardinality(1 .. C) = IF 1 > C THEN 0 ELSE C - 1 + 1
    BY <1>1, FS_Interval
  <2> HIDE DEF C
  <2> QED
    BY <1>1, <2>1
<1>4. g \in Surjection(S, 1 .. C)
  BY <1>2, <1>3, FS_Injection
<1>5. \A i \in 1 .. C : \E n \in S : Place(S, n) = i
  BY <1>1, <1>4 DEF Surjection
<1> DEFINE s == InOrder(S)
<1>6. s = [i \in 1 .. C |-> CHOOSE n \in S : Place(S, n) = i]
  BY DEF InOrder
<1>7. \A i \in 1 .. C : s[i] \in S /\ Place(S, s[i]) = i
  BY <1>5, <1>6
<1>8. DOMAIN s = 1 .. C /\ s = [i \in 1 .. C |-> s[i]]
  BY <1>6
<1> HIDE DEF s, C
<1>9. s \in Seq(S) /\ Len(s) = C
  <2>1. s \in [1 .. C -> S]
    BY <1>7, <1>8
  <2> QED
    BY <1>1, <1>8, <2>1
<1>10. \A i, j \in 1 .. C : s[i] = s[j] => i = j
  BY <1>7
<1>11. ASSUME NEW n \in S PROVE \E i \in 1 .. C : s[i] = n
  <2>1. g[n] \in 1 .. C
    BY <1>1
  <2>2. Place(S, s[g[n]]) = g[n] /\ s[g[n]] \in S
    BY <1>7, <2>1
  <2>3. s[g[n]] = n
    BY <1>1, <2>2
  <2> QED
    BY <2>1, <2>3
<1>12. Elements(s) = S
  BY <1>7, <1>8, <1>11 DEF Elements
<1> QED
  BY <1>8, <1>9, <1>10, <1>12 DEF s, C

-----------------------------------------------------------------------------
(* The text: n blocks are open in it. *)

Blocks(t, n) == \E S, errors : \E env \in Seq(S) :
                  t = [env |-> env, errors |-> errors] /\ Len(env) = n

LEMMA BlocksLen ==
  ASSUME NEW t, NEW n \in Nat, Blocks(t, n)
  PROVE  Len(t.env) = n /\ (n # 0 => t.env # <<>>)
BY DEF Blocks

LEMMA ReferBlocks ==
  ASSUME NEW t, NEW n \in Nat, Blocks(t, n), NEW uses, NEW es, NEW why
  PROVE  /\ Blocks(Refer(t, uses), n) /\ Blocks(Reject(t, why), n)
         /\ Blocks(Checked(t, es), n)
<1>0. PICK S, errors : \E env \in Seq(S) :
        t = [env |-> env, errors |-> errors] /\ Len(env) = n
  BY DEF Blocks
<1>1. PICK env \in Seq(S) :
        t = [env |-> env, errors |-> errors] /\ Len(env) = n
  BY <1>0
<1>2. \A f : Blocks([env |-> env, errors |-> f], n)
  BY <1>1 DEF Blocks
<1>3. \A f : [t EXCEPT !.errors = f] = [env |-> env, errors |-> f]
  BY <1>1
<1>4. Blocks(Refer(t, uses), n)
  BY <1>2, <1>3 DEF Refer
<1>5. Blocks(Reject(t, why), n)
  BY <1>2, <1>3 DEF Reject
<1>6. Blocks(Reject(t, "garbled"), n)
  BY <1>2, <1>3 DEF Reject
<1>7. Blocks(Checked(t, es), n)
  BY <1>6 DEF Checked
<1> QED
  BY <1>4, <1>5, <1>7

LEMMA DefineBlocks ==
  ASSUME NEW t, NEW n \in Nat \ {0}, Blocks(t, n), NEW entries
  PROVE  Blocks(Define(t, entries), n) /\ Blocks(Announce(t, entries), n)
<1>0. PICK S, errors : \E env \in Seq(S) :
        t = [env |-> env, errors |-> errors] /\ Len(env) = n
  BY DEF Blocks
<1>1. PICK env \in Seq(S) :
        t = [env |-> env, errors |-> errors] /\ Len(env) = n
  BY <1>0
<1> DEFINE last == env[n] \cup entries
           more == [env EXCEPT ![n] = last]
<1>2. more \in Seq(S \cup {last}) /\ Len(more) = n
  <2>1. env \in Seq(S \cup {last}) /\ n \in 1 .. Len(env) /\ last \in S \cup {last}
    BY <1>1, SeqMonotonic
  <2> HIDE DEF last
  <2> QED
    BY <1>1, <2>1, ExceptSeq
<1>3. t.env = env /\ Len(t.env) = n
  BY <1>1
<1>4. [t.env EXCEPT ![n] = @ \cup entries] = more
  BY <1>3
<1>5. Announce(t, entries) = [env |-> more, errors |-> errors]
  <2>1. \A e : [t EXCEPT !.env = e] = [env |-> e, errors |-> errors]
    BY <1>1
  <2>2. Announce(t, entries) = [t EXCEPT !.env = [t.env EXCEPT ![n] = @ \cup entries]]
    BY <1>3 DEF Announce
  <2> HIDE DEF last, more
  <2> QED
    BY <1>4, <2>1, <2>2
<1>6. \E f : Define(t, entries) = [env |-> more, errors |-> f]
  BY <1>3, <1>4 DEF Define
<1> HIDE DEF last, more
<1> QED
  BY <1>2, <1>5, <1>6 DEF Blocks

LEMMA OpenBlocks ==
  ASSUME NEW t, NEW n \in Nat, Blocks(t, n), NEW entries
  PROVE  Blocks(Open(t, entries), n + 1)
<1>0. PICK S, errors : \E env \in Seq(S) :
        t = [env |-> env, errors |-> errors] /\ Len(env) = n
  BY DEF Blocks
<1>1. PICK env \in Seq(S) :
        t = [env |-> env, errors |-> errors] /\ Len(env) = n
  BY <1>0
<1>2. Append(env, entries) \in Seq(S \cup {entries}) /\ Len(Append(env, entries)) = n + 1
  <2>1. env \in Seq(S \cup {entries})
    BY SeqMonotonic
  <2> QED
    BY <1>1, <2>1, AppendProperties
<1>3. Open(t, entries) = [env |-> Append(env, entries), errors |-> errors]
  <2>1. \A e : [t EXCEPT !.env = e] = [env |-> e, errors |-> errors]
    BY <1>1
  <2>2. Open(t, entries) = [t EXCEPT !.env = Append(env, entries)]
    BY <1>1 DEF Open
  <2> QED
    BY <2>1, <2>2
<1> QED
  BY <1>2, <1>3 DEF Blocks

LEMMA ShutBlocks ==
  ASSUME NEW t, NEW n \in Nat, Blocks(t, n + 1)
  PROVE  Blocks(Shut(t), n)
<1>0. PICK S, errors : \E env \in Seq(S) :
        t = [env |-> env, errors |-> errors] /\ Len(env) = n + 1
  BY DEF Blocks
<1>1. PICK env \in Seq(S) :
        t = [env |-> env, errors |-> errors] /\ Len(env) = n + 1
  BY <1>0
<1>2. \A i \in 1 .. n : env[i] \in S
  BY <1>1, ElementOfSeq
<1>3. SubSeq(env, 1, n) \in Seq(S) /\ Len(SubSeq(env, 1, n)) = n
  BY <1>2, SubSeqProperties
<1>4. Shut(t) = [env |-> SubSeq(env, 1, n), errors |-> errors]
  <2>1. t.env = env /\ Len(env) - 1 = n
    BY <1>1
  <2>2. \A e : [t EXCEPT !.env = e] = [env |-> e, errors |-> errors]
    BY <1>1
  <2>3. Shut(t) = [t EXCEPT !.env = SubSeq(env, 1, n)]
    BY <2>1 DEF Shut
  <2> QED
    BY <2>2, <2>3
<1> QED
  BY <1>3, <1>4 DEF Blocks

-----------------------------------------------------------------------------
(* Blocks and the items that close them: when a blocks are open before the *)
(* items s, b are open after them, and at least one at any time.           *)

Closes(w) == IF w.op = "close" THEN 1
             ELSE IF w.op = "endWorker" THEN 2
             ELSE IF w.op = "head" THEN -1 ELSE 0

Ladder(s, a, b) ==
  \E open \in [1 .. Len(s) + 1 -> Nat \ {0}] :
    /\ open[1] = a /\ open[Len(s) + 1] = b
    /\ \A i \in 1 .. Len(s) : open[i] = open[i + 1] + Closes(s[i])

LEMMA LadderFlat ==
  ASSUME NEW S, NEW s \in Seq(S), NEW a \in Nat \ {0},
         \A i \in 1 .. Len(s) : Closes(s[i]) = 0
  PROVE  Ladder(s, a, a)
<1> DEFINE g == [i \in 1 .. Len(s) + 1 |-> a]
<1>1. Len(s) \in Nat
  OBVIOUS
<1>2. g \in [1 .. Len(s) + 1 -> Nat \ {0}]
  OBVIOUS
<1>3. \A i \in 1 .. Len(s) : i \in 1 .. Len(s) + 1 /\ i + 1 \in 1 .. Len(s) + 1
  BY <1>1
<1>4. 1 \in 1 .. Len(s) + 1 /\ Len(s) + 1 \in 1 .. Len(s) + 1
  BY <1>1
<1>5. g[1] = a /\ g[Len(s) + 1] = a
  BY <1>4
<1>6. \A i \in 1 .. Len(s) : g[i] = g[i + 1] + Closes(s[i])
  BY <1>3
<1> HIDE DEF g
<1> QED
  BY <1>2, <1>5, <1>6 DEF Ladder

LEMMA LadderOne ==
  ASSUME NEW w, NEW a \in Nat \ {0}, NEW b \in Nat \ {0}, a = b + Closes(w)
  PROVE  Ladder(<<w>>, a, b)
<1> DEFINE g == [i \in 1 .. 2 |-> IF i = 1 THEN a ELSE b]
<1>1. g \in [1 .. 2 -> Nat \ {0}] /\ g[1] = a /\ g[2] = b
  OBVIOUS
<1> HIDE DEF g
<1>2. Len(<<w>>) = 1 /\ <<w>>[1] = w
  OBVIOUS
<1>3. \A i \in 1 .. 1 : g[i] = g[i + 1] + Closes(<<w>>[i])
  BY <1>1, <1>2
<1> QED
  BY <1>1, <1>2, <1>3 DEF Ladder

LEMMA LadderJoin ==
  ASSUME NEW S, NEW s \in Seq(S), NEW t \in Seq(S), NEW a, NEW b, NEW c,
         Ladder(s, a, b), Ladder(t, b, c)
  PROVE  Ladder(s \o t, a, c)
<1>1. PICK g \in [1 .. Len(s) + 1 -> Nat \ {0}] :
        /\ g[1] = a /\ g[Len(s) + 1] = b
        /\ \A i \in 1 .. Len(s) : g[i] = g[i + 1] + Closes(s[i])
  BY DEF Ladder
<1>2. PICK h \in [1 .. Len(t) + 1 -> Nat \ {0}] :
        /\ h[1] = b /\ h[Len(t) + 1] = c
        /\ \A i \in 1 .. Len(t) : h[i] = h[i + 1] + Closes(t[i])
  BY DEF Ladder
<1>3. PICK m, n : m = Len(s) /\ n = Len(t)
  OBVIOUS
<1>4. m \in Nat /\ n \in Nat
  BY <1>3
<1>5. PICK u : u = s \o t
  OBVIOUS
<1>6. /\ Len(u) = m + n
      /\ \A i \in 1 .. m + n : u[i] = IF i <= m THEN s[i] ELSE t[i - m]
  BY <1>3, <1>5, ConcatProperties
<1> DEFINE k == [i \in 1 .. (m + n) + 1 |-> IF i <= m THEN g[i] ELSE h[i - m]]
<1>7. ASSUME NEW i \in 1 .. (m + n) + 1
      PROVE  /\ i <= m + 1 => i \in 1 .. m + 1 /\ k[i] = g[i]
             /\ i > m => i - m \in 1 .. n + 1 /\ k[i] = h[i - m]
  <2>1. i <= m + 1 => i \in 1 .. m + 1
    BY <1>4
  <2>2. i > m => i - m \in 1 .. n + 1
    BY <1>4
  <2>3. CASE i <= m
    BY <1>4, <2>1, <2>3
  <2>4. CASE i > m
    <3>1. k[i] = h[i - m]
      BY <1>4, <2>4
    <3>2. i <= m + 1 => k[i] = g[i]
      <4> SUFFICES ASSUME i <= m + 1 PROVE k[i] = g[i]
        OBVIOUS
      <4>1. i = m + 1 /\ i - m = 1
        BY <1>4, <2>4
      <4> QED
        BY <1>1, <1>2, <1>3, <3>1, <4>1
    <3> QED
      BY <2>1, <2>2, <3>1, <3>2
  <2> QED
    BY <1>4, <2>3, <2>4
<1>8. k \in [1 .. (m + n) + 1 -> Nat \ {0}]
  <2>1. \A i \in 1 .. (m + n) + 1 : i <= m \/ i > m
    BY <1>4
  <2>2. ASSUME NEW i \in 1 .. (m + n) + 1 PROVE k[i] \in Nat \ {0}
    <3>1. CASE i <= m
      <4>1. i <= m + 1
        BY <1>4, <3>1
      <4>2. i \in 1 .. Len(s) + 1 /\ k[i] = g[i]
        BY <1>3, <1>7, <4>1
      <4> QED
        BY <4>2
    <3>2. CASE i > m
      <4>1. i - m \in 1 .. Len(t) + 1 /\ k[i] = h[i - m]
        BY <1>3, <1>7, <3>2
      <4> QED
        BY <4>1
    <3> QED
      BY <2>1, <3>1, <3>2
  <2>3. k = [i \in 1 .. (m + n) + 1 |-> k[i]]
    OBVIOUS
  <2> HIDE DEF k
  <2>4. \A i \in 1 .. (m + n) + 1 : k[i] \in Nat \ {0}
    BY <2>2
  <2> QED
    BY <2>3, <2>4
<1> HIDE DEF k
<1>9. k[1] = a /\ k[(m + n) + 1] = c
  <2>1. 1 \in 1 .. (m + n) + 1 /\ 1 <= m + 1
    BY <1>4
  <2>2. (m + n) + 1 \in 1 .. (m + n) + 1 /\ (m + n) + 1 > m /\ ((m + n) + 1) - m = n + 1
    BY <1>4
  <2> QED
    BY <1>1, <1>2, <1>3, <1>7, <2>1, <2>2
<1>10. ASSUME NEW i \in 1 .. m + n PROVE k[i] = k[i + 1] + Closes(u[i])
  <2>1. i \in 1 .. (m + n) + 1 /\ i + 1 \in 1 .. (m + n) + 1
    BY <1>4
  <2>2. CASE i <= m
    <3>1. i \in 1 .. m /\ i <= m + 1 /\ i + 1 <= m + 1
      BY <1>4, <2>2
    <3>2. g[i] = g[i + 1] + Closes(s[i])
      BY <1>1, <1>3, <3>1
    <3> QED
      BY <1>6, <1>7, <2>1, <2>2, <3>1, <3>2
  <2>3. CASE i > m
    <3>1. i - m \in 1 .. n /\ i + 1 > m /\ (i + 1) - m = (i - m) + 1 /\ ~(i <= m)
      BY <1>4, <2>3
    <3>2. h[i - m] = h[(i - m) + 1] + Closes(t[i - m])
      BY <1>2, <1>3, <3>1
    <3> QED
      BY <1>6, <1>7, <2>1, <2>3, <3>1, <3>2
  <2> QED
    BY <1>4, <2>2, <2>3
<1>11. Ladder(u, a, c)
  BY <1>6, <1>8, <1>9, <1>10 DEF Ladder
<1> QED
  BY <1>5, <1>11

LEMMA LadderTail ==
  ASSUME NEW S, NEW s \in Seq(S), s # <<>>, NEW a, NEW b, Ladder(s, a, b)
  PROVE  \E d \in Nat \ {0} : a = d + Closes(s[1]) /\ Ladder(Tail(s), d, b)
<1>1. PICK g \in [1 .. Len(s) + 1 -> Nat \ {0}] :
        /\ g[1] = a /\ g[Len(s) + 1] = b
        /\ \A i \in 1 .. Len(s) : g[i] = g[i + 1] + Closes(s[i])
  BY DEF Ladder
<1>2. PICK t, n : t = Tail(s) /\ n = Len(t)
  OBVIOUS
<1>3. /\ t \in Seq(S) /\ n \in Nat /\ Len(s) = n + 1
      /\ \A i \in 1 .. n : t[i] = s[i + 1]
  <2>1. Len(Tail(s)) = Len(s) - 1 /\ Len(s) \in Nat /\ Len(Tail(s)) \in Nat
        /\ \A i \in 1 .. Len(Tail(s)) : Tail(s)[i] = s[i + 1]
    BY HeadTailProperties
  <2> QED
    BY <1>2, <2>1, HeadTailProperties
<1> DEFINE h == [i \in 1 .. n + 1 |-> g[i + 1]]
<1>4. \A i \in 1 .. n + 1 : i + 1 \in 1 .. Len(s) + 1 /\ h[i] = g[i + 1]
  BY <1>3
<1>5. h \in [1 .. n + 1 -> Nat \ {0}]
  BY <1>4
<1> HIDE DEF h
<1>6. 1 \in 1 .. n + 1 /\ n + 1 \in 1 .. n + 1
  BY <1>3
<1>7. h[1] = g[2] /\ h[n + 1] = b
  BY <1>1, <1>3, <1>4, <1>6
<1>8. ASSUME NEW i \in 1 .. n PROVE h[i] = h[i + 1] + Closes(t[i])
  <2>1. i \in 1 .. n + 1 /\ i + 1 \in 1 .. n + 1 /\ i + 1 \in 1 .. Len(s)
    BY <1>3
  <2> QED
    BY <1>1, <1>3, <1>4, <2>1
<1>9. Ladder(t, g[2], b)
  BY <1>2, <1>5, <1>7, <1>8 DEF Ladder
<1>10. a = g[2] + Closes(s[1]) /\ g[2] \in Nat \ {0}
  <2>1. 1 \in 1 .. Len(s) /\ 2 \in 1 .. Len(s) + 1 /\ 1 + 1 = 2
    BY <1>3
  <2> QED
    BY <1>1, <2>1
<1> QED
  BY <1>2, <1>9, <1>10

-----------------------------------------------------------------------------
(* The account of x: what the items s owe, when item w owes the set O[w]. *)

NoneOwes(O, s, x) == \A i \in DOMAIN s : x \notin O[s[i]]
OneOwes(O, s, x)  == \E i \in DOMAIN s : /\ x \in O[s[i]]
                                         /\ \A j \in DOMAIN s : x \in O[s[j]] => j = i

LEMMA NilOwes == \A O, x : NoneOwes(O, <<>>, x)
BY DEF NoneOwes

LEMMA ItemOwes ==
  ASSUME NEW O, NEW w, NEW x
  PROVE  /\ x \notin O[w] => NoneOwes(O, <<w>>, x)
         /\ x \in O[w] => OneOwes(O, <<w>>, x)
<1>1. PICK s : s = <<w>>
  OBVIOUS
<1>2. DOMAIN s = {1} /\ s[1] = w
  BY <1>1
<1>3. x \notin O[w] => NoneOwes(O, s, x)
  BY <1>2 DEF NoneOwes
<1>4. x \in O[w] => OneOwes(O, s, x)
  BY <1>2 DEF OneOwes
<1> QED
  BY <1>1, <1>3, <1>4

LEMMA JoinOwes ==
  ASSUME NEW S, NEW s \in Seq(S), NEW t \in Seq(S), NEW O, NEW x
  PROVE  /\ NoneOwes(O, s, x) /\ NoneOwes(O, t, x) => NoneOwes(O, s \o t, x)
         /\ OneOwes(O, s, x) /\ NoneOwes(O, t, x) => OneOwes(O, s \o t, x)
         /\ NoneOwes(O, s, x) /\ OneOwes(O, t, x) => OneOwes(O, s \o t, x)
<1>1. PICK m, n : m = Len(s) /\ n = Len(t)
  OBVIOUS
<1>2. PICK u : u = s \o t
  OBVIOUS
<1>3. m \in Nat /\ n \in Nat /\ DOMAIN s = 1 .. m /\ DOMAIN t = 1 .. n
  BY <1>1
<1>4. /\ u \in Seq(S) /\ Len(u) = m + n
      /\ \A i \in 1 .. m + n : u[i] = IF i <= m THEN s[i] ELSE t[i - m]
  BY <1>1, <1>2, ConcatProperties
<1>5. DOMAIN u = 1 .. m + n
  BY <1>4
<1>6. ASSUME NEW i \in DOMAIN u
      PROVE  (i \in DOMAIN s /\ u[i] = s[i]) \/ (i - m \in DOMAIN t /\ u[i] = t[i - m])
  <2>1. CASE i <= m
    BY <1>3, <1>4, <1>5, <2>1
  <2>2. CASE i > m
    <3>1. i - m \in 1 .. n /\ ~(i <= m)
      BY <1>3, <1>5, <2>2
    <3> QED
      BY <1>3, <1>4, <1>5, <3>1
  <2> QED
    BY <1>3, <1>5, <2>1, <2>2
<1>7. \A i \in DOMAIN s : i \in DOMAIN u /\ u[i] = s[i]
  BY <1>3, <1>4, <1>5
<1>8. ASSUME NEW i \in DOMAIN t PROVE i + m \in DOMAIN u /\ u[i + m] = t[i]
  <2>1. i + m \in 1 .. m + n /\ ~(i + m <= m) /\ (i + m) - m = i
    BY <1>3
  <2> QED
    BY <1>4, <1>5, <2>1
<1>9. NoneOwes(O, s, x) /\ NoneOwes(O, t, x) => NoneOwes(O, u, x)
  BY <1>6 DEF NoneOwes
<1>10. ASSUME OneOwes(O, s, x), NoneOwes(O, t, x) PROVE OneOwes(O, u, x)
  <2>1. PICK i \in DOMAIN s : x \in O[s[i]] /\ \A j \in DOMAIN s : x \in O[s[j]] => j = i
    BY <1>10 DEF OneOwes
  <2>2. \A j \in DOMAIN u : x \in O[u[j]] => j = i
    BY <1>6, <1>10, <2>1 DEF NoneOwes
  <2> QED
    BY <1>7, <2>1, <2>2 DEF OneOwes
<1>11. ASSUME NoneOwes(O, s, x), OneOwes(O, t, x) PROVE OneOwes(O, u, x)
  <2>1. PICK i \in DOMAIN t : x \in O[t[i]] /\ \A j \in DOMAIN t : x \in O[t[j]] => j = i
    BY <1>11 DEF OneOwes
  <2>2. ASSUME NEW j \in DOMAIN u, x \in O[u[j]] PROVE j = i + m
    <3>1. j - m \in DOMAIN t /\ u[j] = t[j - m]
      BY <1>6, <1>11, <2>2 DEF NoneOwes
    <3>2. j - m = i
      BY <2>1, <2>2, <3>1
    <3>3. j \in Nat /\ i \in Nat
      BY <1>3, <1>5
    <3> QED
      BY <1>3, <3>2, <3>3
  <2> QED
    BY <1>8, <2>1, <2>2 DEF OneOwes
<1> QED
  BY <1>2, <1>9, <1>10, <1>11

LEMMA TailOwes ==
  ASSUME NEW S, NEW s \in Seq(S), s # <<>>, NEW O, NEW x
  PROVE  /\ NoneOwes(O, s, x) => x \notin O[s[1]] /\ NoneOwes(O, Tail(s), x)
         /\ OneOwes(O, s, x) => \/ x \in O[s[1]] /\ NoneOwes(O, Tail(s), x)
                                \/ x \notin O[s[1]] /\ OneOwes(O, Tail(s), x)
<1>1. PICK t, n : t = Tail(s) /\ n = Len(t)
  OBVIOUS
<1>2. /\ t \in Seq(S) /\ n \in Nat /\ Len(s) = n + 1
      /\ \A i \in 1 .. n : t[i] = s[i + 1]
  <2>1. Len(Tail(s)) = Len(s) - 1 /\ Len(s) \in Nat /\ Len(Tail(s)) \in Nat
        /\ \A i \in 1 .. Len(Tail(s)) : Tail(s)[i] = s[i + 1]
    BY HeadTailProperties
  <2> QED
    BY <1>1, <2>1, HeadTailProperties
<1>3. DOMAIN s = 1 .. n + 1 /\ DOMAIN t = 1 .. n
  BY <1>1, <1>2
<1>4. 1 \in DOMAIN s
  BY <1>2, <1>3
<1>5. \A i \in DOMAIN t : i + 1 \in DOMAIN s /\ t[i] = s[i + 1] /\ i + 1 # 1
  BY <1>2, <1>3
<1>6. \A i \in DOMAIN s : i = 1 \/ (i - 1 \in DOMAIN t /\ s[i] = t[i - 1])
  <2>1. \A i \in DOMAIN s : i = 1 \/ (i - 1 \in DOMAIN t /\ (i - 1) + 1 = i)
    BY <1>2, <1>3
  <2> QED
    BY <1>5, <2>1
<1>7. NoneOwes(O, s, x) => x \notin O[s[1]] /\ NoneOwes(O, t, x)
  BY <1>4, <1>5 DEF NoneOwes
<1>8. ASSUME OneOwes(O, s, x)
      PROVE  \/ x \in O[s[1]] /\ NoneOwes(O, t, x)
             \/ x \notin O[s[1]] /\ OneOwes(O, t, x)
  <2>1. PICK i \in DOMAIN s : x \in O[s[i]] /\ \A j \in DOMAIN s : x \in O[s[j]] => j = i
    BY <1>8 DEF OneOwes
  <2>2. CASE i = 1
    BY <1>5, <2>1, <2>2 DEF NoneOwes
  <2>3. CASE i # 1
    <3>1. i - 1 \in DOMAIN t /\ x \in O[t[i - 1]]
      BY <1>6, <2>1, <2>3
    <3>2. ASSUME NEW j \in DOMAIN t, x \in O[t[j]] PROVE j = i - 1
      <4>1. j + 1 = i
        BY <1>5, <2>1, <3>2
      <4>2. j \in Nat /\ i \in Nat
        BY <1>2, <1>3
      <4> QED
        BY <4>1, <4>2
    <3>3. x \notin O[s[1]]
      BY <1>4, <2>1, <2>3
    <3> QED
      BY <3>1, <3>2, <3>3 DEF OneOwes
  <2> QED
    BY <2>2, <2>3
<1> QED
  BY <1>1, <1>7, <1>8

(* Items of one kind for the nodes ns, each once. *)
LEMMA EachOwes ==
  ASSUME NEW S, NEW ns \in Seq(S), \A i, j \in DOMAIN ns : ns[i] = ns[j] => i = j,
         NEW op, NEW O, NEW x
  PROVE  /\ (\A n \in Elements(ns) : x \notin O[Do(op, n)]) => NoneOwes(O, Each(op, ns), x)
         /\ \A n \in Elements(ns) :
              x \in O[Do(op, n)] /\ (\A m \in Elements(ns) : x \in O[Do(op, m)] => m = n)
                => OneOwes(O, Each(op, ns), x)
<1>1. PICK s : s = Each(op, ns)
  OBVIOUS
<1>2. DOMAIN s = DOMAIN ns /\ \A i \in DOMAIN ns : s[i] = Do(op, ns[i])
  BY <1>1 DEF Each
<1>3. (\A n \in Elements(ns) : x \notin O[Do(op, n)]) => NoneOwes(O, s, x)
  BY <1>2 DEF NoneOwes, Elements
<1>4. ASSUME NEW n \in Elements(ns), x \in O[Do(op, n)],
             \A m \in Elements(ns) : x \in O[Do(op, m)] => m = n
      PROVE  OneOwes(O, s, x)
  <2>1. PICK i \in DOMAIN ns : n = ns[i]
    BY DEF Elements
  <2>2. ASSUME NEW j \in DOMAIN ns, x \in O[Do(op, ns[j])] PROVE j = i
    <3>1. ns[j] \in Elements(ns)
      BY DEF Elements
    <3>2. ns[j] = ns[i]
      BY <1>4, <2>1, <2>2, <3>1
    <3> QED
      BY <3>2
  <2> QED
    BY <1>2, <1>4, <2>1, <2>2 DEF OneOwes
<1> QED
  BY <1>1, <1>3, <1>4

(* x has been done once and is owed no more, or not yet, and is owed once. *)
Settled(O, s, done, x) == \/ done = 1 /\ NoneOwes(O, s, x)
                          \/ done = 0 /\ OneOwes(O, s, x)

(* What item w owed of x has been done, or is owed by the items s. *)
HandsOn(O, w, s, done, after, x) ==
  \/ x \notin O[w] /\ NoneOwes(O, s, x) /\ after = done
  \/ x \in O[w] /\ NoneOwes(O, s, x) /\ after = done + 1
  \/ x \in O[w] /\ OneOwes(O, s, x) /\ after = done

LEMMA StaysSettled ==
  ASSUME NEW S, NEW s \in Seq(S), s # <<>>, NEW items \in Seq(S), NEW O, NEW x,
         NEW done, NEW after, Settled(O, s, done, x),
         HandsOn(O, s[1], items, done, after, x)
  PROVE  Settled(O, items \o Tail(s), after, x)
<1>1. PICK t, u : t = Tail(s) /\ u = items \o t
  OBVIOUS
<1>2. t \in Seq(S)
  BY <1>1, HeadTailProperties
<1>3. /\ NoneOwes(O, items, x) /\ NoneOwes(O, t, x) => NoneOwes(O, u, x)
      /\ OneOwes(O, items, x) /\ NoneOwes(O, t, x) => OneOwes(O, u, x)
      /\ NoneOwes(O, items, x) /\ OneOwes(O, t, x) => OneOwes(O, u, x)
  BY <1>1, <1>2, JoinOwes
<1>4. /\ NoneOwes(O, s, x) => x \notin O[s[1]] /\ NoneOwes(O, t, x)
      /\ OneOwes(O, s, x) => \/ x \in O[s[1]] /\ NoneOwes(O, t, x)
                             \/ x \notin O[s[1]] /\ OneOwes(O, t, x)
  BY <1>1, TailOwes
<1>5. Settled(O, u, after, x)
  BY <1>3, <1>4 DEF Settled, HandsOn
<1> QED
  BY <1>1, <1>5

-----------------------------------------------------------------------------
(* What each item owes *)

(* The statements of the top level that the passes share out. *)
ToFile == {k \in KidsOf[1] : FileScope(k)}
ToMain == {k \in KidsOf[1] : Parallel(k) \/ Rest(k) \/ (Regular(k) /\ ~Marked(k))}

(* Where the walks for workers and wrappers find something to write. *)
ToWorkers  == {n \in Met("workers") : ThreadedLoop(n)}
ToWrappers == {n \in Met("wrappers") : ThreadUnit(n)}
ToChildren == {n \in Met("wrappers") : ProcessVar(n)}

OfBlock(n) == IF ast[n].kind = "thread" THEN Within(n) ELSE {}

(* The statements that an item will have had written when it is done. *)
Owed(w) ==
  CASE w.op = "stmt"     -> Near(w.node)
    [] w.op = "else"     -> Within(w.node)
    [] w.op = "worker"   -> Within(Kid(w.node, 4))
    [] w.op = "wrapper"  -> OfBlock(w.node)
    [] w.op = "function" -> {w.node} \cup Within(w.node)
    [] w.op = "global"   -> {w.node}
    [] w.op = "assign"   -> ToFile
    [] w.op = "locks"    -> UNION {Within(Kid(n, 4)) : n \in ToWorkers}
    [] w.op = "forward"  -> UNION {{n} \cup Within(n) : n \in Functions}
    [] w.op = "wrappers" -> UNION {OfBlock(n) : n \in ToWrappers}
    [] w.op = "main"     -> UNION {Near(n) : n \in ToMain}
    [] OTHER             -> {}

(* The parallel calls and blocks that it will have given a wrapper. *)
Runs(w) ==
  CASE w.op = "wrapper"  -> {w.node}
    [] w.op = "child"    -> {w.node}
    [] w.op = "wrappers" -> ToWrappers \cup ToChildren
    [] OTHER             -> {}

OwedBy == [w \in Items |-> Owed(w)]
RunBy  == [w \in Items |-> Runs(w)]

LEMMA OwedAt ==
  ASSUME NEW n \in Nodes
  PROVE  /\ OwedBy[Do("stmt", n)] = Near(n)
         /\ OwedBy[Do("else", n)] = Within(n)
         /\ OwedBy[Do("worker", n)] = Within(Kid(n, 4))
         /\ OwedBy[Do("wrapper", n)] = OfBlock(n)
         /\ OwedBy[Do("function", n)] = {n} \cup Within(n)
         /\ OwedBy[Do("global", n)] = {n}
         /\ OwedBy[Do("assign", n)] = ToFile
         /\ OwedBy[Do("locks", n)] = UNION {Within(Kid(m, 4)) : m \in ToWorkers}
         /\ OwedBy[Do("forward", n)] = UNION {{m} \cup Within(m) : m \in Functions}
         /\ OwedBy[Do("wrappers", n)] = UNION {OfBlock(m) : m \in ToWrappers}
         /\ OwedBy[Do("main", n)] = UNION {Near(m) : m \in ToMain}
         /\ \A op \in {"child", "close", "endWorker", "head"} : OwedBy[Do(op, n)] = {}
<1> DEFINE Ops == {"assign", "locks", "forward", "wrappers", "main", "global",
                   "worker", "endWorker", "function", "wrapper", "child", "stmt",
                   "close", "else", "head"}
<1>1. \A op \in Ops : /\ Do(op, n) \in Items /\ Do(op, n).op = op
                      /\ Do(op, n).node = n
  BY DEF Do, Items
<1>2. \A op \in Ops : OwedBy[Do(op, n)] = Owed(Do(op, n))
  BY <1>1 DEF OwedBy
<1>3. Owed(Do("stmt", n)) = Near(n)
  BY <1>1 DEF Owed
<1>4. Owed(Do("else", n)) = Within(n)
  BY <1>1 DEF Owed
<1>5. Owed(Do("worker", n)) = Within(Kid(n, 4))
  BY <1>1 DEF Owed
<1>6. Owed(Do("wrapper", n)) = OfBlock(n)
  BY <1>1 DEF Owed
<1>7. Owed(Do("function", n)) = {n} \cup Within(n)
  BY <1>1 DEF Owed
<1>8. Owed(Do("global", n)) = {n}
  BY <1>1 DEF Owed
<1>9. Owed(Do("assign", n)) = ToFile
  BY <1>1 DEF Owed
<1>10. Owed(Do("locks", n)) = UNION {Within(Kid(m, 4)) : m \in ToWorkers}
  BY <1>1 DEF Owed
<1>11. Owed(Do("forward", n)) = UNION {{m} \cup Within(m) : m \in Functions}
  BY <1>1 DEF Owed
<1>12. Owed(Do("wrappers", n)) = UNION {OfBlock(m) : m \in ToWrappers}
  BY <1>1 DEF Owed
<1>13. Owed(Do("main", n)) = UNION {Near(m) : m \in ToMain}
  BY <1>1 DEF Owed
<1>14. \A op \in {"child", "close", "endWorker", "head"} : Owed(Do(op, n)) = {}
  BY <1>1 DEF Owed
<1> HIDE DEF Ops
<1>15. {"assign", "locks", "forward", "wrappers", "main", "global",
        "worker", "endWorker", "function", "wrapper", "child", "stmt",
        "close", "else", "head"} \subseteq Ops
  BY DEF Ops
<1> QED
  BY <1>2, <1>3, <1>4, <1>5, <1>6, <1>7, <1>8, <1>9, <1>10, <1>11, <1>12, <1>13, <1>14,
     <1>15

LEMMA RunAt ==
  ASSUME NEW n \in Nodes
  PROVE  /\ \A op \in {"wrapper", "child"} : RunBy[Do(op, n)] = {n}
         /\ RunBy[Do("wrappers", n)] = ToWrappers \cup ToChildren
         /\ \A op \in {"assign", "locks", "forward", "main", "global", "worker",
                       "endWorker", "function", "stmt", "close", "else", "head"} :
              RunBy[Do(op, n)] = {}
<1> DEFINE Ops == {"assign", "locks", "forward", "wrappers", "main", "global",
                   "worker", "endWorker", "function", "wrapper", "child", "stmt",
                   "close", "else", "head"}
<1>1. \A op \in Ops : /\ Do(op, n) \in Items /\ Do(op, n).op = op
                      /\ Do(op, n).node = n
  BY DEF Do, Items
<1>2. \A op \in Ops : RunBy[Do(op, n)] = Runs(Do(op, n))
  BY <1>1 DEF RunBy
<1>3. \A op \in {"wrapper", "child"} : RunBy[Do(op, n)] = {n}
  BY <1>1, <1>2 DEF Runs
<1>4. RunBy[Do("wrappers", n)] = ToWrappers \cup ToChildren
  BY <1>1, <1>2 DEF Runs
<1>5. \A op \in Ops : op \notin {"wrapper", "child", "wrappers"} => RunBy[Do(op, n)] = {}
  BY <1>1, <1>2 DEF Runs
<1> QED
  BY <1>3, <1>4, <1>5

-----------------------------------------------------------------------------
(* The nodes that each item is for *)

Ops == {"assign", "locks", "forward", "wrappers", "main", "global", "worker",
        "endWorker", "function", "wrapper", "child", "stmt", "close", "else", "head"}

Statements == {n \in Nodes : /\ n \in Listed \/ \E f \in Of("for") : n = Kid(f, 1)
                             /\ FunctionsAtTop => ast[n].kind # "func"}
Branches   == {n \in Nodes : /\ ast[n].kind \in {"block", "if"}
                             /\ \E f \in Of("if") : n \in KidsOf[f]}

For(op) ==
  CASE op = "stmt"      -> Statements
    [] op = "else"      -> Branches
    [] op = "worker"    -> {n \in Nodes : ThreadedLoop(n)}
    [] op = "endWorker" -> Of("for")
    [] op = "head"      -> Of("for")
    [] op = "wrapper"   -> {n \in Nodes : ThreadUnit(n)}
    [] op = "child"     -> {n \in Nodes : ProcessVar(n)}
    [] op = "function"  -> Functions
    [] op = "global"    -> ToFile
    [] OTHER            -> Nodes

Fit == {w \in Items : w.node \in For(w.op)}

LEMMA FitFacts ==
  ASSUME WellFormed(ast)
  PROVE  /\ Fit \subseteq Items
         /\ \A op \in Ops : For(op) \subseteq Nodes /\ \A n \in For(op) : Do(op, n) \in Fit
         /\ \A w \in Fit : w.op \in Ops /\ w.node \in For(w.op) /\ w.node \in Nodes
                           /\ w = Do(w.op, w.node)
<1>1. Functions \subseteq Nodes /\ ToFile \subseteq Nodes
  <2>1. Elements(Top) = KidsOf[1] /\ KidsOf[1] \subseteq Nodes
    BY TreeNodes, KidsFacts DEF KidsOf, Top
  <2> QED
    BY <2>1 DEF Functions, ToFile
<1>2. For("stmt") \subseteq Nodes
  BY DEF For, Statements
<1>3. For("else") \subseteq Nodes
  BY DEF For, Branches
<1>4. For("function") \subseteq Nodes /\ For("global") \subseteq Nodes
  BY <1>1 DEF For
<1>5. \A op \in {"worker", "endWorker", "head", "wrapper", "child"} : For(op) \subseteq Nodes
  BY DEF For, Of
<1>6. \A op \in Ops : op \notin {"stmt", "else", "worker", "endWorker", "head", "wrapper",
                                 "child", "function", "global"} => For(op) = Nodes
  BY DEF For, Ops
<1>7. \A op \in Ops : For(op) \subseteq Nodes
  BY <1>2, <1>3, <1>4, <1>5, <1>6 DEF Ops
<1>8. \A op \in Ops : \A n \in For(op) : Do(op, n) \in Fit
  <2> SUFFICES ASSUME NEW op \in Ops, NEW n \in For(op) PROVE Do(op, n) \in Fit
    OBVIOUS
  <2>1. Do(op, n) \in Items /\ Do(op, n).op = op /\ Do(op, n).node = n
    BY <1>7 DEF Do, Items, Ops
  <2> QED
    BY <2>1 DEF Fit
<1>9. \A w \in Fit : w.op \in Ops /\ w.node \in For(w.op) /\ w.node \in Nodes
                     /\ w = Do(w.op, w.node)
  BY DEF Fit, Items, Ops, Do
<1> QED
  BY <1>7, <1>8, <1>9 DEF Fit

LEMMA EachFits ==
  ASSUME WellFormed(ast), NEW op \in Ops, NEW S, NEW ns \in Seq(S),
         Elements(ns) \subseteq For(op)
  PROVE  /\ Each(op, ns) \in Seq(Fit)
         /\ op \notin {"close", "endWorker", "head"} =>
              \A d \in Nat \ {0} : Ladder(Each(op, ns), d, d)
<1>1. PICK s : s = Each(op, ns)
  OBVIOUS
<1>2. /\ DOMAIN ns = 1 .. Len(ns) /\ Len(ns) \in Nat
      /\ s = [i \in 1 .. Len(ns) |-> Do(op, ns[i])]
  BY <1>1 DEF Each
<1>3. \A i \in 1 .. Len(ns) : Do(op, ns[i]) \in Fit
  BY <1>2, FitFacts DEF Elements
<1>4. s \in Seq(Fit) /\ Len(s) = Len(ns)
  <2>1. s \in [1 .. Len(ns) -> Fit]
    BY <1>2, <1>3
  <2> QED
    BY <1>2, <2>1
<1>5. ASSUME op \notin {"close", "endWorker", "head"}, NEW d \in Nat \ {0}
      PROVE  Ladder(s, d, d)
  <2>1. \A i \in 1 .. Len(s) : s[i].op = op
    BY <1>2, <1>4 DEF Do
  <2>2. \A i \in 1 .. Len(s) : Closes(s[i]) = 0
    BY <1>5, <2>1 DEF Closes
  <2> QED
    BY <1>4, <2>2, LadderFlat
<1> QED
  BY <1>1, <1>4, <1>5

LEMMA OneFits ==
  ASSUME WellFormed(ast), NEW op \in Ops, NEW n \in For(op)
  PROVE  /\ <<Do(op, n)>> \in Seq(Fit)
         /\ op = "close" => \A d \in Nat \ {0} : Ladder(<<Do(op, n)>>, d + 1, d)
         /\ op = "endWorker" => \A d \in Nat \ {0} : Ladder(<<Do(op, n)>>, d + 2, d)
         /\ op = "head" => \A d \in Nat \ {0} : Ladder(<<Do(op, n)>>, d, d + 1)
         /\ op \notin {"close", "endWorker", "head"} =>
              \A d \in Nat \ {0} : Ladder(<<Do(op, n)>>, d, d)
<1>1. PICK w : w = Do(op, n)
  OBVIOUS
<1>2. w \in Fit /\ w.op = op
  BY <1>1, FitFacts DEF Do
<1>3. <<w>> \in Seq(Fit)
  BY <1>2
<1>4. \A d \in Nat \ {0} : d + 1 \in Nat \ {0} /\ d + 2 \in Nat \ {0} /\ (d + 1) + (-1) = d
                           /\ d + 0 = d
  OBVIOUS
<1>5. op = "close" => Closes(w) = 1
  BY <1>2 DEF Closes
<1>6. op = "endWorker" => Closes(w) = 2
  BY <1>2 DEF Closes
<1>7. op = "head" => Closes(w) = -1
  BY <1>2 DEF Closes
<1>8. op \notin {"close", "endWorker", "head"} => Closes(w) = 0
  BY <1>2 DEF Closes
<1>9. op = "close" => \A d \in Nat \ {0} : Ladder(<<w>>, d + 1, d)
  BY <1>4, <1>5, LadderOne
<1>10. op = "endWorker" => \A d \in Nat \ {0} : Ladder(<<w>>, d + 2, d)
  BY <1>4, <1>6, LadderOne
<1>11. op = "head" => \A d \in Nat \ {0} : Ladder(<<w>>, d, d + 1)
  BY <1>4, <1>7, LadderOne
<1>12. op \notin {"close", "endWorker", "head"} => \A d \in Nat \ {0} : Ladder(<<w>>, d, d)
  BY <1>4, <1>8, LadderOne
<1> QED
  BY <1>1, <1>3, <1>9, <1>10, <1>11, <1>12

(* The statements in a node are what is written in its braces. *)
LEMMA InsideFits ==
  ASSUME WellFormed(ast), NEW n \in Nodes, ast[n].kind \in {"block", "thread", "func"}
  PROVE  /\ Each("stmt", ast[n].kids) \in Seq(Fit) /\ Inside(n) \in Seq(Fit)
         /\ \A d \in Nat \ {0} : /\ Ladder(Each("stmt", ast[n].kids), d, d)
                                 /\ Ladder(Inside(n), d + 1, d)
<1>1. ast[n].kids \in Seq(Nodes) /\ Elements(ast[n].kids) = KidsOf[n]
  BY KidsFacts DEF KidsOf
<1>2. KidsOf[n] \subseteq Statements
  <2> SUFFICES ASSUME NEW k \in KidsOf[n] PROVE k \in Statements
    OBVIOUS
  <2>1. k \in Nodes /\ k \in Listed
    BY KidsFacts, IsListed DEF ListKinds
  <2>2. FunctionsAtTop => ast[k].kind # "func"
    <3> SUFFICES ASSUME FunctionsAtTop, ast[k].kind = "func" PROVE FALSE
      OBVIOUS
    <3>1. k \in Elements(Top)
      BY <2>1 DEF FunctionsAtTop, Of, Functions
    <3>2. k \in KidsOf[1]
      BY <3>1, TreeNodes DEF KidsOf, Top
    <3>3. n = 1
      BY <2>1, <3>2, OneParent, TreeNodes
    <3> QED
      BY <3>3, TreeNodes
  <2> QED
    BY <2>1, <2>2 DEF Statements
<1>3. For("stmt") = Statements
  BY DEF For
<1>4. For("close") = Nodes
  BY DEF For
<1>5. "stmt" \in Ops /\ "close" \in Ops
  BY DEF Ops
<1>6. PICK s, c : s = Each("stmt", ast[n].kids) /\ c = <<Do("close", n)>>
  OBVIOUS
<1>7. s \in Seq(Fit) /\ \A d \in Nat \ {0} : Ladder(s, d, d)
  BY <1>1, <1>2, <1>3, <1>5, <1>6, EachFits
<1>8. c \in Seq(Fit) /\ \A d \in Nat \ {0} : Ladder(c, d + 1, d)
  BY <1>4, <1>5, <1>6, OneFits
<1>9. s \o c \in Seq(Fit)
  BY <1>7, <1>8, ConcatProperties
<1>10. \A d \in Nat \ {0} : Ladder(s \o c, d + 1, d)
  <2> TAKE d \in Nat \ {0}
  <2>1. d + 1 \in Nat \ {0}
    OBVIOUS
  <2> QED
    BY <1>7, <1>8, <2>1, LadderJoin
<1> QED
  BY <1>6, <1>7, <1>9, <1>10 DEF Inside

LEMMA InsideOwes ==
  ASSUME WellFormed(ast), NEW n \in Nodes, NEW x
  PROVE  /\ x \in Within(n) => /\ OneOwes(OwedBy, Each("stmt", ast[n].kids), x)
                               /\ OneOwes(OwedBy, Inside(n), x)
         /\ x \notin Within(n) => /\ NoneOwes(OwedBy, Each("stmt", ast[n].kids), x)
                                  /\ NoneOwes(OwedBy, Inside(n), x)
         /\ NoneOwes(RunBy, Each("stmt", ast[n].kids), x)
         /\ NoneOwes(RunBy, Inside(n), x)
<1>1. /\ ast[n].kids \in Seq(Nodes) /\ Elements(ast[n].kids) = KidsOf[n]
      /\ \A i, j \in DOMAIN ast[n].kids : ast[n].kids[i] = ast[n].kids[j] => i = j
      /\ KidsOf[n] \subseteq Nodes
  BY KidsFacts DEF KidsOf
<1>2. PICK s, c, ns : s = Each("stmt", ns) /\ c = <<Do("close", n)>> /\ ns = ast[n].kids
  OBVIOUS
<1>3. \A k \in KidsOf[n] : OwedBy[Do("stmt", k)] = Near(k) /\ RunBy[Do("stmt", k)] = {}
  BY <1>1, OwedAt, RunAt
<1>4. OwedBy[Do("close", n)] = {} /\ RunBy[Do("close", n)] = {}
  BY OwedAt, RunAt
<1>5. NoneOwes(OwedBy, c, x) /\ NoneOwes(RunBy, c, x)
  BY <1>2, <1>4, ItemOwes
<1>6. x \in Within(n) => OneOwes(OwedBy, s, x)
  <2> SUFFICES ASSUME x \in Within(n) PROVE OneOwes(OwedBy, s, x)
    OBVIOUS
  <2>1. PICK k \in KidsOf[n] : x \in Near(k)
    BY DEF Within
  <2>2. \A l \in KidsOf[n] : x \in OwedBy[Do("stmt", l)] => l = k
    BY <1>3, <2>1, NearFacts
  <2> QED
    BY <1>1, <1>2, <1>3, <2>1, <2>2, EachOwes
<1>7. x \notin Within(n) => NoneOwes(OwedBy, s, x)
  <2> SUFFICES ASSUME x \notin Within(n) PROVE NoneOwes(OwedBy, s, x)
    OBVIOUS
  <2>1. \A k \in KidsOf[n] : x \notin OwedBy[Do("stmt", k)]
    BY <1>3 DEF Within
  <2> QED
    BY <1>1, <1>2, <2>1, EachOwes
<1>8. NoneOwes(RunBy, s, x)
  BY <1>1, <1>2, <1>3, EachOwes
<1>9. s \in Seq(Items) /\ c \in Seq(Items)
  <2>1. \A k \in Nodes : Do("stmt", k) \in Items /\ Do("close", k) \in Items
    BY DEF Do, Items
  <2>2. ns \in [1 .. Len(ns) -> Nodes] /\ Len(ns) \in Nat /\ DOMAIN ns = 1 .. Len(ns)
    BY <1>1, <1>2
  <2>3. s = [i \in 1 .. Len(ns) |-> Do("stmt", ns[i])]
    BY <1>2, <2>2 DEF Each
  <2>4. \A i \in 1 .. Len(ns) : Do("stmt", ns[i]) \in Items
    BY <2>1, <2>2
  <2>5. s \in [1 .. Len(ns) -> Items]
    BY <2>3, <2>4
  <2> QED
    BY <1>2, <2>1, <2>2, <2>5
<1>10. /\ NoneOwes(OwedBy, s, x) => NoneOwes(OwedBy, s \o c, x)
       /\ OneOwes(OwedBy, s, x) => OneOwes(OwedBy, s \o c, x)
       /\ NoneOwes(RunBy, s \o c, x)
  BY <1>5, <1>8, <1>9, JoinOwes
<1> QED
  BY <1>2, <1>6, <1>7, <1>8, <1>10 DEF Inside

LEMMA NilFits ==
  <<>> \in Seq(Fit) /\ \A d \in Nat \ {0} : Ladder(<<>>, d, d)
<1>1. PICK s : s = <<>>
  OBVIOUS
<1>2. s \in Seq(Fit) /\ Len(s) = 0
  BY <1>1
<1>3. \A i \in 1 .. Len(s) : Closes(s[i]) = 0
  BY <1>2
<1> QED
  BY <1>1, <1>2, <1>3, LadderFlat

LEMMA PairJoined ==
  ASSUME NEW v, NEW w
  PROVE  <<v, w>> = <<v>> \o <<w>>
<1>1. PICK s, t, p : s = <<v>> /\ t = <<w>> /\ p = <<v, w>>
  OBVIOUS
<1>2. /\ s \in Seq({v, w}) /\ t \in Seq({v, w}) /\ p \in Seq({v, w})
      /\ Len(s) = 1 /\ Len(t) = 1 /\ Len(p) = 2
      /\ s[1] = v /\ t[1] = w /\ p[1] = v /\ p[2] = w
  BY <1>1
<1>3. /\ s \o t \in Seq({v, w}) /\ Len(s \o t) = 1 + 1
      /\ \A i \in 1 .. 1 + 1 : (s \o t)[i] = IF i <= 1 THEN s[i] ELSE t[i - 1]
  BY <1>2, ConcatProperties
<1>4. PICK u : u = s \o t
  OBVIOUS
<1>5. u \in Seq({v, w}) /\ Len(u) = 2 /\ u[1] = v /\ u[2] = w
  BY <1>2, <1>3, <1>4
<1>6. \A i \in 1 .. Len(p) : p[i] = u[i]
  <2>1. \A i \in 1 .. 2 : i = 1 \/ i = 2
    OBVIOUS
  <2> QED
    BY <1>2, <1>5, <2>1
<1>7. p = u
  BY <1>2, <1>5, <1>6, SeqEqual
<1> QED
  BY <1>1, <1>4, <1>7

-----------------------------------------------------------------------------
(* The items of an if and of a for *)

IfItems(n) == Inside(Kid(n, 2))
                \o (IF Len(ast[n].kids) = 3 THEN <<Do("else", Kid(n, 3))>> ELSE <<>>)

ForItems(n) == <<Do("stmt", Kid(n, 1)), Do("head", n)>>
                 \o Inside(Kid(n, 4)) \o <<Do("close", n)>>

LEMMA IfKids ==
  ASSUME WellFormed(ast), NEW n \in Nodes, ast[n].kind = "if"
  PROVE  /\ Kid(n, 1) \in KidsOf[n] /\ Kid(n, 2) \in KidsOf[n] /\ Kid(n, 1) # Kid(n, 2)
         /\ ast[Kid(n, 2)].kind = "block"
         /\ Len(ast[n].kids) # 3 => KidsOf[n] = {Kid(n, 1), Kid(n, 2)}
         /\ Len(ast[n].kids) = 3 =>
              /\ KidsOf[n] = {Kid(n, 1), Kid(n, 2), Kid(n, 3)}
              /\ Kid(n, 3) \notin {Kid(n, 1), Kid(n, 2)}
              /\ ast[Kid(n, 3)].kind \in {"block", "if"}
<1>1. PICK s, l : s = ast[n].kids /\ l = Len(s)
  OBVIOUS
<1>2. /\ l \in {2, 3} /\ s \in Seq(Nodes) /\ DOMAIN s = 1 .. l
      /\ \A i, j \in DOMAIN s : s[i] = s[j] => i = j
      /\ KidsOf[n] = {s[i] : i \in 1 .. l}
  BY <1>1, NodeShape, KidsFacts DEF KidsOf, Elements
<1>3. \A i : Kid(n, i) = s[i]
  BY <1>1 DEF Kid
<1>4. l = 2 => 1 .. l = {1, 2}
  OBVIOUS
<1>5. l = 3 => 1 .. l = {1, 2, 3}
  OBVIOUS
<1>6. s[1] \in KidsOf[n] /\ s[2] \in KidsOf[n] /\ s[1] # s[2]
  BY <1>2, <1>4, <1>5
<1>7. l # 3 => KidsOf[n] = {s[1], s[2]}
  BY <1>2, <1>4
<1>8. l = 3 => KidsOf[n] = {s[1], s[2], s[3]} /\ s[3] \notin {s[1], s[2]}
  BY <1>2, <1>5
<1> QED
  BY <1>1, <1>3, <1>6, <1>7, <1>8, KidShape

LEMMA ForKids ==
  ASSUME WellFormed(ast), NEW n \in Nodes, ast[n].kind = "for"
  PROVE  /\ KidsOf[n] = {Kid(n, 1), Kid(n, 2), Kid(n, 3), Kid(n, 4)}
         /\ Kid(n, 4) \notin {Kid(n, 1), Kid(n, 2), Kid(n, 3)}
         /\ ast[Kid(n, 1)].kind = "decl" /\ ast[Kid(n, 4)].kind = "block"
         /\ ast[Kid(n, 3)].kind = "update"
         /\ \A i \in 1 .. 3 : ast[Kid(n, i)].kind \in Plain
<1>1. PICK s : s = ast[n].kids
  OBVIOUS
<1>2. /\ DOMAIN s = 1 .. 4
      /\ \A i, j \in DOMAIN s : s[i] = s[j] => i = j
      /\ KidsOf[n] = {s[i] : i \in 1 .. 4}
  <2>1. Len(s) = 4
    BY <1>1, NodeShape
  <2>2. /\ s \in Seq(Nodes) /\ KidsOf[n] = {s[i] : i \in DOMAIN s}
        /\ \A i, j \in DOMAIN s : s[i] = s[j] => i = j
    BY <1>1, KidsFacts DEF KidsOf, Elements
  <2>3. DOMAIN s = 1 .. 4
    BY <2>1, <2>2
  <2> QED
    BY <2>2, <2>3
<1>3. \A i : Kid(n, i) = s[i]
  BY <1>1 DEF Kid
<1>4. 1 .. 4 = {1, 2, 3, 4} /\ 1 .. 3 = {1, 2, 3}
  OBVIOUS
<1>5. KidsOf[n] = {s[1], s[2], s[3], s[4]} /\ s[4] \notin {s[1], s[2], s[3]}
  BY <1>2, <1>4
<1> QED
  BY <1>3, <1>4, <1>5, KidShape DEF Plain

(* A part whose own parts are expressions has no statement in it. *)
LEMMA PlainKid ==
  ASSUME WellFormed(ast), NEW n \in Nodes, ast[n].kind \in {"if", "for"},
         NEW k \in KidsOf[n], ast[k].kind \in Plain, NEW x \in Listed
  PROVE  x \notin Near(k)
<1>1. k \in Nodes /\ k \notin Listed
  BY KidsFacts, ListedFacts DEF ListKinds
<1> QED
  BY <1>1, NearPlain

LEMMA BlockKid ==
  ASSUME WellFormed(ast), NEW n \in Nodes, NEW k \in KidsOf[n],
         ast[k].kind = "block", NEW x \in Listed
  PROVE  x \in Near(k) <=> x \in Within(k)
<1>1. k \in Nodes /\ ~Apart(k)
  BY KidsFacts DEF Apart, ThreadedLoop
<1>2. x # k
  BY ListedFacts DEF StmtKinds
<1> QED
  BY <1>1, <1>2, NearSplit

LEMMA IfOwes ==
  ASSUME WellFormed(ast), NEW n \in Nodes, ast[n].kind = "if",
         NEW x \in Listed, NoElseIf
  PROVE  /\ x \in Near(n) /\ x # n => OneOwes(OwedBy, IfItems(n), x)
         /\ x \notin Near(n) \/ x = n => NoneOwes(OwedBy, IfItems(n), x)
<1> DEFINE then == Kid(n, 2)
           else == Kid(n, 3)
           s == Inside(then)
           has == Len(ast[n].kids) = 3
           t == IF has THEN <<Do("else", else)>> ELSE <<>>
<1>1. /\ Kid(n, 1) \in KidsOf[n] /\ then \in KidsOf[n] /\ Kid(n, 1) # then
      /\ ast[then].kind = "block"
      /\ ~has => KidsOf[n] = {Kid(n, 1), then}
      /\ has => /\ KidsOf[n] = {Kid(n, 1), then, else}
                /\ else \notin {Kid(n, 1), then}
                /\ ast[else].kind \in {"block", "if"}
  BY IfKids
<1>2. has => else \in Nodes /\ else \in KidsOf[n] /\ ast[else].kind = "block"
  <2> SUFFICES ASSUME has PROVE else \in Nodes /\ else \in KidsOf[n] /\ ast[else].kind = "block"
    OBVIOUS
  <2>1. else \in KidsOf[n] /\ else \in Nodes
    BY <1>1, KidsFacts
  <2>2. ast[else].kind # "if"
    BY <2>1 DEF NoElseIf, Of, KidsOf
  <2> QED
    BY <1>1, <2>1, <2>2
<1>3. then \in Nodes /\ s \in Seq(Fit)
  BY <1>1, KidsFacts, InsideFits
<1>4. t \in Seq(Fit)
  <2>1. has => else \in For("else")
    BY <1>2 DEF For, Branches, Of
  <2>2. has => <<Do("else", else)>> \in Seq(Fit)
    BY <2>1, OneFits DEF Ops
  <2> QED
    BY <2>2
<1>5. Near(n) = {n} \cup Within(n) /\ n \notin Within(n)
  <2>1. ~Apart(n)
    BY DEF Apart, ThreadedLoop
  <2> QED
    BY <2>1, NearSplit, NearFacts
<1>6. x \notin Near(Kid(n, 1))
  <2>1. ast[Kid(n, 1)].kind \in Plain
    BY KidShape DEF Plain
  <2> QED
    BY <1>1, <2>1, PlainKid
<1>7. x \in Within(n) <=> x \in Within(then) \/ (has /\ x \in Within(else))
  <2>1. x \in Near(then) <=> x \in Within(then)
    BY <1>1, BlockKid
  <2>2. has => (x \in Near(else) <=> x \in Within(else))
    BY <1>2, BlockKid
  <2>3. x \in Within(n) <=> \E k \in KidsOf[n] : x \in Near(k)
    BY DEF Within
  <2> HIDE DEF has, then, else
  <2>4. CASE has
    BY <1>1, <1>2, <1>6, <2>1, <2>2, <2>3, <2>4
  <2>5. CASE ~has
    BY <1>1, <1>6, <2>1, <2>3, <2>5
  <2> QED
    BY <2>4, <2>5
<1>8. ~(x \in Within(then) /\ has /\ x \in Within(else))
  <2> SUFFICES ASSUME x \in Within(then), has, x \in Within(else) PROVE FALSE
    OBVIOUS
  <2>1. x \in Near(then) /\ x \in Near(else)
    BY <1>1, <1>2, BlockKid
  <2> QED
    BY <1>1, <1>2, <2>1, NearFacts
<1>9. /\ x \in Within(then) => OneOwes(OwedBy, s, x)
      /\ x \notin Within(then) => NoneOwes(OwedBy, s, x)
  BY <1>3, InsideOwes
<1>10. /\ has /\ x \in Within(else) => OneOwes(OwedBy, t, x)
       /\ ~(has /\ x \in Within(else)) => NoneOwes(OwedBy, t, x)
  <2>1. CASE has
    BY <1>2, <2>1, OwedAt, ItemOwes
  <2>2. CASE ~has
    BY <2>2, NilOwes
  <2> QED
    BY <2>1, <2>2
<1>11. IfItems(n) = s \o t
  BY DEF IfItems
<1> HIDE DEF s, t, has, then, else
<1>12. /\ NoneOwes(OwedBy, s, x) /\ NoneOwes(OwedBy, t, x) => NoneOwes(OwedBy, s \o t, x)
       /\ OneOwes(OwedBy, s, x) /\ NoneOwes(OwedBy, t, x) => OneOwes(OwedBy, s \o t, x)
       /\ NoneOwes(OwedBy, s, x) /\ OneOwes(OwedBy, t, x) => OneOwes(OwedBy, s \o t, x)
  BY <1>3, <1>4, JoinOwes
<1> QED
  BY <1>5, <1>7, <1>8, <1>9, <1>10, <1>11, <1>12

LEMMA IfFits ==
  ASSUME WellFormed(ast), NEW n \in Nodes, ast[n].kind = "if", NEW x
  PROVE  /\ IfItems(n) \in Seq(Fit) /\ NoneOwes(RunBy, IfItems(n), x)
         /\ \A d \in Nat \ {0} : Ladder(IfItems(n), d + 1, d)
<1> DEFINE s == Inside(Kid(n, 2))
           has == Len(ast[n].kids) = 3
           t == IF has THEN <<Do("else", Kid(n, 3))>> ELSE <<>>
<1>1. /\ Kid(n, 2) \in Nodes /\ ast[Kid(n, 2)].kind = "block"
      /\ has => Kid(n, 3) \in KidsOf[n] /\ Kid(n, 3) \in Nodes
                /\ ast[Kid(n, 3)].kind \in {"block", "if"}
  BY IfKids, KidsFacts
<1>2. /\ s \in Seq(Fit) /\ NoneOwes(RunBy, s, x)
      /\ \A d \in Nat \ {0} : Ladder(s, d + 1, d)
  BY <1>1, InsideFits, InsideOwes
<1>3. /\ t \in Seq(Fit) /\ NoneOwes(RunBy, t, x)
      /\ \A d \in Nat \ {0} : Ladder(t, d, d)
  <2>1. CASE has
    <3>1. Kid(n, 3) \in For("else") /\ "else" \in Ops
      BY <1>1, <2>1 DEF For, Branches, Of, Ops
    <3>2. RunBy[Do("else", Kid(n, 3))] = {}
      BY <1>1, <2>1, RunAt
    <3> QED
      BY <2>1, <3>1, <3>2, OneFits, ItemOwes
  <2>2. CASE ~has
    BY <2>2, NilFits, NilOwes
  <2> QED
    BY <2>1, <2>2
<1>4. IfItems(n) = s \o t
  BY DEF IfItems
<1> HIDE DEF s, t, has
<1>5. s \o t \in Seq(Fit)
  BY <1>2, <1>3, ConcatProperties
<1>6. NoneOwes(RunBy, s \o t, x)
  BY <1>2, <1>3, JoinOwes
<1>7. \A d \in Nat \ {0} : Ladder(s \o t, d + 1, d)
  BY <1>2, <1>3, LadderJoin
<1> QED
  BY <1>4, <1>5, <1>6, <1>7

LEMMA ForFits ==
  ASSUME WellFormed(ast), NEW n \in Nodes, ast[n].kind = "for", NEW x
  PROVE  /\ ForItems(n) \in Seq(Fit) /\ NoneOwes(RunBy, ForItems(n), x)
         /\ \A d \in Nat \ {0} : Ladder(ForItems(n), d + 1, d)
         /\ x \in Listed /\ ~ThreadedLoop(n) =>
              /\ x \in Near(n) /\ x # n => OneOwes(OwedBy, ForItems(n), x)
              /\ x \notin Near(n) \/ x = n => NoneOwes(OwedBy, ForItems(n), x)
<1> DEFINE a == <<Do("stmt", Kid(n, 1))>>
           b == <<Do("head", n)>>
           s == Inside(Kid(n, 4))
           c == <<Do("close", n)>>
<1>1. /\ KidsOf[n] = {Kid(n, 1), Kid(n, 2), Kid(n, 3), Kid(n, 4)}
      /\ Kid(n, 4) \notin {Kid(n, 1), Kid(n, 2), Kid(n, 3)}
      /\ ast[Kid(n, 1)].kind = "decl" /\ ast[Kid(n, 4)].kind = "block"
      /\ \A i \in 1 .. 3 : ast[Kid(n, i)].kind \in Plain
      /\ Kid(n, 1) \in Nodes /\ Kid(n, 4) \in Nodes
  BY ForKids, KidsFacts
<1>2. /\ Kid(n, 1) \in For("stmt") /\ n \in For("head") /\ n \in For("close")
      /\ "stmt" \in Ops /\ "head" \in Ops /\ "close" \in Ops
  <2>1. Kid(n, 1) \in Statements
    BY <1>1 DEF Statements, Of
  <2>2. For("stmt") = Statements
    BY DEF For
  <2>3. For("head") = Of("for")
    BY DEF For
  <2>4. For("close") = Nodes
    BY DEF For
  <2> QED
    BY <2>1, <2>2, <2>3, <2>4 DEF Of, Ops
<1>3. /\ OwedBy[Do("stmt", Kid(n, 1))] = Near(Kid(n, 1)) /\ OwedBy[Do("head", n)] = {}
      /\ OwedBy[Do("close", n)] = {} /\ RunBy[Do("stmt", Kid(n, 1))] = {}
      /\ RunBy[Do("head", n)] = {} /\ RunBy[Do("close", n)] = {}
  BY <1>1, OwedAt, RunAt
<1>4. /\ a \in Seq(Fit) /\ NoneOwes(RunBy, a, x)
      /\ \A d \in Nat \ {0} : Ladder(a, d, d)
      /\ x \in Listed => NoneOwes(OwedBy, a, x)
  <2>1. x \in Listed => x \notin Near(Kid(n, 1))
    BY <1>1, PlainKid
  <2> QED
    BY <1>2, <1>3, <2>1, OneFits, ItemOwes
<1>5. /\ b \in Seq(Fit) /\ NoneOwes(RunBy, b, x) /\ NoneOwes(OwedBy, b, x)
      /\ \A d \in Nat \ {0} : Ladder(b, d, d + 1)
  BY <1>2, <1>3, OneFits, ItemOwes
<1>6. /\ s \in Seq(Fit) /\ NoneOwes(RunBy, s, x)
      /\ \A d \in Nat \ {0} : Ladder(s, d + 1, d)
      /\ x \in Within(Kid(n, 4)) => OneOwes(OwedBy, s, x)
      /\ x \notin Within(Kid(n, 4)) => NoneOwes(OwedBy, s, x)
  BY <1>1, InsideFits, InsideOwes
<1>7. /\ c \in Seq(Fit) /\ NoneOwes(RunBy, c, x) /\ NoneOwes(OwedBy, c, x)
      /\ \A d \in Nat \ {0} : Ladder(c, d + 1, d)
  BY <1>2, <1>3, OneFits, ItemOwes
<1>8. x \in Listed /\ ~ThreadedLoop(n) =>
        (x \in Near(n) /\ x # n <=> x \in Within(Kid(n, 4)))
  <2> SUFFICES ASSUME x \in Listed, ~ThreadedLoop(n)
               PROVE  x \in Near(n) /\ x # n <=> x \in Within(Kid(n, 4))
    OBVIOUS
  <2>1. Near(n) = {n} \cup Within(n) /\ n \notin Within(n)
    <3>1. ~Apart(n)
      BY DEF Apart
    <3> QED
      BY <3>1, NearSplit, NearFacts
  <2>2. x \in Within(n) <=> \E k \in KidsOf[n] : x \in Near(k)
    BY DEF Within
  <2>3. x \notin Near(Kid(n, 1)) /\ x \notin Near(Kid(n, 2)) /\ x \notin Near(Kid(n, 3))
    BY <1>1, PlainKid
  <2>4. x \in Near(Kid(n, 4)) <=> x \in Within(Kid(n, 4))
    BY <1>1, BlockKid
  <2> QED
    BY <1>1, <2>1, <2>2, <2>3, <2>4
<1>9. ForItems(n) = ((a \o b) \o s) \o c
  BY PairJoined DEF ForItems
<1> HIDE DEF a, b, s, c
<1> DEFINE ab == a \o b
           abs == ab \o s
<1>10. /\ ab \in Seq(Fit) /\ NoneOwes(RunBy, ab, x)
       /\ \A d \in Nat \ {0} : Ladder(ab, d, d + 1)
       /\ x \in Listed => NoneOwes(OwedBy, ab, x)
  BY <1>4, <1>5, JoinOwes, LadderJoin, ConcatProperties
<1> HIDE DEF ab
<1>11. /\ abs \in Seq(Fit) /\ NoneOwes(RunBy, abs, x)
       /\ \A d \in Nat \ {0} : Ladder(abs, d, d)
       /\ x \in Listed =>
            /\ x \in Within(Kid(n, 4)) => OneOwes(OwedBy, abs, x)
            /\ x \notin Within(Kid(n, 4)) => NoneOwes(OwedBy, abs, x)
  BY <1>6, <1>10, JoinOwes, LadderJoin, ConcatProperties
<1> HIDE DEF abs
<1>12. /\ abs \o c \in Seq(Fit) /\ NoneOwes(RunBy, abs \o c, x)
       /\ x \in Listed =>
            /\ x \in Within(Kid(n, 4)) => OneOwes(OwedBy, abs \o c, x)
            /\ x \notin Within(Kid(n, 4)) => NoneOwes(OwedBy, abs \o c, x)
  BY <1>7, <1>11, JoinOwes, ConcatProperties
<1>13. \A d \in Nat \ {0} : Ladder(abs \o c, d + 1, d)
  <2>1. \A d \in Nat \ {0} : d + 1 \in Nat \ {0}
    OBVIOUS
  <2> QED
    BY <1>7, <1>11, <2>1, LadderJoin
<1>14. ForItems(n) = abs \o c
  BY <1>9 DEF ab, abs
<1> QED
  BY <1>8, <1>12, <1>13, <1>14

-----------------------------------------------------------------------------
(* The items of the passes *)

LEMMA SpreadItems ==
  ASSUME WellFormed(ast), NEW op \in Ops, NEW S \in SUBSET For(op), NEW O, NEW x
  PROVE  /\ Each(op, InOrder(S)) \in Seq(Fit)
         /\ op \notin {"close", "endWorker", "head"} =>
              \A d \in Nat \ {0} : Ladder(Each(op, InOrder(S)), d, d)
         /\ (\A n \in S : x \notin O[Do(op, n)]) => NoneOwes(O, Each(op, InOrder(S)), x)
         /\ \A n \in S : x \in O[Do(op, n)] /\ (\A m \in S : x \in O[Do(op, m)] => m = n)
              => OneOwes(O, Each(op, InOrder(S)), x)
<1>1. S \in SUBSET Nodes
  BY FitFacts
<1>2. S \in SUBSET Nat /\ IsFiniteSet(S)
  BY <1>1, TreeNodes, FS_Subset
<1>3. PICK ns : ns = InOrder(S)
  OBVIOUS
<1>4. /\ ns \in Seq(S) /\ Elements(ns) = S
      /\ \A i, j \in DOMAIN ns : ns[i] = ns[j] => i = j
  BY <1>2, <1>3, InOrderFacts
<1> QED
  BY <1>3, <1>4, EachFits, EachOwes

LEMMA TopFacts ==
  ASSUME WellFormed(ast)
  PROVE  /\ Elements(Top) = KidsOf[1] /\ KidsOf[1] \subseteq Nodes
         /\ KidsOf[1] \subseteq Listed
         /\ Functions = {n \in KidsOf[1] : ast[n].kind = "func"}
         /\ ToFile = {n \in KidsOf[1] : Regular(n) /\ Marked(n)}
<1>1. 1 \in Nodes /\ ast[1].kind = "program"
  BY TreeNodes
<1>2. Elements(Top) = KidsOf[1]
  BY <1>1 DEF KidsOf, Top
<1>3. KidsOf[1] \subseteq Nodes
  BY <1>1, KidsFacts
<1>4. KidsOf[1] \subseteq Listed
  BY <1>1, IsListed DEF ListKinds
<1> QED
  BY <1>2, <1>3, <1>4 DEF Functions, ToFile, FileScope

AssignItems == Each("global", TopLevel({n \in Nodes : Regular(n) /\ Marked(n)}))

LEMMA AssignFits ==
  ASSUME WellFormed(ast), NEW x
  PROVE  /\ AssignItems \in Seq(Fit) /\ NoneOwes(RunBy, AssignItems, x)
         /\ \A d \in Nat \ {0} : Ladder(AssignItems, d, d)
         /\ x \in ToFile => OneOwes(OwedBy, AssignItems, x)
         /\ x \notin ToFile => NoneOwes(OwedBy, AssignItems, x)
<1>1. Elements(Top) \cap {n \in Nodes : Regular(n) /\ Marked(n)} = ToFile
  BY TopFacts
<1>2. AssignItems = Each("global", InOrder(ToFile))
  BY <1>1 DEF AssignItems, TopLevel
<1>3. ToFile \in SUBSET For("global") /\ "global" \in Ops
  BY DEF For, Ops
<1>4. \A n \in ToFile : OwedBy[Do("global", n)] = {n} /\ RunBy[Do("global", n)] = {}
  BY TopFacts, OwedAt, RunAt
<1>5. PICK s : s = Each("global", InOrder(ToFile))
  OBVIOUS
<1>6. s \in Seq(Fit) /\ \A d \in Nat \ {0} : Ladder(s, d, d)
  BY <1>3, <1>5, SpreadItems
<1>7. NoneOwes(RunBy, s, x)
  BY <1>3, <1>4, <1>5, SpreadItems
<1>8. x \notin ToFile => NoneOwes(OwedBy, s, x)
  BY <1>3, <1>4, <1>5, SpreadItems
<1>9. x \in ToFile => OneOwes(OwedBy, s, x)
  BY <1>3, <1>4, <1>5, SpreadItems
<1> QED
  BY <1>2, <1>5, <1>6, <1>7, <1>8, <1>9

LockItems == Each("worker", InOrder({n \in Met("workers") : ThreadedLoop(n)}))

LEMMA LockFits ==
  ASSUME WellFormed(ast), NEW x
  PROVE  /\ LockItems \in Seq(Fit) /\ NoneOwes(RunBy, LockItems, x)
         /\ \A d \in Nat \ {0} : Ladder(LockItems, d, d)
         /\ (\E n \in ToWorkers : x \in Within(Kid(n, 4))) => OneOwes(OwedBy, LockItems, x)
         /\ (\A n \in ToWorkers : x \notin Within(Kid(n, 4))) => NoneOwes(OwedBy, LockItems, x)
<1>1. LockItems = Each("worker", InOrder(ToWorkers))
  BY DEF LockItems, ToWorkers
<1>2. ToWorkers \subseteq Nodes /\ \A n \in ToWorkers : ThreadedLoop(n)
  BY MetFacts DEF ToWorkers
<1>3. ToWorkers \in SUBSET For("worker") /\ "worker" \in Ops
  BY <1>2 DEF For, Ops
<1>4. \A n \in ToWorkers : OwedBy[Do("worker", n)] = Within(Kid(n, 4)) /\ RunBy[Do("worker", n)] = {}
  BY <1>2, OwedAt, RunAt
<1>5. PICK s : s = Each("worker", InOrder(ToWorkers))
  OBVIOUS
<1>6. s \in Seq(Fit) /\ \A d \in Nat \ {0} : Ladder(s, d, d)
  BY <1>3, <1>5, SpreadItems
<1>7. NoneOwes(RunBy, s, x)
  BY <1>3, <1>4, <1>5, SpreadItems
<1>8. (\A n \in ToWorkers : x \notin Within(Kid(n, 4))) => NoneOwes(OwedBy, s, x)
  BY <1>3, <1>4, <1>5, SpreadItems
<1>9. ASSUME NEW n \in ToWorkers, x \in Within(Kid(n, 4)) PROVE OneOwes(OwedBy, s, x)
  <2>1. \A m \in ToWorkers : Apart(m) /\ Holds(m) = Within(Kid(m, 4))
    BY <1>2 DEF Apart, Holds, ThreadedLoop
  <2>2. \A m \in ToWorkers : x \in Within(Kid(m, 4)) => m = n
    BY <1>2, <1>9, <2>1, HeldOnce
  <2> QED
    BY <1>3, <1>4, <1>5, <1>9, <2>2, SpreadItems
<1> QED
  BY <1>1, <1>5, <1>6, <1>7, <1>8, <1>9

ForwardItems == Each("function", TopLevel(Functions))

LEMMA ForwardFits ==
  ASSUME WellFormed(ast), NEW x
  PROVE  /\ ForwardItems \in Seq(Fit) /\ NoneOwes(RunBy, ForwardItems, x)
         /\ \A d \in Nat \ {0} : Ladder(ForwardItems, d, d)
         /\ (\E n \in Functions : x \in {n} \cup Within(n)) => OneOwes(OwedBy, ForwardItems, x)
         /\ (\A n \in Functions : x \notin {n} \cup Within(n)) => NoneOwes(OwedBy, ForwardItems, x)
<1>1. Elements(Top) \cap Functions = Functions
  BY DEF Functions
<1>2. ForwardItems = Each("function", InOrder(Functions))
  BY <1>1 DEF ForwardItems, TopLevel
<1>3. Functions \in SUBSET For("function") /\ "function" \in Ops /\ Functions \subseteq Nodes
  BY TopFacts DEF For, Ops
<1>4. \A n \in Functions : OwedBy[Do("function", n)] = {n} \cup Within(n)
                           /\ RunBy[Do("function", n)] = {}
  BY <1>3, OwedAt, RunAt
<1>5. PICK s : s = Each("function", InOrder(Functions))
  OBVIOUS
<1>6. s \in Seq(Fit) /\ \A d \in Nat \ {0} : Ladder(s, d, d)
  BY <1>3, <1>5, SpreadItems
<1>7. NoneOwes(RunBy, s, x)
  BY <1>3, <1>4, <1>5, SpreadItems
<1>8. (\A n \in Functions : x \notin {n} \cup Within(n)) => NoneOwes(OwedBy, s, x)
  BY <1>3, <1>4, <1>5, SpreadItems
<1>9. ASSUME NEW n \in Functions, x \in {n} \cup Within(n) PROVE OneOwes(OwedBy, s, x)
  <2>1. \A m \in Functions : {m} \cup Within(m) \subseteq Under(m)
    BY <1>3, NearFacts, UnderFacts
  <2>2. \A m \in Functions : m \in KidsOf[1]
    BY TopFacts
  <2>3. \A m \in Functions : x \in {m} \cup Within(m) => m = n
    BY <1>9, <2>1, <2>2, KidsApart, TreeNodes
  <2> QED
    BY <1>3, <1>4, <1>5, <1>9, <2>3, SpreadItems
<1> QED
  BY <1>2, <1>5, <1>6, <1>7, <1>8, <1>9

WrapperItems == Each("wrapper", InOrder({n \in Met("wrappers") : ThreadUnit(n)}))
                  \o Each("child", InOrder({n \in Met("wrappers") : ProcessVar(n)}))

LEMMA WrapperFits ==
  ASSUME WellFormed(ast), NEW x
  PROVE  /\ WrapperItems \in Seq(Fit)
         /\ \A d \in Nat \ {0} : Ladder(WrapperItems, d, d)
         /\ (\E n \in ToWrappers : x \in OfBlock(n)) => OneOwes(OwedBy, WrapperItems, x)
         /\ (\A n \in ToWrappers : x \notin OfBlock(n)) => NoneOwes(OwedBy, WrapperItems, x)
         /\ x \in ToWrappers \cup ToChildren => OneOwes(RunBy, WrapperItems, x)
         /\ x \notin ToWrappers \cup ToChildren => NoneOwes(RunBy, WrapperItems, x)
<1> DEFINE s == Each("wrapper", InOrder(ToWrappers))
           t == Each("child", InOrder(ToChildren))
<1>1. WrapperItems = s \o t
  BY DEF WrapperItems, ToWrappers, ToChildren
<1>2. /\ ToWrappers \subseteq Nodes /\ ToChildren \subseteq Nodes
      /\ \A n \in ToWrappers : ThreadUnit(n)
      /\ \A n \in ToChildren : ProcessVar(n)
  BY MetFacts DEF ToWrappers, ToChildren
<1>3. /\ ToWrappers \in SUBSET For("wrapper") /\ "wrapper" \in Ops
      /\ ToChildren \in SUBSET For("child") /\ "child" \in Ops
  BY <1>2 DEF For, Ops
<1>4. /\ \A n \in ToWrappers : OwedBy[Do("wrapper", n)] = OfBlock(n)
                               /\ RunBy[Do("wrapper", n)] = {n}
      /\ \A n \in ToChildren : OwedBy[Do("child", n)] = {} /\ RunBy[Do("child", n)] = {n}
  BY <1>2, OwedAt, RunAt
<1> HIDE DEF s, t
<1>5. /\ s \in Seq(Fit) /\ \A d \in Nat \ {0} : Ladder(s, d, d)
      /\ t \in Seq(Fit) /\ \A d \in Nat \ {0} : Ladder(t, d, d)
  BY <1>3, SpreadItems DEF s, t
<1>6. (\A n \in ToWrappers : x \notin OfBlock(n)) => NoneOwes(OwedBy, s, x)
  BY <1>3, <1>4, SpreadItems DEF s
<1>7. ASSUME NEW n \in ToWrappers, x \in OfBlock(n) PROVE OneOwes(OwedBy, s, x)
  <2>1. \A m \in ToWrappers : x \in OfBlock(m) => Apart(m) /\ x \in Holds(m)
    BY DEF Apart, Holds, OfBlock
  <2>2. \A m \in ToWrappers : x \in OfBlock(m) => m = n
    BY <1>2, <1>7, <2>1, HeldOnce
  <2> QED
    BY <1>3, <1>4, <1>7, <2>2, SpreadItems DEF s
<1>8. NoneOwes(OwedBy, t, x)
  BY <1>3, <1>4, SpreadItems DEF t
<1>9. /\ x \in ToWrappers => OneOwes(RunBy, s, x)
      /\ x \notin ToWrappers => NoneOwes(RunBy, s, x)
  BY <1>3, <1>4, SpreadItems DEF s
<1>10. /\ x \in ToChildren => OneOwes(RunBy, t, x)
       /\ x \notin ToChildren => NoneOwes(RunBy, t, x)
  BY <1>3, <1>4, SpreadItems DEF t
<1>11. ~(x \in ToWrappers /\ x \in ToChildren)
  BY <1>2 DEF ThreadUnit, ProcessVar
<1>12. s \o t \in Seq(Fit)
  BY <1>5, ConcatProperties
<1>13. \A d \in Nat \ {0} : Ladder(s \o t, d, d)
  BY <1>5, LadderJoin
<1>14. /\ (\E n \in ToWrappers : x \in OfBlock(n)) => OneOwes(OwedBy, s \o t, x)
       /\ (\A n \in ToWrappers : x \notin OfBlock(n)) => NoneOwes(OwedBy, s \o t, x)
  BY <1>5, <1>6, <1>7, <1>8, JoinOwes
<1>15. /\ x \in ToWrappers \cup ToChildren => OneOwes(RunBy, s \o t, x)
       /\ x \notin ToWrappers \cup ToChildren => NoneOwes(RunBy, s \o t, x)
  BY <1>5, <1>9, <1>10, <1>11, JoinOwes
<1> QED
  BY <1>1, <1>12, <1>13, <1>14, <1>15

MainItems == Each("stmt", TopLevel({n \in Nodes : Regular(n) /\ ~Marked(n)}))
               \o Each("stmt", TopLevel({n \in Nodes : Parallel(n)}))
               \o Each("stmt", TopLevel({n \in Nodes : Rest(n)}))
               \o <<Do("close", 1)>>

(* Some statements of the top level, one after the other. *)
LEMMA ChosenFits ==
  ASSUME WellFormed(ast), NEW S \in SUBSET KidsOf[1],
         \A n \in S : ast[n].kind # "func", NEW x
  PROVE  /\ Each("stmt", InOrder(S)) \in Seq(Fit)
         /\ NoneOwes(RunBy, Each("stmt", InOrder(S)), x)
         /\ \A d \in Nat \ {0} : Ladder(Each("stmt", InOrder(S)), d, d)
         /\ (\E n \in S : x \in Near(n)) => OneOwes(OwedBy, Each("stmt", InOrder(S)), x)
         /\ (\A n \in S : x \notin Near(n)) => NoneOwes(OwedBy, Each("stmt", InOrder(S)), x)
<1>1. S \in SUBSET For("stmt") /\ "stmt" \in Ops /\ S \subseteq Nodes
  <2>1. For("stmt") = Statements
    BY DEF For
  <2> QED
    BY <2>1, TopFacts DEF Statements, Ops
<1>2. \A n \in S : OwedBy[Do("stmt", n)] = Near(n) /\ RunBy[Do("stmt", n)] = {}
  BY <1>1, OwedAt, RunAt
<1>3. \A n, m \in S : x \in Near(n) /\ x \in Near(m) => n = m
  BY NearFacts, TreeNodes
<1> QED
  BY <1>1, <1>2, <1>3, SpreadItems

LEMMA MainFits ==
  ASSUME WellFormed(ast), NEW x
  PROVE  /\ MainItems \in Seq(Fit) /\ NoneOwes(RunBy, MainItems, x)
         /\ \A d \in Nat \ {0} : Ladder(MainItems, d + 1, d)
         /\ (\E n \in ToMain : x \in Near(n)) => OneOwes(OwedBy, MainItems, x)
         /\ (\A n \in ToMain : x \notin Near(n)) => NoneOwes(OwedBy, MainItems, x)
<1> DEFINE A == {n \in KidsOf[1] : Regular(n) /\ ~Marked(n)}
           B == {n \in KidsOf[1] : Parallel(n)}
           C == {n \in KidsOf[1] : Rest(n)}
           a == Each("stmt", InOrder(A))
           b == Each("stmt", InOrder(B))
           c == Each("stmt", InOrder(C))
           d == <<Do("close", 1)>>
           ab == a \o b
           abc == ab \o c
<1>1. MainItems = abc \o d
  <2>1. /\ Elements(Top) \cap {n \in Nodes : Regular(n) /\ ~Marked(n)} = A
        /\ Elements(Top) \cap {n \in Nodes : Parallel(n)} = B
        /\ Elements(Top) \cap {n \in Nodes : Rest(n)} = C
    BY TopFacts
  <2> HIDE DEF A, B, C
  <2> QED
    BY <2>1 DEF MainItems, TopLevel
<1>2. /\ \A n \in A : ast[n].kind # "func"
      /\ \A n \in B : ast[n].kind # "func"
      /\ \A n \in C : ast[n].kind # "func"
  BY DEF Regular, Parallel, Rest
<1>3. A \in SUBSET KidsOf[1] /\ B \in SUBSET KidsOf[1] /\ C \in SUBSET KidsOf[1]
  OBVIOUS
<1>4. ToMain = (A \cup B) \cup C
  BY DEF ToMain
<1>5. A \cap B = {} /\ (A \cup B) \cap C = {}
  BY DEF Regular, Parallel, Rest
<1>6. \A n, m \in ToMain : x \in Near(n) /\ x \in Near(m) => n = m
  BY <1>3, <1>4, NearFacts, TreeNodes
<1> HIDE DEF A, B, C
<1>7. /\ a \in Seq(Fit) /\ NoneOwes(RunBy, a, x) /\ \A e \in Nat \ {0} : Ladder(a, e, e)
      /\ (\E n \in A : x \in Near(n)) => OneOwes(OwedBy, a, x)
      /\ (\A n \in A : x \notin Near(n)) => NoneOwes(OwedBy, a, x)
  BY <1>2, <1>3, ChosenFits
<1>8. /\ b \in Seq(Fit) /\ NoneOwes(RunBy, b, x) /\ \A e \in Nat \ {0} : Ladder(b, e, e)
      /\ (\E n \in B : x \in Near(n)) => OneOwes(OwedBy, b, x)
      /\ (\A n \in B : x \notin Near(n)) => NoneOwes(OwedBy, b, x)
  BY <1>2, <1>3, ChosenFits
<1>9. /\ c \in Seq(Fit) /\ NoneOwes(RunBy, c, x) /\ \A e \in Nat \ {0} : Ladder(c, e, e)
      /\ (\E n \in C : x \in Near(n)) => OneOwes(OwedBy, c, x)
      /\ (\A n \in C : x \notin Near(n)) => NoneOwes(OwedBy, c, x)
  BY <1>2, <1>3, ChosenFits
<1>10. /\ d \in Seq(Fit) /\ NoneOwes(RunBy, d, x) /\ NoneOwes(OwedBy, d, x)
       /\ \A e \in Nat \ {0} : Ladder(d, e + 1, e)
  <2>1. 1 \in For("close") /\ "close" \in Ops
    BY TreeNodes DEF For, Ops
  <2>2. OwedBy[Do("close", 1)] = {} /\ RunBy[Do("close", 1)] = {}
    BY TreeNodes, OwedAt, RunAt
  <2> QED
    BY <2>1, <2>2, OneFits, ItemOwes
<1> HIDE DEF a, b, c, d
<1>11. /\ ab \in Seq(Fit) /\ NoneOwes(RunBy, ab, x) /\ \A e \in Nat \ {0} : Ladder(ab, e, e)
       /\ (\E n \in A \cup B : x \in Near(n)) => OneOwes(OwedBy, ab, x)
       /\ (\A n \in A \cup B : x \notin Near(n)) => NoneOwes(OwedBy, ab, x)
  <2>1. ab \in Seq(Fit) /\ NoneOwes(RunBy, ab, x)
    BY <1>7, <1>8, ConcatProperties, JoinOwes
  <2>2. \A e \in Nat \ {0} : Ladder(ab, e, e)
    BY <1>7, <1>8, LadderJoin
  <2>3. \A n \in A, m \in B : ~(x \in Near(n) /\ x \in Near(m))
    BY <1>4, <1>5, <1>6
  <2>4. (\E n \in A \cup B : x \in Near(n)) => OneOwes(OwedBy, ab, x)
    BY <1>7, <1>8, <2>3, JoinOwes
  <2>5. (\A n \in A \cup B : x \notin Near(n)) => NoneOwes(OwedBy, ab, x)
    BY <1>7, <1>8, JoinOwes
  <2> QED
    BY <2>1, <2>2, <2>4, <2>5
<1> HIDE DEF ab
<1>12. /\ abc \in Seq(Fit) /\ NoneOwes(RunBy, abc, x) /\ \A e \in Nat \ {0} : Ladder(abc, e, e)
       /\ (\E n \in ToMain : x \in Near(n)) => OneOwes(OwedBy, abc, x)
       /\ (\A n \in ToMain : x \notin Near(n)) => NoneOwes(OwedBy, abc, x)
  <2>1. abc \in Seq(Fit) /\ NoneOwes(RunBy, abc, x)
    BY <1>9, <1>11, ConcatProperties, JoinOwes
  <2>2. \A e \in Nat \ {0} : Ladder(abc, e, e)
    BY <1>9, <1>11, LadderJoin
  <2>3. \A n \in A \cup B, m \in C : ~(x \in Near(n) /\ x \in Near(m))
    BY <1>4, <1>5, <1>6
  <2>4. (\E n \in ToMain : x \in Near(n)) => OneOwes(OwedBy, abc, x)
    BY <1>4, <1>9, <1>11, <2>3, JoinOwes
  <2>5. (\A n \in ToMain : x \notin Near(n)) => NoneOwes(OwedBy, abc, x)
    BY <1>4, <1>9, <1>11, JoinOwes
  <2> QED
    BY <2>1, <2>2, <2>4, <2>5
<1> HIDE DEF abc
<1>13. abc \o d \in Seq(Fit) /\ NoneOwes(RunBy, abc \o d, x)
  BY <1>10, <1>12, ConcatProperties, JoinOwes
<1>14. \A e \in Nat \ {0} : Ladder(abc \o d, e + 1, e)
  <2>1. \A e \in Nat \ {0} : e + 1 \in Nat \ {0}
    OBVIOUS
  <2> QED
    BY <1>10, <1>12, <2>1, LadderJoin
<1>15. /\ (\E n \in ToMain : x \in Near(n)) => OneOwes(OwedBy, abc \o d, x)
       /\ (\A n \in ToMain : x \notin Near(n)) => NoneOwes(OwedBy, abc \o d, x)
  BY <1>10, <1>12, JoinOwes
<1> QED
  BY <1>1, <1>13, <1>14, <1>15

-----------------------------------------------------------------------------
(* Where the walk does not leave something out, the passes owe each        *)
(* statement once, and each parallel call or block one wrapper.            *)

Simple == NoElseIf /\ NoUnitIn({"thread"}) /\ FunctionsAtTop

StartItems == <<Do("assign", 1), Do("locks", 1), Do("forward", 1),
                Do("wrappers", 1), Do("main", 1)>>

LEMMA UnitMet ==
  ASSUME WellFormed(ast), Simple, NEW x \in Units, NEW pass \in {"workers", "wrappers"}
  PROVE  x \in Met(pass)
<1>1. x \in Listed
  BY DEF Units, Calling, Loops
<1>2. ASSUME NEW c \in Nodes, ast[c].kind = "thread", x \in Under(c), x # c PROVE FALSE
  <2>1. c \in Listed
    BY <1>2, StandsInList
  <2>2. c \in Units
    BY <1>2, <2>1 DEF Units, Calling, ThreadUnit
  <2>3. Units \cap Inner(c) = {}
    BY <1>2, <2>2 DEF Simple, NoUnitIn
  <2> QED
    BY <1>2, <2>3 DEF Inner
<1> QED
  BY <1>1, <1>2, MetListed

LEMMA HeldNotTop ==
  ASSUME WellFormed(ast), NEW c \in Nodes, Apart(c), NEW x \in Holds(c),
         NEW k \in KidsOf[1], x \in Near(k)
  PROVE  FALSE
<1>1. x \in Under(c) /\ x # c
  BY HeldUnder
<1>2. c # 1
  BY TreeNodes DEF Apart, ThreadedLoop
<1>3. PICK l \in KidsOf[1] : c \in Under(l)
  BY <1>2, AllUnderProgram, UnderFacts, TreeNodes
<1>4. k \in Nodes /\ l \in Nodes
  BY TopFacts
<1>5. x \in Under(l) /\ x \in Under(k)
  BY <1>1, <1>3, <1>4, UnderFacts DEF Near
<1>6. l = k
  BY <1>3, <1>5, KidsApart, TreeNodes
<1> QED
  BY <1>1, <1>3, <1>6 DEF Near

LEMMA StartItemsAt ==
  /\ DOMAIN StartItems = {1, 2, 3, 4, 5} /\ Len(StartItems) = 5
  /\ StartItems[1] = Do("assign", 1) /\ StartItems[2] = Do("locks", 1)
  /\ StartItems[3] = Do("forward", 1) /\ StartItems[4] = Do("wrappers", 1)
  /\ StartItems[5] = Do("main", 1)
BY DEF StartItems

LEMMA StartOwes ==
  ASSUME WellFormed(ast), Simple, NEW x \in Listed
  PROVE  OneOwes(OwedBy, StartItems, x)
<1> DEFINE P1 == x \in ToFile
           P2 == \E n \in ToWorkers : x \in Within(Kid(n, 4))
           P3 == \E n \in Functions : x \in {n} \cup Within(n)
           P4 == \E n \in ToWrappers : x \in OfBlock(n)
           P5 == \E n \in ToMain : x \in Near(n)
<1>1. /\ ToWorkers \subseteq Nodes /\ ToWrappers \subseteq Nodes
      /\ Functions \subseteq KidsOf[1] /\ ToFile \subseteq KidsOf[1]
      /\ ToMain \subseteq KidsOf[1] /\ KidsOf[1] \subseteq Nodes
  BY MetFacts, TopFacts DEF ToWorkers, ToWrappers, ToMain
<1>2. \A n \in ToWorkers : Apart(n) /\ Holds(n) = Within(Kid(n, 4)) /\ ast[n].kind = "for"
  BY DEF ToWorkers, Apart, Holds, ThreadedLoop
<1>3. \A n \in ToWrappers : x \in OfBlock(n) =>
        Apart(n) /\ Holds(n) = OfBlock(n) /\ ast[n].kind = "thread"
  BY DEF OfBlock, Apart, Holds
<1>4. \A n \in Functions : Apart(n) /\ Holds(n) = Within(n) /\ ast[n].kind = "func"
  BY DEF Functions, Apart, Holds
<1>5. \A n \in KidsOf[1] : n \in Near(n)
  BY <1>1, NearFacts
<1>6. ASSUME NEW c \in Nodes, Apart(c), x \in Holds(c)
      PROVE  /\ ~P1 /\ ~P5
             /\ P2 <=> c \in ToWorkers
             /\ P3 <=> c \in Functions
             /\ P4 <=> c \in ToWrappers /\ ast[c].kind = "thread"
  <2>1. \A k \in KidsOf[1] : x \notin Near(k)
    BY <1>6, HeldNotTop
  <2>2. ~P1 /\ ~P5
    BY <1>1, <1>5, <2>1
  <2>3. \A d \in Nodes : Apart(d) /\ x \in Holds(d) => d = c
    BY <1>6, HeldOnce
  <2>4. P2 <=> c \in ToWorkers
    BY <1>1, <1>2, <1>6, <2>3
  <2>5. P3 <=> c \in Functions
    <3>1. \A n \in Functions : x # n
      BY <1>1, <1>5, <2>1
    <3> QED
      BY <1>1, <1>4, <1>6, <2>3, <3>1
  <2>6. P4 <=> c \in ToWrappers /\ ast[c].kind = "thread"
    <3>1. ast[c].kind = "thread" => OfBlock(c) = Holds(c)
      BY DEF OfBlock, Holds
    <3> QED
      BY <1>1, <1>3, <1>6, <2>3, <3>1
  <2> HIDE DEF P1, P2, P3, P4, P5
  <2> QED
    BY <2>2, <2>4, <2>5, <2>6
<1>7. ASSUME NEW k \in KidsOf[1], x \in Near(k)
      PROVE  /\ ~P2 /\ ~P4
             /\ P1 <=> k \in ToFile
             /\ P3 <=> k \in Functions
             /\ P5 <=> k \in ToMain
  <2>1. \A c \in Nodes : Apart(c) => x \notin Holds(c)
    BY <1>7, HeldNotTop
  <2>2. \A l \in KidsOf[1] : x \in Near(l) => l = k
    BY <1>7, NearFacts, TreeNodes
  <2>3. ~P2 /\ ~P4
    BY <1>1, <1>2, <1>3, <2>1
  <2>4. P3 <=> k \in Functions
    <3>1. P3 => x \in Functions
      BY <1>1, <1>4, <2>1
    <3>2. x \in Functions => x = k
      BY <1>1, <1>5, <2>2
    <3>3. k \in Functions => x = k
      BY <1>1, <1>4, <1>7, NearApart
    <3> QED
      BY <3>1, <3>2, <3>3
  <2>5. P1 <=> k \in ToFile
    <3>1. P1 => x = k
      BY <1>1, <1>5, <2>2
    <3>2. k \in ToFile => ast[k].kind \in Plain
      BY DEF ToFile, FileScope, Regular, Plain
    <3>3. k \in ToFile => x = k
      BY <1>1, <1>7, <3>2, NearPlain
    <3> QED
      BY <3>1, <3>3
  <2>6. P5 <=> k \in ToMain
    BY <1>1, <1>7, <2>2
  <2> HIDE DEF P1, P2, P3, P4, P5
  <2> QED
    BY <2>3, <2>4, <2>5, <2>6
<1> DEFINE One == \/ P1 /\ ~P2 /\ ~P3 /\ ~P4 /\ ~P5
                  \/ P2 /\ ~P1 /\ ~P3 /\ ~P4 /\ ~P5
                  \/ P3 /\ ~P1 /\ ~P2 /\ ~P4 /\ ~P5
                  \/ P4 /\ ~P1 /\ ~P2 /\ ~P3 /\ ~P5
                  \/ P5 /\ ~P1 /\ ~P2 /\ ~P3 /\ ~P4
<1> HIDE DEF P1, P2, P3, P4, P5
<1>8. ASSUME NEW c \in Nodes, Apart(c), x \in Holds(c) PROVE One
  <2>1. ast[c].kind \in {"func", "thread", "for"} /\ c \in Listed
    BY <1>8, StandsInList DEF Apart, ThreadedLoop
  <2>2. CASE ast[c].kind = "func"
    <3>1. c \in Functions
      BY <2>2 DEF Simple, FunctionsAtTop, Of
    <3>2. c \notin ToWorkers
      BY <1>2, <2>2
    <3> QED
      BY <1>6, <1>8, <2>2, <3>1, <3>2
  <2>3. CASE ast[c].kind = "thread"
    <3>1. c \in Units /\ ThreadUnit(c)
      BY <2>1, <2>3 DEF Units, Calling, ThreadUnit
    <3>2. c \in ToWrappers
      BY <3>1, UnitMet DEF ToWrappers
    <3>3. c \notin Functions /\ c \notin ToWorkers
      BY <1>2, <1>4, <2>3
    <3> QED
      BY <1>6, <1>8, <2>3, <3>2, <3>3
  <2>4. CASE ast[c].kind = "for"
    <3>1. c \in Units /\ ThreadedLoop(c)
      BY <1>8, <2>1, <2>4 DEF Units, Loops, Apart
    <3>2. c \in ToWorkers
      BY <3>1, UnitMet DEF ToWorkers
    <3>3. c \notin Functions
      BY <1>4, <2>4
    <3> QED
      BY <1>6, <1>8, <2>4, <3>2, <3>3
  <2> QED
    BY <2>1, <2>2, <2>3, <2>4
<1>9. ASSUME NEW k \in KidsOf[1], x \in Near(k) PROVE One
  <2>1. ast[k].kind \in StmtKinds /\ k \in Nodes
    BY TopFacts, ListedFacts
  <2>2. k \in ToFile \/ k \in Functions \/ k \in ToMain
    BY <1>9, <2>1, TopFacts, NodeShape DEF ToMain, Rest, Regular, Parallel, ParallelTypes
  <2>3. /\ k \in ToFile => k \notin Functions /\ k \notin ToMain
        /\ k \in Functions => k \notin ToMain
    BY TopFacts DEF ToMain, Rest, Regular, Parallel
  <2> QED
    BY <1>7, <1>9, <2>2, <2>3
<1>10. One
  BY <1>8, <1>9, HeldSomewhere
<1>11. /\ OwedBy[Do("assign", 1)] = ToFile
       /\ OwedBy[Do("locks", 1)] = UNION {Within(Kid(n, 4)) : n \in ToWorkers}
       /\ OwedBy[Do("forward", 1)] = UNION {{n} \cup Within(n) : n \in Functions}
       /\ OwedBy[Do("wrappers", 1)] = UNION {OfBlock(n) : n \in ToWrappers}
       /\ OwedBy[Do("main", 1)] = UNION {Near(n) : n \in ToMain}
  BY TreeNodes, OwedAt
<1>12. /\ x \in OwedBy[StartItems[1]] <=> P1
       /\ x \in OwedBy[StartItems[2]] <=> P2
       /\ x \in OwedBy[StartItems[3]] <=> P3
       /\ x \in OwedBy[StartItems[4]] <=> P4
       /\ x \in OwedBy[StartItems[5]] <=> P5
  BY <1>11, StartItemsAt DEF P1, P2, P3, P4, P5
<1>13. DOMAIN StartItems = {1, 2, 3, 4, 5}
  BY StartItemsAt
<1> QED
  BY <1>10, <1>12, <1>13 DEF OneOwes

LEMMA StartRuns ==
  ASSUME WellFormed(ast), Simple, NEW x \in Calling
  PROVE  OneOwes(RunBy, StartItems, x)
<1>1. x \in ToWrappers \cup ToChildren
  BY UnitMet DEF Units, Calling, ToWrappers, ToChildren
<1>2. /\ RunBy[Do("assign", 1)] = {} /\ RunBy[Do("locks", 1)] = {}
      /\ RunBy[Do("forward", 1)] = {} /\ RunBy[Do("main", 1)] = {}
      /\ RunBy[Do("wrappers", 1)] = ToWrappers \cup ToChildren
  BY TreeNodes, RunAt
<1>3. /\ x \in RunBy[StartItems[4]] /\ x \notin RunBy[StartItems[1]]
      /\ x \notin RunBy[StartItems[2]] /\ x \notin RunBy[StartItems[3]]
      /\ x \notin RunBy[StartItems[5]]
  BY <1>1, <1>2, StartItemsAt
<1>4. DOMAIN StartItems = {1, 2, 3, 4, 5}
  BY StartItemsAt
<1> QED
  BY <1>3, <1>4 DEF OneOwes

LEMMA StartFits ==
  ASSUME WellFormed(ast)
  PROVE  StartItems \in Seq(Fit) /\ Ladder(StartItems, 1, 1)
<1>1. \A op \in {"assign", "locks", "forward", "wrappers", "main"} :
        op \in Ops /\ For(op) = Nodes
  BY DEF For, Ops
<1>2. \A op \in {"assign", "locks", "forward", "wrappers", "main"} :
        Do(op, 1) \in Fit /\ Closes(Do(op, 1)) = 0
  BY <1>1, TreeNodes, FitFacts DEF Closes, Do
<1>3. StartItems \in Seq(Fit)
  BY <1>2 DEF StartItems
<1>4. \A i \in 1 .. Len(StartItems) : i \in {1, 2, 3, 4, 5}
  BY StartItemsAt
<1>5. \A i \in 1 .. Len(StartItems) : Closes(StartItems[i]) = 0
  BY <1>2, <1>4, StartItemsAt
<1> QED
  BY <1>3, <1>5, LadderFlat

-----------------------------------------------------------------------------
(* The walk leaves the tree alone, and all that is said of it. *)

LEMMA ShapeKept ==
  ASSUME UNCHANGED input
  PROVE  /\ UNCHANGED <<Nodes, Listed, Calling, Items, Functions, KidsOf>>
         /\ \A n : Under(n)' = Under(n)
         /\ \A n : Elements(ast[n].kids)' = Elements(ast[n].kids)
         /\ (Simple <=> Simple')
<1>1. UNCHANGED <<ast, isShared, captured, bound>>
  BY DEF input
<1>2. Nodes' = Nodes /\ Items' = Items
  BY <1>1 DEF Nodes, Items
<1>3. Listed' = Listed
  BY <1>1 DEF Nodes, Listed, Elements
<1>4. Calling' = Calling
  BY <1>1, <1>3 DEF Calling, ThreadUnit, ProcessVar
<1>5. \A n : Under(n)' = Under(n)
  BY <1>1 DEF Under, Elements
<1>6. \A n : Elements(ast[n].kids)' = Elements(ast[n].kids)
  BY <1>1 DEF Elements
<1>7. Functions' = Functions
  BY <1>1 DEF Functions, Top, Elements
<1>8. Units' = Units
  BY <1>1, <1>3, <1>4 DEF Units, Loops, ThreadedLoop
<1>9. NoElseIf <=> NoElseIf'
  BY <1>1 DEF NoElseIf, Of, Nodes, Elements
<1>10. FunctionsAtTop <=> FunctionsAtTop'
  BY <1>1, <1>7 DEF FunctionsAtTop, Of, Nodes
<1>11. NoUnitIn({"thread"}) <=> NoUnitIn({"thread"})'
  <2>1. \A n : Inner(n)' = Inner(n)
    BY <1>5 DEF Inner
  <2> QED
    BY <1>1, <1>8, <2>1 DEF NoUnitIn
<1>12. KidsOf' = KidsOf
  BY <1>1 DEF KidsOf, Nodes, Elements
<1> QED
  BY <1>2, <1>3, <1>4, <1>5, <1>6, <1>7, <1>9, <1>10, <1>11, <1>12 DEF Simple

LEMMA OwedKept ==
  ASSUME UNCHANGED input
  PROVE  UNCHANGED <<OwedBy, RunBy, Fit>>
<1>1. UNCHANGED <<ast, isShared, captured, bound>>
  BY DEF input
<1>2. /\ UNCHANGED <<Nodes, Listed, Calling, Items, Functions, KidsOf>>
      /\ \A n : Under(n)' = Under(n)
  BY ShapeKept
<1>3. \A n : (Apart(n)' <=> Apart(n))
  BY <1>1 DEF Apart, ThreadedLoop
<1>4. \A n : Near(n)' = Near(n)
  BY <1>2, <1>3 DEF Near
<1>5. \A n : Within(n)' = Within(n)
  BY <1>2, <1>4 DEF Within
<1>6. \A n, i : Kid(n, i)' = Kid(n, i)
  BY <1>1 DEF Kid
<1>7. \A pass : Met(pass)' = Met(pass)
  BY <1>1 DEF Met, Below, Elements
<1>8. ToWorkers' = ToWorkers
  BY <1>1, <1>7 DEF ToWorkers, ThreadedLoop
<1>9. ToWrappers' = ToWrappers
  BY <1>1, <1>7 DEF ToWrappers, ThreadUnit
<1>10. ToChildren' = ToChildren
  BY <1>1, <1>7 DEF ToChildren, ProcessVar
<1>11. ToFile' = ToFile
  BY <1>1, <1>2 DEF ToFile, FileScope, Regular, Marked, Top, Elements
<1>12. ToMain' = ToMain
  BY <1>1, <1>2 DEF ToMain, Regular, Marked, Parallel, Rest
<1>13. \A n : OfBlock(n)' = OfBlock(n)
  BY <1>1, <1>5 DEF OfBlock
<1>14. ASSUME NEW w PROVE Owed(w)' = Owed(w)
  BY <1>2, <1>4, <1>5, <1>6, <1>8, <1>9, <1>11, <1>12, <1>13 DEF Owed
<1>15. ASSUME NEW w PROVE Runs(w)' = Runs(w)
  BY <1>9, <1>10 DEF Runs
<1>16. OwedBy' = OwedBy
  BY <1>2, <1>14 DEF OwedBy
<1>17. RunBy' = RunBy
  BY <1>2, <1>15 DEF RunBy
<1>18. Statements' = Statements
  BY <1>1, <1>2 DEF Statements, Of, FunctionsAtTop, Kid
<1>19. Branches' = Branches
  BY <1>1, <1>2 DEF Branches, Of
<1>20. Of("for")' = Of("for")
  BY <1>1 DEF Of, Nodes
<1>21. ASSUME NEW op PROVE For(op)' = For(op)
  BY <1>1, <1>2, <1>11, <1>18, <1>19, <1>20 DEF For, ThreadedLoop, ThreadUnit, ProcessVar
<1>22. Fit' = Fit
  BY <1>2, <1>21 DEF Fit
<1> QED
  BY <1>16, <1>17, <1>22

-----------------------------------------------------------------------------
(* The invariant *)

Accounts ==
  Simple =>
    /\ \A x \in Listed  : HasText(x) => Settled(OwedBy, todo, emitted[x], x)
    /\ \A x \in Calling : Answers(x) => Settled(RunBy, todo, invoked[x], x)

EmissionInv ==
  /\ Input /\ EmissionTypeOK /\ todo \in Seq(Fit)
  /\ \E d \in Nat \ {0} : Blocks(text, d) /\ Ladder(todo, d, 1)
  /\ gen = "idle" => todo = <<>>
  /\ gen = "done" => todo = <<>>
  /\ gen \in {"running", "done"} => Accounts

(* The blocks that the new text has open are those the new items shut. *)
BlocksFit(items) ==
  \A d \in Nat \ {0} :
    d + Closes(todo[1]) \in Nat \ {0} /\ Blocks(text, d + Closes(todo[1])) =>
      \E e \in Nat \ {0} : Blocks(text', e) /\ Ladder(items, e, d)

(* What an action does that has the items in place of the next one. *)
Replaces(items) ==
  /\ items \in Seq(Fit) /\ todo' = items \o Tail(todo)
  /\ BlocksFit(items)
  /\ Simple => \A x \in Listed : HasText(x) =>
                 HandsOn(OwedBy, todo[1], items, emitted[x], emitted'[x], x)
  /\ \A x \in Calling : Answers(x) =>
       HandsOn(RunBy, todo[1], items, invoked[x], invoked'[x], x)

LEMMA TextKept ==
  ASSUME UNCHANGED input
  PROVE  \A x : (HasText(x) <=> HasText(x)') /\ (Answers(x) <=> Answers(x)')
<1>1. UNCHANGED <<ast, isShared, captured, bound>>
  BY DEF input
<1>2. Functions' = Functions
  BY ShapeKept
<1>3. \A x : HasText(x) <=> HasText(x)'
  BY <1>1 DEF HasText, Kid
<1>4. \A f : ReturnsVoid(f) <=> ReturnsVoid(f)'
  BY <1>1, <1>2 DEF ReturnsVoid, FirstNamed
<1>5. \A x : ast[CallOf(x)].name = (ast[CallOf(x)].name)'
  BY <1>1 DEF CallOf, Kid
<1>6. \A x : Answers(x) <=> Answers(x)'
  BY <1>1, <1>4, <1>5 DEF Answers
<1> QED
  BY <1>3, <1>6

LEMMA InputKept == Input /\ UNCHANGED input => Input'
BY DEF Input, Annotated, input


LEMMA Advance ==
  ASSUME EmissionInv, gen = "running", UNCHANGED input, todo # <<>>,
         NEW items, Replaces(items)
  PROVE  /\ todo' \in Seq(Fit') /\ todo' \in Seq(Items)
         /\ \E d \in Nat \ {0} : Blocks(text', d) /\ Ladder(todo', d, 1)
         /\ text'.env # <<>>
         /\ Accounts'
<1>1. /\ WellFormed(ast) /\ todo \in Seq(Fit) /\ Accounts
      /\ items \in Seq(Fit) /\ todo' = items \o Tail(todo)
  BY DEF EmissionInv, Replaces, Input, Annotated
<1>2. PICK d \in Nat \ {0} : Blocks(text, d) /\ Ladder(todo, d, 1)
  BY DEF EmissionInv
<1>3. PICK c \in Nat \ {0} : d = c + Closes(todo[1]) /\ Ladder(Tail(todo), c, 1)
  BY <1>1, <1>2, LadderTail
<1>4. PICK e \in Nat \ {0} : Blocks(text', e) /\ Ladder(items, e, c)
  BY <1>2, <1>3 DEF Replaces, BlocksFit
<1>5. Tail(todo) \in Seq(Fit)
  BY <1>1, HeadTailProperties
<1>6. Ladder(todo', e, 1)
  BY <1>1, <1>3, <1>4, <1>5, LadderJoin
<1>7. todo' \in Seq(Fit) /\ todo' \in Seq(Items)
  BY <1>1, <1>5, ConcatProperties, SeqMonotonic, FitFacts
<1>8. Fit' = Fit /\ OwedBy' = OwedBy /\ RunBy' = RunBy
  BY OwedKept
<1>9. text'.env # <<>>
  BY <1>4, BlocksLen
<1>10. ASSUME Simple, NEW x \in Listed, HasText(x)
       PROVE  Settled(OwedBy, todo', emitted'[x], x)
  <2>1. Settled(OwedBy, todo, emitted[x], x)
    BY <1>1, <1>10 DEF Accounts
  <2>2. HandsOn(OwedBy, todo[1], items, emitted[x], emitted'[x], x)
    BY <1>10 DEF Replaces
  <2> QED
    BY <1>1, <2>1, <2>2, StaysSettled
<1>11. ASSUME Simple, NEW x \in Calling, Answers(x)
       PROVE  Settled(RunBy, todo', invoked'[x], x)
  <2>1. Settled(RunBy, todo, invoked[x], x)
    BY <1>1, <1>11 DEF Accounts
  <2>2. HandsOn(RunBy, todo[1], items, invoked[x], invoked'[x], x)
    BY <1>11 DEF Replaces
  <2> QED
    BY <1>1, <2>1, <2>2, StaysSettled
<1>12. Accounts'
  <2>1. (Simple <=> Simple') /\ Listed' = Listed /\ Calling' = Calling
    BY ShapeKept
  <2>2. \A x : (HasText(x) <=> HasText(x)') /\ (Answers(x) <=> Answers(x)')
    BY TextKept
  <2>3. /\ Simple => \A x \in Listed : HasText(x) => Settled(OwedBy', todo', emitted'[x], x)
        /\ Simple => \A x \in Calling : Answers(x) => Settled(RunBy', todo', invoked'[x], x)
    BY <1>8, <1>10, <1>11
  <2> QED
    BY <2>1, <2>2, <2>3 DEF Accounts, Settled, NoneOwes, OneOwes
<1> QED
  BY <1>4, <1>6, <1>7, <1>8, <1>9, <1>12

-----------------------------------------------------------------------------
(* The actions *)

LEMMA HeadItem ==
  ASSUME EmissionInv, NEW op, At(op)
  PROVE  /\ WellFormed(ast) /\ gen = "running" /\ todo # <<>>
         /\ todo \in Seq(Fit) /\ todo[1] = Do(op, this) /\ op \in Ops
         /\ this \in Nodes /\ this \in For(op)
<1>1. todo \in Seq(Fit) /\ WellFormed(ast)
  BY DEF EmissionInv, Input, Annotated
<1>2. gen = "running" /\ todo # <<>> /\ todo[1].op = op
  BY DEF At
<1>3. todo[1] \in Fit
  BY <1>1, <1>2
<1>4. op \in Ops /\ this \in For(op) /\ this \in Nodes /\ todo[1] = Do(op, this)
  BY <1>1, <1>2, <1>3, FitFacts DEF this
<1> QED
  BY <1>1, <1>2, <1>4

Tables ==
  /\ processVars \in Seq(Names) /\ Len(processVars) <= MaxProcessVars
  /\ names \in Seq(Names) /\ Len(names) <= MaxCaptured
  /\ count \in 0 .. Len(names) /\ saved \in 0 .. Len(names)
  /\ nextWorker \in Nat \ {0}
  /\ wrapperOf \in [Nodes -> Nat] /\ processOf \in [Nodes -> Nat]
  /\ workerOf \in [Nodes -> Nat]
  /\ emitted \in [Nodes -> Nat] /\ invoked \in [Nodes -> Nat]

(* What is shown of each action that goes on with the walk. *)
Moves == UNCHANGED <<input, gen>> /\ Tables' /\ \E items : Replaces(items)

LEMMA TablesHere == EmissionInv /\ gen # "idle" => Tables
BY DEF EmissionInv, EmissionTypeOK, Tables

LEMMA MovesKeep ==
  ASSUME EmissionInv, NEW op, At(op), Moves
  PROVE  EmissionInv'
<1>1. gen = "running" /\ todo # <<>> /\ gen' = "running" /\ UNCHANGED input
  BY HeadItem DEF Moves
<1>2. PICK items : Replaces(items)
  BY DEF Moves
<1>3. /\ todo' \in Seq(Fit') /\ todo' \in Seq(Items)
      /\ \E d \in Nat \ {0} : Blocks(text', d) /\ Ladder(todo', d, 1)
      /\ text'.env # <<>> /\ Accounts'
  BY <1>1, <1>2, Advance
<1>4. Input'
  BY <1>1, InputKept DEF EmissionInv
<1>5. EmissionTypeOK'
  <2>1. Items' = Items
    BY <1>1, ShapeKept
  <2>2. Tables' /\ gen' = "running"
    BY <1>1 DEF Moves
  <2> QED
    BY <1>3, <2>1, <2>2 DEF EmissionTypeOK, Tables
<1>6. (\E d \in Nat \ {0} : Blocks(text, d) /\ Ladder(todo, d, 1))'
  BY <1>3 DEF Blocks, Ladder, Closes
<1> QED
  BY <1>1, <1>3, <1>4, <1>5, <1>6 DEF EmissionInv

LEMMA SameTablesKept ==
  ASSUME EmissionInv, gen = "running", SameTables,
         emitted' \in [Nodes -> Nat], invoked' \in [Nodes -> Nat]
  PROVE  UNCHANGED <<input, gen>> /\ Tables'
<1>1. Tables /\ UNCHANGED <<input, gen, numbers, capture, nextWorker, workerOf>>
  BY TablesHere DEF SameTables
<1>2. Nodes' = Nodes
  BY <1>1, ShapeKept
<1> QED
  BY <1>1, <1>2 DEF Tables, numbers, capture

(* A statement written once. *)
LEMMA OnceCounts ==
  ASSUME EmissionInv, gen = "running", NEW n \in Nodes, Once(n)
  PROVE  /\ emitted' \in [Nodes -> Nat] /\ emitted'[n] = emitted[n] + 1
         /\ \A x \in Nodes : x # n => emitted'[x] = emitted[x]
<1>1. emitted \in [Nodes -> Nat]
  BY TablesHere DEF Tables
<1> QED
  BY <1>1 DEF Once

(* The account of wrappers where no wrapper is written and none owed. *)
LEMMA NoRuns ==
  ASSUME NEW op \in Ops, op \notin {"wrapper", "child", "wrappers"},
         NEW n \in Nodes, NEW items, NEW x, NoneOwes(RunBy, items, x)
  PROVE  \A k : HandsOn(RunBy, Do(op, n), items, k, k, x)
<1>1. RunBy[Do(op, n)] = {}
  BY RunAt DEF Ops
<1> QED
  BY <1>1 DEF HandsOn

(* A statement that is written in one line. *)
LEMMA LineReplaces ==
  ASSUME EmissionInv, At("stmt"), NEW before, NEW defines, NEW after,
         LineText(before, defines, after),
         \A x \in Listed : x \in Near(this) => x = this
  PROVE  /\ Replaces(<<>>)
         /\ emitted' \in [Nodes -> Nat] /\ invoked' \in [Nodes -> Nat]
<1>1. /\ WellFormed(ast) /\ gen = "running" /\ todo[1] = Do("stmt", this)
      /\ this \in Nodes /\ todo \in Seq(Fit) /\ todo # <<>>
  BY HeadItem
<1>2. /\ text' = Refer(Define(Refer(Checked(text, Expressions(this)), before), defines), after)
      /\ Once(this) /\ todo' = <<>> \o Tail(todo) /\ invoked' = invoked
  BY DEF LineText, Writes, Continue
<1>3. /\ emitted' \in [Nodes -> Nat] /\ emitted'[this] = emitted[this] + 1
      /\ \A x \in Nodes : x # this => emitted'[x] = emitted[x]
  BY <1>1, <1>2, OnceCounts
<1>4. invoked' \in [Nodes -> Nat]
  BY <1>1, <1>2, TablesHere DEF Tables
<1>5. ASSUME NEW d \in Nat \ {0}, Blocks(text, d) PROVE Blocks(text', d)
  <2>1. PICK t : t = Refer(Checked(text, Expressions(this)), before)
    OBVIOUS
  <2>2. Blocks(t, d)
    BY <1>5, <2>1, ReferBlocks
  <2> QED
    BY <1>2, <2>1, <2>2, DefineBlocks, ReferBlocks
<1>6. OwedBy[Do("stmt", this)] = Near(this) /\ Closes(Do("stmt", this)) = 0
  BY <1>1, OwedAt DEF Closes, Do
<1>7. <<>> \in Seq(Fit) /\ \A d \in Nat \ {0} : Ladder(<<>>, d, d)
  BY NilFits
<1>8. BlocksFit(<<>>)
  <2>1. \A d \in Nat \ {0} : d + Closes(todo[1]) = d
    BY <1>1, <1>6
  <2> QED
    BY <1>5, <1>7, <2>1 DEF BlocksFit
<1>9. ASSUME NEW x \in Listed
      PROVE  HandsOn(OwedBy, todo[1], <<>>, emitted[x], emitted'[x], x)
  <2>1. NoneOwes(OwedBy, <<>>, x) /\ x \in Nodes
    BY <1>1, NilOwes, ListedFacts
  <2>2. CASE x = this
    <3>1. x \in Near(this)
      BY <1>1, <2>2, NearFacts
    <3> QED
      BY <1>1, <1>3, <1>6, <2>1, <2>2, <3>1 DEF HandsOn
  <2>3. CASE x # this
    BY <1>1, <1>3, <1>6, <2>1, <2>3 DEF HandsOn
  <2> QED
    BY <2>2, <2>3
<1>10. ASSUME NEW x \in Calling
       PROVE  HandsOn(RunBy, todo[1], <<>>, invoked[x], invoked'[x], x)
  <2>1. NoneOwes(RunBy, <<>>, x)
    BY NilOwes
  <2> QED
    BY <1>1, <1>2, <2>1, NoRuns DEF Ops
<1> QED
  BY <1>2, <1>3, <1>4, <1>7, <1>8, <1>9, <1>10 DEF Replaces

LEMMA StandsAlone ==
  ASSUME WellFormed(ast), NEW n \in Nodes, ast[n].kind \in Plain \/ Apart(n)
  PROVE  \A x \in Listed : x \in Near(n) => x = n
BY NearPlain, NearApart

LEMMA LineMoves ==
  ASSUME EmissionInv, At("stmt"), ast[this].kind \in Plain \cup {"thread"},
         NEW before, NEW defines, NEW after, Line(before, defines, after)
  PROVE  Moves
<1>1. WellFormed(ast) /\ this \in Nodes /\ gen = "running"
  BY HeadItem
<1>2. \A x \in Listed : x \in Near(this) => x = this
  BY <1>1, StandsAlone DEF Apart
<1>3. LineText(before, defines, after) /\ SameTables
  BY DEF Line
<1>4. Replaces(<<>>) /\ emitted' \in [Nodes -> Nat] /\ invoked' \in [Nodes -> Nat]
  BY <1>2, <1>3, LineReplaces
<1>5. UNCHANGED <<input, gen>> /\ Tables'
  BY <1>1, <1>3, <1>4, SameTablesKept
<1> QED
  BY <1>4, <1>5 DEF Moves

LEMMA LinesMove ==
  ASSUME EmissionInv,
         \/ Declaration \/ ThreadDeclaration \/ ProcessDeclaration \/ Update
         \/ ReturnStatement \/ ThreadCallStatement \/ ThreadBlock \/ AwaitStatement
  PROVE  At("stmt") /\ Moves
<1>1. CASE Declaration
  BY <1>1, LineMoves DEF Declaration, Statement, Plain
<1>2. CASE ThreadDeclaration
  BY <1>2, LineMoves DEF ThreadDeclaration, Statement, Plain
<1>3. CASE ProcessDeclaration
  BY <1>3, LineMoves DEF ProcessDeclaration, Statement, Plain
<1>4. CASE Update
  BY <1>4, LineMoves DEF Update, Statement, Plain
<1>5. CASE ReturnStatement
  BY <1>5, LineMoves DEF ReturnStatement, Statement, Plain
<1>6. CASE ThreadCallStatement
  BY <1>6, LineMoves DEF ThreadCallStatement, Statement, Plain, ExprKinds
<1>7. CASE ThreadBlock
  BY <1>7, LineMoves DEF ThreadBlock, Statement
<1>8. CASE AwaitStatement
  BY <1>8, LineMoves DEF AwaitStatement, Statement, Plain
<1> QED
  BY <1>1, <1>2, <1>3, <1>4, <1>5, <1>6, <1>7, <1>8

(* An item that writes nothing of what is counted, replaced by others that *)
(* owe as much, with more or fewer blocks open.                            *)
LEMMA HandedOn ==
  ASSUME EmissionInv, NEW op \in Ops, At(op), op \notin {"wrapper", "child", "wrappers"},
         NEW items \in Seq(Fit), Continue(items),
         BlocksFit(items),
         \A x \in Calling : NoneOwes(RunBy, items, x),
         Simple => \A x \in Listed : HasText(x) =>
           HandsOn(OwedBy, Do(op, this), items, emitted[x], emitted'[x], x),
         invoked' = invoked
  PROVE  Replaces(items)
<1>1. todo[1] = Do(op, this) /\ this \in Nodes
  BY HeadItem
<1>2. \A x \in Calling : HandsOn(RunBy, todo[1], items, invoked[x], invoked'[x], x)
  BY <1>1, NoRuns
<1> QED
  BY <1>1, <1>2 DEF Replaces, Continue

LEMMA NothingMoves ==
  ASSUME EmissionInv, At("stmt"), Continue(<<>>), UNCHANGED output, SameTables,
         ast[this].kind \in Plain \cup {"func"},
         ast[this].kind # "func" => ~HasText(this) \/ this \notin Listed
  PROVE  Moves
<1>1. /\ WellFormed(ast) /\ gen = "running" /\ todo[1] = Do("stmt", this)
      /\ this \in Nodes /\ this \in For("stmt") /\ "stmt" \in Ops
  BY HeadItem
<1>2. text' = text /\ emitted' = emitted /\ invoked' = invoked
  BY DEF output
<1>3. OwedBy[Do("stmt", this)] = Near(this) /\ Closes(todo[1]) = 0
  <2>1. Closes(Do("stmt", this)) = 0
    BY DEF Closes, Do
  <2> QED
    BY <1>1, <2>1, OwedAt
<1>4. <<>> \in Seq(Fit) /\ \A d \in Nat \ {0} : Ladder(<<>>, d, d)
  BY NilFits
<1>5. Simple => ast[this].kind # "func"
  BY <1>1 DEF For, Statements, Simple
<1>6. ASSUME Simple, NEW x \in Listed, HasText(x)
      PROVE  HandsOn(OwedBy, Do("stmt", this), <<>>, emitted[x], emitted'[x], x)
  <2>1. x \in Near(this) => x = this
    BY <1>1, StandsAlone DEF Apart
  <2>2. x \notin Near(this)
    BY <1>5, <1>6, <2>1
  <2> QED
    BY <1>2, <1>3, <2>2, NilOwes DEF HandsOn
<1>7. BlocksFit(<<>>)
  <2>1. \A d \in Nat \ {0} : d + Closes(todo[1]) = d
    BY <1>3
  <2> QED
    BY <1>2, <1>4, <2>1 DEF BlocksFit
<1>8. Replaces(<<>>)
  BY <1>1, <1>2, <1>4, <1>6, <1>7, HandedOn, NilOwes
<1>9. UNCHANGED <<input, gen>> /\ Tables'
  BY <1>1, <1>2, SameTablesKept, TablesHere DEF Tables
<1> QED
  BY <1>8, <1>9 DEF Moves

LEMMA PrintMoves ==
  ASSUME EmissionInv, PrintStatement
  PROVE  At("stmt") /\ Moves
<1>1. At("stmt") /\ ast[this].kind = "print"
  BY DEF PrintStatement, Statement
<1>2. WellFormed(ast) /\ this \in Nodes
  BY <1>1, HeadItem
<1>3. CASE ast[Kid(this, 1)].kind \in {"int", "string", "ident"}
  BY <1>1, <1>3, LineMoves DEF PrintStatement, Plain
<1>4. CASE ast[Kid(this, 1)].kind \notin {"int", "string", "ident"}
  <2>1. Continue(<<>>) /\ UNCHANGED output /\ SameTables
    BY <1>4 DEF PrintStatement
  <2>2. ~HasText(this)
    BY <1>1, <1>4 DEF HasText
  <2> QED
    BY <1>1, <2>1, <2>2, NothingMoves DEF Plain
<1> QED
  BY <1>1, <1>3, <1>4

LEMMA NothingWrittenMoves ==
  ASSUME EmissionInv, NothingWritten
  PROVE  At("stmt") /\ Moves
<1>1. At("stmt") /\ ast[this].kind \in {"call", "func"} /\ ast[this].par # "thread"
  BY DEF NothingWritten, Statement
<1>2. WellFormed(ast) /\ this \in Nodes
  BY <1>1, HeadItem
<1>3. ast[this].kind = "call" => ~HasText(this) \/ this \notin Listed
  BY <1>1, <1>2, ListedFacts, NodeShape DEF HasText, ParallelTypes
<1>4. Continue(<<>>) /\ UNCHANGED output /\ SameTables
  BY DEF NothingWritten
<1> QED
  BY <1>1, <1>3, <1>4, NothingMoves DEF Plain, ExprKinds

LEMMA Opened ==
  ASSUME EmissionInv, NEW op \in Ops \ {"close", "endWorker", "head"}, At(op),
         NEW k \in Nat, NEW items,
         \A d \in Nat \ {0} : Blocks(text, d) => Blocks(text', d + k),
         \A d \in Nat \ {0} : Ladder(items, d + k, d)
  PROVE  BlocksFit(items)
<1>1. Closes(todo[1]) = 0
  BY DEF At, Closes
<1> SUFFICES ASSUME NEW d \in Nat \ {0}, Blocks(text, d + Closes(todo[1]))
             PROVE  \E e \in Nat \ {0} : Blocks(text', e) /\ Ladder(items, e, d)
  BY DEF BlocksFit
<1>2. d + Closes(todo[1]) = d
  BY <1>1
<1>3. Blocks(text', d + k) /\ Ladder(items, d + k, d)
  BY <1>2
<1>4. d + k \in Nat \ {0}
  OBVIOUS
<1> QED
  BY <1>3, <1>4

(* Nothing is counted: what the item owes, the items owe. *)
LEMMA PassesOn ==
  ASSUME EmissionInv, NEW op \in Ops, At(op), op \notin {"wrapper", "child", "wrappers"},
         NEW items \in Seq(Fit), Continue(items), BlocksFit(items),
         \A x : NoneOwes(RunBy, items, x),
         Simple => \A x \in Listed :
           /\ x \in OwedBy[Do(op, this)] => OneOwes(OwedBy, items, x)
           /\ x \notin OwedBy[Do(op, this)] => NoneOwes(OwedBy, items, x),
         UNCHANGED <<emitted, invoked>>
  PROVE  /\ Replaces(items)
         /\ emitted' \in [Nodes -> Nat] /\ invoked' \in [Nodes -> Nat]
<1>1. Simple => \A x \in Listed :
        HandsOn(OwedBy, Do(op, this), items, emitted[x], emitted'[x], x)
  BY DEF HandsOn
<1>2. Replaces(items)
  BY <1>1, HandedOn
<1>3. Tables
  BY TablesHere DEF At
<1> QED
  BY <1>2, <1>3 DEF Tables

(* The node is written: the items owe what else its item owed. *)
LEMMA WritesOn ==
  ASSUME EmissionInv, NEW op \in Ops, At(op), op \notin {"wrapper", "child", "wrappers"},
         NEW items \in Seq(Fit), Continue(items), BlocksFit(items),
         \A x : NoneOwes(RunBy, items, x),
         this \in OwedBy[Do(op, this)],
         Simple => \A x \in Listed :
           /\ x \in OwedBy[Do(op, this)] /\ x # this => OneOwes(OwedBy, items, x)
           /\ x \notin OwedBy[Do(op, this)] \/ x = this => NoneOwes(OwedBy, items, x),
         Once(this), UNCHANGED invoked
  PROVE  /\ Replaces(items)
         /\ emitted' \in [Nodes -> Nat] /\ invoked' \in [Nodes -> Nat]
<1>1. gen = "running" /\ this \in Nodes /\ WellFormed(ast)
  BY HeadItem
<1>2. /\ emitted' \in [Nodes -> Nat] /\ emitted'[this] = emitted[this] + 1
      /\ \A x \in Nodes : x # this => emitted'[x] = emitted[x]
  BY <1>1, OnceCounts
<1>3. ASSUME Simple, NEW x \in Listed
      PROVE  HandsOn(OwedBy, Do(op, this), items, emitted[x], emitted'[x], x)
  <2>1. x \in Nodes
    BY <1>1, ListedFacts
  <2>2. CASE x = this
    BY <1>2, <1>3, <2>2 DEF HandsOn
  <2>3. CASE x # this
    <3>1. emitted'[x] = emitted[x]
      BY <1>2, <2>1, <2>3
    <3> QED
      BY <1>3, <2>3, <3>1 DEF HandsOn
  <2> QED
    BY <2>2, <2>3
<1>4. Replaces(items)
  BY <1>3, HandedOn
<1>5. Tables
  BY <1>1, TablesHere
<1> QED
  BY <1>2, <1>4, <1>5 DEF Tables

LEMMA IfMoves ==
  ASSUME EmissionInv, IfStatement
  PROVE  At("stmt") /\ Moves
<1>1. At("stmt") /\ ast[this].kind = "if"
  BY DEF IfStatement, Statement
<1>2. /\ WellFormed(ast) /\ gen = "running" /\ this \in Nodes /\ "stmt" \in Ops
  BY <1>1, HeadItem
<1>3. /\ text' = Open(Refer(Checked(text, Expressions(this)), UsesOf(Expressions(this))), {})
      /\ Continue(IfItems(this)) /\ Once(this) /\ UNCHANGED invoked /\ SameTables
  BY DEF IfStatement, IfItems, Writes
<1>4. ASSUME NEW d \in Nat \ {0}, Blocks(text, d) PROVE Blocks(text', d + 1)
  <2>1. PICK t : t = Refer(Checked(text, Expressions(this)), UsesOf(Expressions(this)))
    OBVIOUS
  <2>2. Blocks(t, d)
    BY <1>4, <2>1, ReferBlocks
  <2> QED
    BY <1>3, <2>1, <2>2, OpenBlocks
<1>5. /\ IfItems(this) \in Seq(Fit) /\ \A x : NoneOwes(RunBy, IfItems(this), x)
      /\ \A d \in Nat \ {0} : Ladder(IfItems(this), d + 1, d)
  BY <1>1, <1>2, IfFits
<1>6. BlocksFit(IfItems(this))
  BY <1>1, <1>2, <1>4, <1>5, Opened
<1>7. OwedBy[Do("stmt", this)] = Near(this) /\ this \in Near(this)
  BY <1>2, OwedAt, NearFacts
<1>8. Simple => \A x \in Listed :
        /\ x \in OwedBy[Do("stmt", this)] /\ x # this => OneOwes(OwedBy, IfItems(this), x)
        /\ x \notin OwedBy[Do("stmt", this)] \/ x = this => NoneOwes(OwedBy, IfItems(this), x)
  BY <1>1, <1>2, <1>7, IfOwes DEF Simple
<1>9. /\ Replaces(IfItems(this))
      /\ emitted' \in [Nodes -> Nat] /\ invoked' \in [Nodes -> Nat]
  <2> HIDE DEF IfItems
  <2> QED
    BY <1>1, <1>2, <1>3, <1>5, <1>6, <1>7, <1>8, WritesOn
<1> QED
  BY <1>1, <1>2, <1>3, <1>9, SameTablesKept DEF Moves

LEMMA ForMoves ==
  ASSUME EmissionInv, ForLoop
  PROVE  At("stmt") /\ Moves
<1>1. At("stmt") /\ ast[this].kind = "for" /\ ~ThreadedLoop(this)
  BY DEF ForLoop, Statement
<1>2. /\ WellFormed(ast) /\ gen = "running" /\ this \in Nodes /\ "stmt" \in Ops
  BY <1>1, HeadItem
<1>3. /\ text' = Open(text, {})
      /\ Continue(ForItems(this)) /\ Once(this) /\ UNCHANGED invoked /\ SameTables
  BY DEF ForLoop, ForItems, Writes
<1>4. \A d \in Nat \ {0} : Blocks(text, d) => Blocks(text', d + 1)
  BY <1>3, OpenBlocks
<1>5. /\ ForItems(this) \in Seq(Fit) /\ \A x : NoneOwes(RunBy, ForItems(this), x)
      /\ \A d \in Nat \ {0} : Ladder(ForItems(this), d + 1, d)
  BY <1>1, <1>2, ForFits
<1>6. BlocksFit(ForItems(this))
  BY <1>1, <1>2, <1>4, <1>5, Opened
<1>7. OwedBy[Do("stmt", this)] = Near(this) /\ this \in Near(this)
  BY <1>2, OwedAt, NearFacts
<1>8. \A x \in Listed :
        /\ x \in OwedBy[Do("stmt", this)] /\ x # this => OneOwes(OwedBy, ForItems(this), x)
        /\ x \notin OwedBy[Do("stmt", this)] \/ x = this => NoneOwes(OwedBy, ForItems(this), x)
  BY <1>1, <1>2, <1>7, ForFits
<1>9. /\ Replaces(ForItems(this))
      /\ emitted' \in [Nodes -> Nat] /\ invoked' \in [Nodes -> Nat]
  BY <1>1, <1>2, <1>3, <1>5, <1>6, <1>7, <1>8, WritesOn
<1> QED
  BY <1>1, <1>2, <1>3, <1>9, SameTablesKept DEF Moves

LEMMA ElseMoves ==
  ASSUME EmissionInv, Else
  PROVE  At("else") /\ Moves
<1>1. /\ At("else") /\ ast[this].kind = "block" /\ text' = Open(text, {})
      /\ Continue(Inside(this)) /\ UNCHANGED <<emitted, invoked>> /\ SameTables
  BY DEF Else, Writes
<1>2. /\ WellFormed(ast) /\ gen = "running" /\ this \in Nodes /\ "else" \in Ops
  BY <1>1, HeadItem
<1>3. \A d \in Nat \ {0} : Blocks(text, d) => Blocks(text', d + 1)
  BY <1>1, OpenBlocks
<1>4. Inside(this) \in Seq(Fit) /\ \A d \in Nat \ {0} : Ladder(Inside(this), d + 1, d)
  BY <1>1, <1>2, InsideFits
<1>5. BlocksFit(Inside(this))
  BY <1>1, <1>2, <1>3, <1>4, Opened
<1>6. OwedBy[Do("else", this)] = Within(this)
  BY <1>2, OwedAt
<1>7. \A x : /\ x \in OwedBy[Do("else", this)] => OneOwes(OwedBy, Inside(this), x)
             /\ x \notin OwedBy[Do("else", this)] => NoneOwes(OwedBy, Inside(this), x)
             /\ NoneOwes(RunBy, Inside(this), x)
  BY <1>2, <1>6, InsideOwes
<1>8. /\ Replaces(Inside(this))
      /\ emitted' \in [Nodes -> Nat] /\ invoked' \in [Nodes -> Nat]
  BY <1>1, <1>2, <1>4, <1>5, <1>7, PassesOn
<1> QED
  BY <1>1, <1>2, <1>8, SameTablesKept DEF Moves

(* An else-if that goes on owes nothing where there is none. *)
LEMMA ElseIfMoves ==
  ASSUME EmissionInv, ElseIf, gen' = gen
  PROVE  At("else") /\ Moves
<1>1. At("else") /\ ast[this].kind = "if"
  BY DEF ElseIf
<1>2. /\ WellFormed(ast) /\ gen = "running" /\ this \in Nodes /\ "else" \in Ops
      /\ this \in For("else")
  BY <1>1, HeadItem
<1>3. /\ Continue(<<>>) /\ text' = text /\ UNCHANGED <<emitted, invoked>> /\ SameTables
  BY <1>2 DEF ElseIf, output, SameTables
<1>4. <<>> \in Seq(Fit) /\ \A d \in Nat \ {0} : Ladder(<<>>, d, d)
  BY NilFits
<1>5. BlocksFit(<<>>)
  BY <1>1, <1>2, <1>3, <1>4, Opened
<1>6. ~Simple
  <2>1. PICK f \in Of("if") : this \in KidsOf[f]
    BY <1>2 DEF For, Branches
  <2>2. this \in Elements(ast[f].kids)
    BY <2>1 DEF KidsOf, Of
  <2> QED
    BY <1>1, <2>1, <2>2 DEF Simple, NoElseIf
<1>7. /\ Replaces(<<>>)
      /\ emitted' \in [Nodes -> Nat] /\ invoked' \in [Nodes -> Nat]
  BY <1>1, <1>2, <1>3, <1>4, <1>5, <1>6, PassesOn, NilOwes
<1> QED
  BY <1>1, <1>2, <1>3, <1>7, SameTablesKept DEF Moves

LEMMA HeadMoves ==
  ASSUME EmissionInv, LoopHead
  PROVE  At("head") /\ Moves
<1> DEFINE upd == Kid(this, 3)
           t == Refer(Checked(text, Expressions(this)),
                      {Use("var", ast[upd].name, {bound[upd]})} \cup UsesOf(Expressions(this)))
<1>1. /\ At("head") /\ text' = Open(t, {}) /\ Once(upd) /\ Continue(<<>>)
      /\ UNCHANGED invoked /\ SameTables
  BY DEF LoopHead, Writes
<1>2. /\ WellFormed(ast) /\ gen = "running" /\ this \in Nodes /\ "head" \in Ops
      /\ this \in For("head") /\ todo[1] = Do("head", this)
  BY <1>1, HeadItem
<1>3. ast[this].kind = "for"
  BY <1>2 DEF For, Of
<1>4. upd \in KidsOf[this] /\ upd \in Nodes
  BY <1>2, <1>3, ForKids, KidsFacts
<1>5. upd \notin Listed
  BY <1>2, <1>3, <1>4, ForKids, PlainKid, NearFacts DEF Plain
<1>6. <<>> \in Seq(Fit) /\ \A d \in Nat \ {0} : Ladder(<<>>, d, d)
  BY NilFits
<1>7. ASSUME NEW c \in Nat, Blocks(text, c) PROVE Blocks(text', c + 1)
  <2>1. PICK u : u = Checked(text, Expressions(this))
    OBVIOUS
  <2>2. Blocks(u, c)
    BY <1>7, <2>1, ReferBlocks
  <2>3. Blocks(t, c)
    BY <2>1, <2>2, ReferBlocks
  <2> HIDE DEF t
  <2> QED
    BY <1>1, <2>3, OpenBlocks
<1>8. BlocksFit(<<>>)
  <2>1. Closes(Do("head", this)) = -1
    BY DEF Closes, Do
  <2> SUFFICES ASSUME NEW d \in Nat \ {0}, d + Closes(todo[1]) \in Nat \ {0},
                      Blocks(text, d + Closes(todo[1]))
               PROVE  \E e \in Nat \ {0} : Blocks(text', e) /\ Ladder(<<>>, e, d)
    BY DEF BlocksFit
  <2>2. PICK c \in Nat : c = d + Closes(todo[1])
    OBVIOUS
  <2>3. d = c + 1
    BY <1>2, <2>1, <2>2
  <2>4. Blocks(text', c + 1)
    BY <1>7, <2>2
  <2> QED
    BY <1>6, <2>3, <2>4
<1>9. /\ emitted' \in [Nodes -> Nat]
      /\ \A x \in Nodes : x # upd => emitted'[x] = emitted[x]
  <2> HIDE DEF upd
  <2> QED
    BY <1>1, <1>2, <1>4, OnceCounts
<1>10. ASSUME NEW x \in Listed
       PROVE  HandsOn(OwedBy, Do("head", this), <<>>, emitted[x], emitted'[x], x)
  <2>1. emitted'[x] = emitted[x]
    BY <1>2, <1>5, <1>9, ListedFacts
  <2>2. x \notin OwedBy[Do("head", this)]
    BY <1>2, OwedAt
  <2> QED
    BY <2>1, <2>2, NilOwes DEF HandsOn
<1>11. Replaces(<<>>)
  BY <1>1, <1>2, <1>6, <1>8, <1>10, HandedOn, NilOwes
<1>12. invoked' \in [Nodes -> Nat]
  BY <1>1, <1>2, TablesHere DEF Tables
<1> QED
  BY <1>1, <1>2, <1>9, <1>11, <1>12, SameTablesKept DEF Moves

LEMMA GlobalMoves ==
  ASSUME EmissionInv, Global
  PROVE  At("global") /\ Moves
<1> DEFINE value == Kid(this, 1)
           t == Checked(text, {value})
           c == Define(t, {Entry("var", ast[this].name, this)})
           d == Refer(c, Uses(value))
<1>1. /\ At("global") /\ (text' = d \/ text' = Reject(d, "not constant"))
      /\ Once(this) /\ Continue(<<>>) /\ UNCHANGED invoked /\ SameTables
  BY DEF Global, Writes
<1>2. /\ WellFormed(ast) /\ gen = "running" /\ this \in Nodes /\ "global" \in Ops
  BY <1>1, HeadItem
<1>3. ASSUME NEW k \in Nat \ {0}, Blocks(text, k) PROVE Blocks(text', k + 0)
  <2>1. Blocks(t, k)
    BY <1>3, ReferBlocks
  <2> HIDE DEF t
  <2>2. Blocks(c, k)
    BY <2>1, DefineBlocks
  <2> HIDE DEF c
  <2>3. Blocks(d, k)
    BY <2>2, ReferBlocks
  <2> HIDE DEF d
  <2>4. Blocks(Reject(d, "not constant"), k)
    BY <2>3, ReferBlocks
  <2>5. k + 0 = k
    OBVIOUS
  <2> QED
    BY <1>1, <2>3, <2>4, <2>5
<1> HIDE DEF d, c, t, value
<1>4. <<>> \in Seq(Fit) /\ \A k \in Nat \ {0} : Ladder(<<>>, k + 0, k)
  BY NilFits
<1>5. BlocksFit(<<>>)
  BY <1>1, <1>2, <1>3, <1>4, Opened
<1>6. OwedBy[Do("global", this)] = {this}
  BY <1>2, OwedAt
<1>7. /\ Replaces(<<>>)
      /\ emitted' \in [Nodes -> Nat] /\ invoked' \in [Nodes -> Nat]
  BY <1>1, <1>2, <1>4, <1>5, <1>6, WritesOn, NilOwes
<1> QED
  BY <1>1, <1>2, <1>7, SameTablesKept DEF Moves

LEMMA LocksMove ==
  ASSUME EmissionInv, SharedMutexes
  PROVE  At("locks") /\ Moves
<1>1. /\ At("locks") /\ (\E entries : text' = Announce(text, entries))
      /\ Continue(LockItems) /\ UNCHANGED <<emitted, invoked>> /\ SameTables
  BY DEF SharedMutexes, Writes, LockItems
<1>2. /\ WellFormed(ast) /\ gen = "running" /\ this \in Nodes /\ "locks" \in Ops
  BY <1>1, HeadItem
<1>3. \A k \in Nat \ {0} : Blocks(text, k) => Blocks(text', k + 0)
  BY <1>1, DefineBlocks
<1>4. /\ LockItems \in Seq(Fit) /\ \A x : NoneOwes(RunBy, LockItems, x)
      /\ \A k \in Nat \ {0} : Ladder(LockItems, k + 0, k)
  BY <1>2, LockFits
<1>5. BlocksFit(LockItems)
  BY <1>1, <1>2, <1>3, <1>4, Opened
<1>6. OwedBy[Do("locks", this)] = UNION {Within(Kid(n, 4)) : n \in ToWorkers}
  BY <1>2, OwedAt
<1>7. \A x : /\ x \in OwedBy[Do("locks", this)] => OneOwes(OwedBy, LockItems, x)
             /\ x \notin OwedBy[Do("locks", this)] => NoneOwes(OwedBy, LockItems, x)
  BY <1>2, <1>6, LockFits
<1>8. /\ Replaces(LockItems)
      /\ emitted' \in [Nodes -> Nat] /\ invoked' \in [Nodes -> Nat]
  BY <1>1, <1>2, <1>4, <1>5, <1>7, PassesOn
<1> QED
  BY <1>1, <1>2, <1>8, SameTablesKept DEF Moves

LEMMA ForwardMoves ==
  ASSUME EmissionInv, Forward
  PROVE  At("forward") /\ Moves
<1>1. /\ At("forward") /\ (\E entries : text' = Announce(text, entries))
      /\ Continue(ForwardItems) /\ UNCHANGED <<emitted, invoked>> /\ SameTables
  BY DEF Forward, Writes, ForwardItems
<1>2. /\ WellFormed(ast) /\ gen = "running" /\ this \in Nodes /\ "forward" \in Ops
  BY <1>1, HeadItem
<1>3. \A k \in Nat \ {0} : Blocks(text, k) => Blocks(text', k + 0)
  BY <1>1, DefineBlocks
<1>4. /\ ForwardItems \in Seq(Fit) /\ \A x : NoneOwes(RunBy, ForwardItems, x)
      /\ \A k \in Nat \ {0} : Ladder(ForwardItems, k + 0, k)
  BY <1>2, ForwardFits
<1>5. BlocksFit(ForwardItems)
  BY <1>1, <1>2, <1>3, <1>4, Opened
<1>6. OwedBy[Do("forward", this)] = UNION {{n} \cup Within(n) : n \in Functions}
  BY <1>2, OwedAt
<1>7. \A x : /\ x \in OwedBy[Do("forward", this)] => OneOwes(OwedBy, ForwardItems, x)
             /\ x \notin OwedBy[Do("forward", this)] => NoneOwes(OwedBy, ForwardItems, x)
  BY <1>2, <1>6, ForwardFits
<1>8. /\ Replaces(ForwardItems)
      /\ emitted' \in [Nodes -> Nat] /\ invoked' \in [Nodes -> Nat]
  BY <1>1, <1>2, <1>4, <1>5, <1>7, PassesOn
<1> QED
  BY <1>1, <1>2, <1>8, SameTablesKept DEF Moves

LEMMA MainMoves ==
  ASSUME EmissionInv, Main
  PROVE  At("main") /\ Moves
<1>1. /\ At("main") /\ (\E uses : text' = Refer(Open(text, {}), uses))
      /\ Continue(MainItems) /\ UNCHANGED <<emitted, invoked>> /\ SameTables
  BY DEF Main, Writes, MainItems
<1>2. /\ WellFormed(ast) /\ gen = "running" /\ this \in Nodes /\ "main" \in Ops
  BY <1>1, HeadItem
<1>3. ASSUME NEW k \in Nat \ {0}, Blocks(text, k) PROVE Blocks(text', k + 1)
  <2>1. PICK t : t = Open(text, {})
    OBVIOUS
  <2>2. Blocks(t, k + 1)
    BY <1>3, <2>1, OpenBlocks
  <2> QED
    BY <1>1, <2>1, <2>2, ReferBlocks
<1>4. /\ MainItems \in Seq(Fit) /\ \A x : NoneOwes(RunBy, MainItems, x)
      /\ \A k \in Nat \ {0} : Ladder(MainItems, k + 1, k)
  BY <1>2, MainFits
<1>5. BlocksFit(MainItems)
  BY <1>1, <1>2, <1>3, <1>4, Opened
<1>6. OwedBy[Do("main", this)] = UNION {Near(n) : n \in ToMain}
  BY <1>2, OwedAt
<1>7. \A x : /\ x \in OwedBy[Do("main", this)] => OneOwes(OwedBy, MainItems, x)
             /\ x \notin OwedBy[Do("main", this)] => NoneOwes(OwedBy, MainItems, x)
  BY <1>2, <1>6, MainFits
<1>8. /\ Replaces(MainItems)
      /\ emitted' \in [Nodes -> Nat] /\ invoked' \in [Nodes -> Nat]
  BY <1>1, <1>2, <1>4, <1>5, <1>7, PassesOn
<1> QED
  BY <1>1, <1>2, <1>8, SameTablesKept DEF Moves

LEMMA CloseMoves ==
  ASSUME EmissionInv, Close
  PROVE  At("close") /\ Moves
<1>1. /\ At("close") /\ text' = Shut(text)
      /\ Continue(<<>>) /\ UNCHANGED <<emitted, invoked>> /\ SameTables
  BY DEF Close, Writes
<1>2. /\ WellFormed(ast) /\ gen = "running" /\ this \in Nodes /\ "close" \in Ops
      /\ todo[1] = Do("close", this)
  BY <1>1, HeadItem
<1>3. <<>> \in Seq(Fit) /\ \A k \in Nat \ {0} : Ladder(<<>>, k, k)
  BY NilFits
<1>4. BlocksFit(<<>>)
  <2>1. Closes(todo[1]) = 1
    BY <1>1 DEF Closes, At
  <2>2. \A d \in Nat \ {0} : Blocks(text, d + 1) => Blocks(text', d)
    BY <1>1, ShutBlocks
  <2> QED
    BY <1>3, <2>1, <2>2 DEF BlocksFit
<1>5. OwedBy[Do("close", this)] = {}
  BY <1>2, OwedAt
<1>6. /\ Replaces(<<>>)
      /\ emitted' \in [Nodes -> Nat] /\ invoked' \in [Nodes -> Nat]
  BY <1>1, <1>2, <1>3, <1>4, <1>5, PassesOn, NilOwes
<1> QED
  BY <1>1, <1>2, <1>6, SameTablesKept DEF Moves

LEMMA FunctionMoves ==
  ASSUME EmissionInv, FunctionText
  PROVE  At("function") /\ Moves
<1>1. /\ At("function") /\ Once(this) /\ Continue(Inside(this))
      /\ UNCHANGED invoked /\ SameTables
  BY DEF FunctionText
<1>2. PICK defines, entries :
        text' \in {Open(Define(text, defines), entries),
                   Reject(Open(Define(text, defines), entries), "void")}
  BY Zenon DEF FunctionText, Writes
<1>3. /\ WellFormed(ast) /\ gen = "running" /\ this \in Nodes /\ "function" \in Ops
      /\ this \in For("function")
  BY <1>1, HeadItem
<1>4. this \in Functions /\ ast[this].kind = "func"
  BY <1>3 DEF For, Functions
<1>5. ASSUME NEW k \in Nat \ {0}, Blocks(text, k) PROVE Blocks(text', k + 1)
  <2>1. PICK t : t = Define(text, defines)
    OBVIOUS
  <2>2. Blocks(t, k)
    BY <1>5, <2>1, DefineBlocks
  <2>3. PICK u : u = Open(t, entries)
    OBVIOUS
  <2>4. Blocks(u, k + 1)
    BY <2>2, <2>3, OpenBlocks
  <2> QED
    BY <1>2, <2>1, <2>3, <2>4, ReferBlocks
<1>6. Inside(this) \in Seq(Fit) /\ \A k \in Nat \ {0} : Ladder(Inside(this), k + 1, k)
  BY <1>3, <1>4, InsideFits
<1>7. BlocksFit(Inside(this))
  BY <1>1, <1>3, <1>5, <1>6, Opened
<1>8. OwedBy[Do("function", this)] = {this} \cup Within(this) /\ this \notin Within(this)
  BY <1>3, OwedAt, NearFacts
<1>9. \A x : /\ x \in OwedBy[Do("function", this)] /\ x # this =>
                  OneOwes(OwedBy, Inside(this), x)
             /\ x \notin OwedBy[Do("function", this)] \/ x = this =>
                  NoneOwes(OwedBy, Inside(this), x)
             /\ NoneOwes(RunBy, Inside(this), x)
  BY <1>3, <1>8, InsideOwes
<1>10. /\ Replaces(Inside(this))
       /\ emitted' \in [Nodes -> Nat] /\ invoked' \in [Nodes -> Nat]
  BY <1>1, <1>3, <1>6, <1>7, <1>8, <1>9, WritesOn
<1> QED
  BY <1>1, <1>3, <1>10, SameTablesKept DEF Moves

-----------------------------------------------------------------------------
(* The tables of captured and of process variables *)

LEMMA OverwrittenFits ==
  ASSUME EmissionInv, gen = "running", NEW f \in Nodes
  PROVE  /\ Overwritten(f) \in Seq(Names) /\ Len(Overwritten(f)) <= MaxCaptured
         /\ Len(captured[f]) \in 0 .. Len(Overwritten(f))
         /\ Len(names) <= Len(Overwritten(f))
<1> DEFINE own == [i \in DOMAIN captured[f] |-> captured[f][i].name]
           rest == SubSeq(names, Len(own) + 1, Len(names))
<1>1. /\ captured[f] \in Seq(Params) /\ Len(captured[f]) <= MaxCaptured
      /\ names \in Seq(Names) /\ Len(names) <= MaxCaptured
  BY TablesHere DEF EmissionInv, Input, Annotated, Tables, Nodes
<1>2. PICK c : c = captured[f]
  OBVIOUS
<1>3. \A p \in Params : p.name \in Names
  BY DEF Params
<1>4. own \in Seq(Names) /\ Len(own) = Len(c)
  <2>1. c \in Seq(Params)
    BY <1>1, <1>2
  <2>2. own = [i \in 1 .. Len(c) |-> c[i].name]
    BY <1>2, <2>1
  <2>3. \A i \in 1 .. Len(c) : c[i].name \in Names
    BY <1>3, <2>1
  <2> HIDE DEF own
  <2> QED
    BY <2>1, <2>2, <2>3
<1>5. Overwritten(f) = own \o rest
  BY DEF Overwritten
<1>6. rest \in Seq(Names) /\ Len(rest) = IF Len(own) <= Len(names) THEN Len(names) - Len(own) ELSE 0
  <2> HIDE DEF own
  <2>1. PICK k \in Nat : k = Len(own)
    BY <1>4
  <2> QED
    BY <1>1, <2>1, SubSeqProperties
<1>7. PICK r : r = rest
  OBVIOUS
<1>8. PICK o : o = own
  OBVIOUS
<1>9. /\ o \in Seq(Names) /\ r \in Seq(Names) /\ Overwritten(f) = o \o r
      /\ Len(r) = IF Len(o) <= Len(names) THEN Len(names) - Len(o) ELSE 0
      /\ Len(o) = Len(captured[f])
  BY <1>2, <1>4, <1>5, <1>6, <1>7, <1>8
<1> HIDE DEF own, rest
<1>10. Overwritten(f) \in Seq(Names) /\ Len(Overwritten(f)) = Len(o) + Len(r)
  BY <1>9, ConcatProperties
<1>11. Len(o) \in Nat /\ Len(r) \in Nat /\ Len(names) \in Nat /\ MaxCaptured \in Nat
  BY <1>1, <1>9, TablesAssumption
<1>12. PICK a, b, n, w : a = Len(o) /\ b = Len(r) /\ n = Len(names) /\ w = Overwritten(f)
  OBVIOUS
<1>13. /\ a \in Nat /\ b \in Nat /\ n \in Nat /\ a <= MaxCaptured /\ n <= MaxCaptured
       /\ b = IF a <= n THEN n - a ELSE 0
  BY <1>1, <1>9, <1>11, <1>12
<1>14. a + b <= MaxCaptured /\ a \in 0 .. a + b /\ n <= a + b
  BY <1>11, <1>13
<1>15. Len(w) = a + b /\ w \in Seq(Names) /\ Len(captured[f]) = a
  BY <1>9, <1>10, <1>12
<1> QED
  BY <1>12, <1>14, <1>15

LEMMA DispatchMoves ==
  ASSUME EmissionInv, Dispatch
  PROVE  At("stmt") /\ Moves
<1>1. /\ At("stmt") /\ ast[this].kind = "for" /\ ThreadedLoop(this)
      /\ saved' = count /\ names' = Overwritten(this)
      /\ UNCHANGED <<input, gen, numbers, count, nextWorker, workerOf>>
  BY DEF Dispatch, Statement
<1>2. PICK before, defines, after : LineText(before, defines, after)
  BY DEF Dispatch
<1>3. WellFormed(ast) /\ this \in Nodes /\ gen = "running"
  BY <1>1, HeadItem
<1>4. \A x \in Listed : x \in Near(this) => x = this
  BY <1>1, <1>3, StandsAlone DEF Apart
<1>5. Replaces(<<>>) /\ emitted' \in [Nodes -> Nat] /\ invoked' \in [Nodes -> Nat]
  BY <1>1, <1>2, <1>4, LineReplaces
<1>6. Tables
  BY <1>3, TablesHere
<1>7. PICK o : o = Overwritten(this)
  OBVIOUS
<1>8. o \in Seq(Names) /\ Len(o) <= MaxCaptured /\ Len(names) <= Len(o)
  BY <1>3, <1>7, OverwrittenFits
<1>9. count \in 0 .. Len(o)
  BY <1>6, <1>8 DEF Tables
<1>10. Nodes' = Nodes
  BY <1>1, ShapeKept
<1>11. Tables'
  BY <1>1, <1>5, <1>6, <1>7, <1>8, <1>9, <1>10 DEF Tables, numbers
<1> QED
  BY <1>1, <1>5, <1>11 DEF Moves

LEMMA NumberedFits ==
  ASSUME WellFormed(ast), NEW chosen
  PROVE  Numbered(chosen) \in [Nodes -> Nat]
<1>1. PICK S : S = Met("assign") \cap chosen
  OBVIOUS
<1>2. Met("assign") \subseteq Nodes
  BY MetFacts
<1>3. S \subseteq Nat /\ IsFiniteSet(S)
  <2>1. Nodes = 1 .. Len(ast) /\ Len(ast) \in Nat
    BY TreeNodes
  <2>2. IsFiniteSet(Nodes)
    BY <2>1, FS_Interval
  <2> QED
    BY <1>1, <1>2, <2>1, <2>2, FS_Subset
<1>4. \A n \in S : Place(S, n) \in Nat
  BY <1>3, PlaceFacts
<1>5. Numbered(chosen) = [n \in Nodes |-> IF n \in S THEN Place(S, n) ELSE 0]
  BY <1>1 DEF Numbered, Nodes
<1> QED
  BY <1>4, <1>5

LEMMA AssignMoves ==
  ASSUME EmissionInv, AssignIds
  PROVE  At("assign") /\ Moves
<1> DEFINE order == InOrder({n \in Met("assign") : ProcessVar(n)})
           kept  == IF Len(order) < MaxProcessVars THEN Len(order) ELSE MaxProcessVars
<1>1. /\ At("assign") /\ Continue(AssignItems)
      /\ UNCHANGED <<input, gen, capture, nextWorker, workerOf, output>>
      /\ wrapperOf' = Numbered({n \in Nodes : ThreadUnit(n)})
      /\ processOf' = Numbered({n \in Nodes : ProcessVar(n)})
      /\ processVars' = [i \in 1 .. kept |-> ast[order[i]].name]
  BY DEF AssignIds, AssignItems
<1>2. /\ WellFormed(ast) /\ gen = "running" /\ this \in Nodes /\ "assign" \in Ops
  BY <1>1, HeadItem
<1>3. text' = text /\ UNCHANGED <<emitted, invoked>>
  BY <1>1 DEF output
<1>4. \A k \in Nat \ {0} : Blocks(text, k) => Blocks(text', k + 0)
  BY <1>3
<1>5. /\ AssignItems \in Seq(Fit) /\ \A x : NoneOwes(RunBy, AssignItems, x)
      /\ \A k \in Nat \ {0} : Ladder(AssignItems, k + 0, k)
  BY <1>2, AssignFits
<1> HIDE DEF order, kept
<1>6. BlocksFit(AssignItems)
  BY <1>1, <1>2, <1>4, <1>5, Opened
<1>7. OwedBy[Do("assign", this)] = ToFile
  BY <1>2, OwedAt
<1>8. \A x : /\ x \in OwedBy[Do("assign", this)] => OneOwes(OwedBy, AssignItems, x)
             /\ x \notin OwedBy[Do("assign", this)] => NoneOwes(OwedBy, AssignItems, x)
  BY <1>2, <1>7, AssignFits
<1>9. /\ Replaces(AssignItems)
      /\ emitted' \in [Nodes -> Nat] /\ invoked' \in [Nodes -> Nat]
  BY <1>1, <1>2, <1>3, <1>5, <1>6, <1>8, PassesOn
<1>10. wrapperOf' \in [Nodes -> Nat] /\ processOf' \in [Nodes -> Nat]
  BY <1>1, <1>2, NumberedFits
<1>11. processVars' \in Seq(Names) /\ Len(processVars') <= MaxProcessVars
  <2>1. PICK S : S = {n \in Met("assign") : ProcessVar(n)}
    OBVIOUS
  <2>2. S \subseteq Nodes /\ S \subseteq Nat /\ IsFiniteSet(S)
    BY <1>2, <2>1, MetFacts, TreeNodes, FS_Subset
  <2>3. order \in Seq(S)
    BY <2>1, <2>2, InOrderFacts DEF order
  <2>4. Len(order) \in Nat /\ MaxProcessVars \in Nat
    BY <2>3, TablesAssumption
  <2>5. kept \in Nat /\ kept <= Len(order) /\ kept <= MaxProcessVars
    BY <2>4 DEF kept
  <2>6. ASSUME NEW i \in 1 .. kept PROVE ast[order[i]].name \in Names
    <3>1. i \in 1 .. Len(order)
      BY <2>4, <2>5
    <3>2. order[i] \in S
      BY <2>3, <3>1
    <3>3. ast[order[i]].kind = "decl" /\ order[i] \in Nodes
      BY <2>1, <2>2, <3>2 DEF ProcessVar
    <3> QED
      BY <1>2, <3>3, NodeShape
  <2> QED
    BY <1>1, <2>5, <2>6
<1>12. Tables /\ Nodes' = Nodes
  BY <1>1, <1>2, TablesHere, ShapeKept
<1>13. Tables'
  BY <1>1, <1>9, <1>10, <1>11, <1>12 DEF Tables, capture
<1> QED
  BY <1>1, <1>9, <1>13 DEF Moves

WorkerItems(f) == Each("stmt", ast[Kid(f, 4)].kids) \o <<Do("endWorker", f)>>

LEMMA WorkerFits ==
  ASSUME WellFormed(ast), NEW f \in Nodes, ThreadedLoop(f), NEW x
  PROVE  /\ WorkerItems(f) \in Seq(Fit) /\ NoneOwes(RunBy, WorkerItems(f), x)
         /\ \A d \in Nat \ {0} : Ladder(WorkerItems(f), d + 2, d)
         /\ x \in Within(Kid(f, 4)) => OneOwes(OwedBy, WorkerItems(f), x)
         /\ x \notin Within(Kid(f, 4)) => NoneOwes(OwedBy, WorkerItems(f), x)
<1>1. ast[f].kind = "for" /\ "endWorker" \in Ops /\ f \in For("endWorker")
  BY DEF ThreadedLoop, Ops, For, Of
<1>2. PICK b : b = Kid(f, 4)
  OBVIOUS
<1>3. b \in Nodes /\ ast[b].kind = "block"
  BY <1>1, <1>2, ForKids, KidsFacts
<1>4. PICK s, t : s = Each("stmt", ast[b].kids) /\ t = <<Do("endWorker", f)>>
  OBVIOUS
<1>5. /\ s \in Seq(Fit) /\ \A d \in Nat \ {0} : Ladder(s, d, d)
  BY <1>3, <1>4, InsideFits
<1>6. /\ t \in Seq(Fit) /\ \A d \in Nat \ {0} : Ladder(t, d + 2, d)
  BY <1>1, <1>4, OneFits
<1>7. /\ x \in Within(b) => OneOwes(OwedBy, s, x)
      /\ x \notin Within(b) => NoneOwes(OwedBy, s, x)
      /\ NoneOwes(RunBy, s, x)
  BY <1>3, <1>4, InsideOwes
<1>8. NoneOwes(OwedBy, t, x) /\ NoneOwes(RunBy, t, x)
  BY <1>4, OwedAt, RunAt, ItemOwes
<1>9. WorkerItems(f) = s \o t
  BY <1>2, <1>4 DEF WorkerItems
<1>10. s \o t \in Seq(Fit)
  BY <1>5, <1>6, ConcatProperties
<1>11. ASSUME NEW d \in Nat \ {0} PROVE Ladder(s \o t, d + 2, d)
  <2>1. Ladder(s, d + 2, d + 2) /\ Ladder(t, d + 2, d)
    BY <1>5, <1>6
  <2> QED
    BY <1>5, <1>6, <2>1, LadderJoin
<1>12. /\ x \in Within(b) => OneOwes(OwedBy, s \o t, x)
       /\ x \notin Within(b) => NoneOwes(OwedBy, s \o t, x)
       /\ NoneOwes(RunBy, s \o t, x)
  BY <1>5, <1>6, <1>7, <1>8, JoinOwes
<1> QED
  BY <1>2, <1>9, <1>10, <1>11, <1>12

LEMMA WorkerMoves ==
  ASSUME EmissionInv, Worker
  PROVE  At("worker") /\ Moves
<1>1. /\ At("worker") /\ workerOf' = [workerOf EXCEPT ![this] = nextWorker]
      /\ saved' = count /\ count' = Len(captured[this]) /\ names' = Overwritten(this)
      /\ Continue(WorkerItems(this))
      /\ UNCHANGED <<input, gen, numbers, nextWorker, emitted, invoked>>
  BY DEF Worker, WorkerItems
<1>2. /\ WellFormed(ast) /\ gen = "running" /\ this \in Nodes /\ "worker" \in Ops
      /\ this \in For("worker")
  BY <1>1, HeadItem
<1>3. ThreadedLoop(this)
  BY <1>2 DEF For
<1>4. PICK defines, outer, inner, uses :
        text' \in {Refer(Open(Open(Define(text, defines), outer), inner), uses),
                   Open(Open(Define(text, defines), outer), inner)}
  BY Zenon DEF Worker, Writes
<1>5. ASSUME NEW k \in Nat \ {0}, Blocks(text, k) PROVE Blocks(text', k + 2)
  <2>1. PICK t : t = Define(text, defines)
    OBVIOUS
  <2>2. Blocks(t, k)
    BY <1>5, <2>1, DefineBlocks
  <2>3. PICK u : u = Open(t, outer)
    OBVIOUS
  <2>4. Blocks(u, k + 1)
    BY <2>2, <2>3, OpenBlocks
  <2>5. PICK v : v = Open(u, inner)
    OBVIOUS
  <2>6. k + 1 \in Nat /\ (k + 1) + 1 = k + 2 /\ k + 2 \in Nat
    OBVIOUS
  <2>7. Blocks(v, k + 2)
    BY <2>4, <2>5, <2>6, OpenBlocks
  <2> QED
    BY <1>4, <2>1, <2>3, <2>5, <2>6, <2>7, ReferBlocks
<1>6. /\ WorkerItems(this) \in Seq(Fit) /\ \A x : NoneOwes(RunBy, WorkerItems(this), x)
      /\ \A k \in Nat \ {0} : Ladder(WorkerItems(this), k + 2, k)
  BY <1>2, <1>3, WorkerFits
<1>7. BlocksFit(WorkerItems(this))
  <2> HIDE DEF WorkerItems
  <2> QED
    BY <1>1, <1>2, <1>5, <1>6, Opened
<1>8. OwedBy[Do("worker", this)] = Within(Kid(this, 4))
  BY <1>2, OwedAt
<1>9. \A x : /\ x \in OwedBy[Do("worker", this)] => OneOwes(OwedBy, WorkerItems(this), x)
             /\ x \notin OwedBy[Do("worker", this)] => NoneOwes(OwedBy, WorkerItems(this), x)
  BY <1>2, <1>3, <1>8, WorkerFits
<1>10. /\ Replaces(WorkerItems(this))
       /\ emitted' \in [Nodes -> Nat] /\ invoked' \in [Nodes -> Nat]
  BY <1>1, <1>2, <1>6, <1>7, <1>9, PassesOn
<1>11. Tables /\ Nodes' = Nodes
  BY <1>1, <1>2, TablesHere, ShapeKept
<1>12. PICK o : o = Overwritten(this)
  OBVIOUS
<1>13. /\ o \in Seq(Names) /\ Len(o) <= MaxCaptured /\ Len(names) <= Len(o)
       /\ Len(captured[this]) \in 0 .. Len(o)
  BY <1>2, <1>12, OverwrittenFits
<1>14. count \in 0 .. Len(o)
  BY <1>11, <1>13 DEF Tables
<1>15. workerOf' \in [Nodes -> Nat]
  BY <1>1, <1>11 DEF Tables
<1>16. Tables'
  BY <1>1, <1>10, <1>11, <1>12, <1>13, <1>14, <1>15 DEF Tables, numbers
<1> QED
  BY <1>1, <1>10, <1>16 DEF Moves

LEMMA EndWorkerMoves ==
  ASSUME EmissionInv, EndWorker
  PROVE  At("endWorker") /\ Moves
<1>1. /\ At("endWorker") /\ text' = Shut(Shut(text)) /\ Continue(<<>>)
      /\ count' = saved /\ nextWorker' = nextWorker + 1
      /\ UNCHANGED <<input, gen, numbers, names, saved, workerOf, emitted, invoked>>
  BY DEF EndWorker, Writes
<1>2. /\ WellFormed(ast) /\ gen = "running" /\ this \in Nodes /\ "endWorker" \in Ops
  BY <1>1, HeadItem
<1>3. <<>> \in Seq(Fit) /\ \A k \in Nat \ {0} : Ladder(<<>>, k, k)
  BY NilFits
<1>4. BlocksFit(<<>>)
  <2>1. Closes(todo[1]) = 2
    BY <1>1 DEF Closes, At
  <2>2. ASSUME NEW d \in Nat \ {0}, Blocks(text, d + 2) PROVE Blocks(text', d)
    <3>1. d + 2 = (d + 1) + 1 /\ d + 1 \in Nat
      OBVIOUS
    <3>2. PICK t : t = Shut(text)
      OBVIOUS
    <3>3. Blocks(t, d + 1)
      BY <2>2, <3>1, <3>2, ShutBlocks
    <3> QED
      BY <1>1, <3>2, <3>3, ShutBlocks
  <2> QED
    BY <1>3, <2>1, <2>2 DEF BlocksFit
<1>5. OwedBy[Do("endWorker", this)] = {}
  BY <1>2, OwedAt
<1>6. /\ Replaces(<<>>)
      /\ emitted' \in [Nodes -> Nat] /\ invoked' \in [Nodes -> Nat]
  BY <1>1, <1>2, <1>3, <1>4, <1>5, PassesOn, NilOwes
<1>7. Tables /\ Nodes' = Nodes
  BY <1>1, <1>2, TablesHere, ShapeKept
<1>8. nextWorker + 1 \in Nat \ {0}
  BY <1>7 DEF Tables
<1>9. Tables'
  BY <1>1, <1>6, <1>7, <1>8 DEF Tables, numbers
<1> QED
  BY <1>1, <1>6, <1>9 DEF Moves

-----------------------------------------------------------------------------
(* The wrappers *)

LEMMA WrappersMove ==
  ASSUME EmissionInv, Wrappers
  PROVE  At("wrappers") /\ Moves
<1>1. /\ At("wrappers") /\ Continue(WrapperItems) /\ UNCHANGED output /\ SameTables
  BY DEF Wrappers, WrapperItems
<1>2. /\ WellFormed(ast) /\ gen = "running" /\ this \in Nodes /\ "wrappers" \in Ops
      /\ todo[1] = Do("wrappers", this)
  BY <1>1, HeadItem
<1>3. text' = text /\ emitted' = emitted /\ invoked' = invoked
  BY <1>1 DEF output
<1>4. \A k \in Nat \ {0} : Blocks(text, k) => Blocks(text', k + 0)
  BY <1>3
<1>5. WrapperItems \in Seq(Fit) /\ \A k \in Nat \ {0} : Ladder(WrapperItems, k + 0, k)
  BY <1>2, WrapperFits
<1>6. BlocksFit(WrapperItems)
  BY <1>1, <1>2, <1>4, <1>5, Opened
<1>7. /\ OwedBy[Do("wrappers", this)] = UNION {OfBlock(n) : n \in ToWrappers}
      /\ RunBy[Do("wrappers", this)] = ToWrappers \cup ToChildren
  BY <1>2, OwedAt, RunAt
<1>8. \A x : HandsOn(OwedBy, todo[1], WrapperItems, emitted[x], emitted'[x], x)
  <2> SUFFICES ASSUME NEW x
               PROVE  HandsOn(OwedBy, todo[1], WrapperItems, emitted[x], emitted'[x], x)
    OBVIOUS
  <2>1. CASE x \in OwedBy[Do("wrappers", this)]
    <3>1. OneOwes(OwedBy, WrapperItems, x)
      BY <1>2, <1>7, <2>1, WrapperFits
    <3> QED
      BY <1>2, <1>3, <2>1, <3>1 DEF HandsOn
  <2>2. CASE x \notin OwedBy[Do("wrappers", this)]
    <3>1. NoneOwes(OwedBy, WrapperItems, x)
      BY <1>2, <1>7, <2>2, WrapperFits
    <3> QED
      BY <1>2, <1>3, <2>2, <3>1 DEF HandsOn
  <2> QED
    BY <2>1, <2>2
<1>9. \A x : HandsOn(RunBy, todo[1], WrapperItems, invoked[x], invoked'[x], x)
  <2> SUFFICES ASSUME NEW x
               PROVE  HandsOn(RunBy, todo[1], WrapperItems, invoked[x], invoked'[x], x)
    OBVIOUS
  <2>1. CASE x \in RunBy[Do("wrappers", this)]
    <3>1. OneOwes(RunBy, WrapperItems, x)
      BY <1>2, <1>7, <2>1, WrapperFits
    <3> QED
      BY <1>2, <1>3, <2>1, <3>1 DEF HandsOn
  <2>2. CASE x \notin RunBy[Do("wrappers", this)]
    <3>1. NoneOwes(RunBy, WrapperItems, x)
      BY <1>2, <1>7, <2>2, WrapperFits
    <3> QED
      BY <1>2, <1>3, <2>2, <3>1 DEF HandsOn
  <2> QED
    BY <2>1, <2>2
<1>10. Replaces(WrapperItems)
  BY <1>1, <1>5, <1>6, <1>8, <1>9 DEF Replaces, Continue
<1>11. emitted' \in [Nodes -> Nat] /\ invoked' \in [Nodes -> Nat]
  BY <1>2, <1>3, TablesHere DEF Tables
<1> QED
  BY <1>1, <1>2, <1>10, <1>11, SameTablesKept DEF Moves

LEMMA RunCounts ==
  ASSUME EmissionInv, gen = "running", NEW n \in Nodes,
         invoked' = [invoked EXCEPT ![n] = @ + 1]
  PROVE  /\ invoked' \in [Nodes -> Nat] /\ invoked'[n] = invoked[n] + 1
         /\ \A x \in Nodes : x # n => invoked'[x] = invoked[x]
<1>1. invoked \in [Nodes -> Nat]
  BY TablesHere DEF Tables
<1> QED
  BY <1>1

LEMMA CallingFacts == WellFormed(ast) => Calling \subseteq Nodes
BY ListedFacts DEF Calling

LEMMA CallWrapperMoves ==
  ASSUME EmissionInv, CallWrapper
  PROVE  \E op : At(op) /\ Moves
<1> DEFINE f == ast[CallOf(this)].name
           t == Refer(text, {Calls(f)})
           empty == At("wrapper") /\ ast[this].kind = "decl" /\ ReturnsVoid(f)
<1>1. PICK op \in {"wrapper", "child"} : At(op)
  BY DEF CallWrapper
<1>2. /\ ast[this].kind # "thread" /\ text' \in {text, t, Reject(t, "void")}
      /\ invoked' = (IF empty THEN invoked ELSE [invoked EXCEPT ![this] = @ + 1])
      /\ Continue(<<>>) /\ emitted' = emitted /\ SameTables
  BY DEF CallWrapper, Writes
<1>3. /\ WellFormed(ast) /\ gen = "running" /\ this \in Nodes /\ op \in Ops
      /\ todo[1] = Do(op, this)
  BY <1>1, HeadItem
<1>4. ASSUME NEW k \in Nat \ {0}, Blocks(text, k) PROVE Blocks(text', k + 0)
  <2>1. Blocks(t, k)
    BY <1>4, ReferBlocks
  <2> HIDE DEF t
  <2>2. Blocks(Reject(t, "void"), k)
    BY <2>1, ReferBlocks
  <2>3. k + 0 = k
    OBVIOUS
  <2> QED
    BY <1>2, <1>4, <2>1, <2>2, <2>3
<1>5. <<>> \in Seq(Fit) /\ \A k \in Nat \ {0} : Ladder(<<>>, k + 0, k)
  BY NilFits
<1>6. BlocksFit(<<>>)
  BY <1>1, <1>3, <1>4, <1>5, Opened
<1>7. OwedBy[Do(op, this)] = {} /\ RunBy[Do(op, this)] = {this}
  BY <1>1, <1>2, <1>3, OwedAt, RunAt DEF OfBlock
<1>8. \A x : HandsOn(OwedBy, todo[1], <<>>, emitted[x], emitted'[x], x)
  BY <1>2, <1>3, <1>7, NilOwes DEF HandsOn
<1>9. /\ invoked' \in [Nodes -> Nat] /\ (~empty => invoked'[this] = invoked[this] + 1)
      /\ \A x \in Nodes : x # this => invoked'[x] = invoked[x]
  <2>1. invoked \in [Nodes -> Nat]
    BY <1>3, TablesHere DEF Tables
  <2> HIDE DEF empty
  <2>2. CASE empty
    BY <1>2, <2>1, <2>2
  <2>3. CASE ~empty
    BY <1>2, <1>3, <2>3, RunCounts
  <2> QED
    BY <2>2, <2>3
<1>10. ASSUME NEW x \in Calling, Answers(x)
       PROVE  HandsOn(RunBy, todo[1], <<>>, invoked[x], invoked'[x], x)
  <2>1. x \in Nodes
    BY <1>3, CallingFacts
  <2>2. CASE x # this
    BY <1>3, <1>7, <1>9, <2>1, <2>2, NilOwes DEF HandsOn
  <2>3. CASE x = this
    <3>1. ~empty
      BY <1>10, <2>3 DEF Answers
    <3>2. invoked'[x] = invoked[x] + 1
      BY <1>9, <2>3, <3>1
    <3> QED
      BY <1>3, <1>7, <2>3, <3>2, NilOwes DEF HandsOn
  <2> QED
    BY <2>2, <2>3
<1>11. Replaces(<<>>)
  BY <1>2, <1>5, <1>6, <1>8, <1>10 DEF Replaces, Continue
<1>12. emitted' \in [Nodes -> Nat]
  BY <1>2, <1>3, TablesHere DEF Tables
<1> QED
  BY <1>1, <1>2, <1>3, <1>9, <1>11, <1>12, SameTablesKept DEF Moves

LEMMA BlockWrapperMoves ==
  ASSUME EmissionInv, BlockWrapper
  PROVE  At("wrapper") /\ Moves
<1>1. /\ At("wrapper") /\ ast[this].kind = "thread" /\ text' = Open(text, {})
      /\ Continue(Inside(this)) /\ invoked' = [invoked EXCEPT ![this] = @ + 1]
      /\ emitted' = emitted /\ SameTables
  BY DEF BlockWrapper, Writes
<1>2. /\ WellFormed(ast) /\ gen = "running" /\ this \in Nodes /\ "wrapper" \in Ops
      /\ todo[1] = Do("wrapper", this)
  BY <1>1, HeadItem
<1>3. \A k \in Nat \ {0} : Blocks(text, k) => Blocks(text', k + 1)
  BY <1>1, OpenBlocks
<1>4. Inside(this) \in Seq(Fit) /\ \A k \in Nat \ {0} : Ladder(Inside(this), k + 1, k)
  BY <1>1, <1>2, InsideFits
<1>5. BlocksFit(Inside(this))
  BY <1>1, <1>2, <1>3, <1>4, Opened
<1>6. OwedBy[Do("wrapper", this)] = Within(this) /\ RunBy[Do("wrapper", this)] = {this}
  BY <1>1, <1>2, OwedAt, RunAt DEF OfBlock
<1>7. \A x : /\ x \in Within(this) => OneOwes(OwedBy, Inside(this), x)
             /\ x \notin Within(this) => NoneOwes(OwedBy, Inside(this), x)
             /\ NoneOwes(RunBy, Inside(this), x)
  BY <1>2, InsideOwes
<1>8. \A x : HandsOn(OwedBy, todo[1], Inside(this), emitted[x], emitted'[x], x)
  BY <1>1, <1>2, <1>6, <1>7 DEF HandsOn
<1>9. /\ invoked' \in [Nodes -> Nat] /\ invoked'[this] = invoked[this] + 1
      /\ \A x \in Nodes : x # this => invoked'[x] = invoked[x]
  BY <1>1, <1>2, RunCounts
<1>10. ASSUME NEW x \in Calling
       PROVE  HandsOn(RunBy, todo[1], Inside(this), invoked[x], invoked'[x], x)
  <2>1. x \in Nodes
    BY <1>2, CallingFacts
  <2>2. CASE x # this
    <3>1. invoked'[x] = invoked[x]
      BY <1>9, <2>1, <2>2
    <3> QED
      BY <1>2, <1>6, <1>7, <2>2, <3>1 DEF HandsOn
  <2>3. CASE x = this
    BY <1>2, <1>6, <1>7, <1>9, <2>3 DEF HandsOn
  <2> QED
    BY <2>2, <2>3
<1>11. Replaces(Inside(this))
  BY <1>1, <1>4, <1>5, <1>8, <1>10 DEF Replaces, Continue
<1>12. emitted' \in [Nodes -> Nat]
  BY <1>1, <1>2, TablesHere DEF Tables
<1> QED
  BY <1>1, <1>2, <1>9, <1>11, <1>12, SameTablesKept DEF Moves

-----------------------------------------------------------------------------
(* The steps that do not go on with the walk *)

LEMMA HaltsKeep ==
  ASSUME EmissionInv, gen = "running", 
         gen' \in {"error", "undefined"} \/ (todo = <<>> /\ gen' = "done"),
         UNCHANGED <<input, todo, numbers, capture, nextWorker, workerOf, output>>
  PROVE  EmissionInv'
<1>1. UNCHANGED <<input, todo, processVars, names, count, saved, nextWorker, text>>
      /\ UNCHANGED <<wrapperOf, processOf, workerOf, emitted, invoked>>
  BY DEF numbers, capture, output
<1>2. Input' /\ Tables
  BY <1>1, InputKept, TablesHere DEF EmissionInv
<1>3. Nodes' = Nodes /\ Items' = Items /\ Fit' = Fit /\ OwedBy' = OwedBy /\ RunBy' = RunBy
  BY <1>1, ShapeKept, OwedKept
<1>4. EmissionTypeOK'
  BY <1>1, <1>2, <1>3 DEF EmissionInv, EmissionTypeOK, Tables
<1>5. (\E d \in Nat \ {0} : Blocks(text, d) /\ Ladder(todo, d, 1))'
  BY <1>1 DEF EmissionInv, Blocks, Ladder, Closes
<1>6. gen' = "done" => Accounts'
  <2> SUFFICES ASSUME gen' = "done" PROVE Accounts'
    OBVIOUS
  <2>1. (Simple <=> Simple') /\ Listed' = Listed /\ Calling' = Calling
    BY <1>1, ShapeKept
  <2>2. \A x : (HasText(x) <=> HasText(x)') /\ (Answers(x) <=> Answers(x)')
    BY <1>1, TextKept
  <2>3. Accounts
    BY DEF EmissionInv
  <2> QED
    BY <1>1, <1>3, <2>1, <2>2, <2>3 DEF Accounts, Settled, NoneOwes, OneOwes
<1>7. todo' \in Seq(Fit')
  BY <1>1, <1>3 DEF EmissionInv
<1> QED
  BY <1>1, <1>2, <1>4, <1>5, <1>6, <1>7 DEF EmissionInv

LEMMA StartKeeps ==
  ASSUME EmissionInv, Start
  PROVE  EmissionInv'
<1>1. /\ gen = "idle" /\ gen' = "running" /\ todo' = StartItems
      /\ wrapperOf' = Zeros /\ processOf' = Zeros /\ workerOf' = Zeros
      /\ emitted' = Zeros /\ invoked' = Zeros
      /\ UNCHANGED <<input, processVars, names, count, saved, nextWorker, text>>
  BY DEF Start, StartItems, capture
<1>2. Input /\ Input' /\ WellFormed(ast) /\ EmissionTypeOK /\ todo = <<>>
  BY <1>1, InputKept DEF EmissionInv, Input, Annotated
<1>3. Nodes' = Nodes /\ Items' = Items /\ Fit' = Fit /\ OwedBy' = OwedBy /\ RunBy' = RunBy
  BY <1>1, ShapeKept, OwedKept
<1>4. Zeros \in [Nodes -> Nat] /\ \A n \in Nodes : Zeros[n] = 0
  BY DEF Zeros, Nodes
<1>5. StartItems \in Seq(Fit) /\ Ladder(StartItems, 1, 1)
  BY <1>2, StartFits
<1>6. StartItems \in Seq(Items)
  BY <1>2, <1>5, SeqMonotonic, FitFacts
<1>7. Blocks(text, 1)
  <2>1. PICK d \in Nat \ {0} : Blocks(text, d) /\ Ladder(<<>>, d, 1)
    BY <1>2 DEF EmissionInv
  <2>2. d = 1
    BY <2>1 DEF Ladder
  <2> QED
    BY <2>1, <2>2
<1> HIDE DEF StartItems, Zeros
<1>8. EmissionTypeOK'
  BY <1>1, <1>2, <1>3, <1>4, <1>6 DEF EmissionTypeOK
<1>9. (\E d \in Nat \ {0} : Blocks(text, d) /\ Ladder(todo, d, 1))'
  <2>1. \E d \in Nat \ {0} : Blocks(text', d) /\ Ladder(todo', d, 1)
    BY <1>1, <1>5, <1>7
  <2> QED
    BY <2>1 DEF Blocks, Ladder, Closes
<1>10. Accounts'
  <2>1. (Simple <=> Simple') /\ Listed' = Listed /\ Calling' = Calling
    BY <1>1, ShapeKept
  <2>2. Listed \subseteq Nodes /\ Calling \subseteq Nodes
    BY <1>2, ListedFacts, CallingFacts
  <2>3. ASSUME Simple, NEW x \in Listed PROVE Settled(OwedBy, todo', emitted'[x], x)
    BY <1>1, <1>2, <1>4, <2>2, <2>3, StartOwes DEF Settled
  <2>4. ASSUME Simple, NEW x \in Calling PROVE Settled(RunBy, todo', invoked'[x], x)
    BY <1>1, <1>2, <1>4, <2>2, <2>4, StartRuns DEF Settled
  <2> QED
    BY <1>3, <2>1, <2>3, <2>4 DEF Accounts, Settled, NoneOwes, OneOwes
<1> QED
  BY <1>1, <1>2, <1>3, <1>5, <1>8, <1>9, <1>10 DEF EmissionInv

LEMMA EmissionStarts == EmissionInit /\ Input => EmissionInv
<1> SUFFICES ASSUME EmissionInit, Input PROVE EmissionInv
  OBVIOUS
<1>1. /\ gen = "idle" /\ todo = <<>> /\ processVars = <<>> /\ names = <<>>
      /\ count = 0 /\ saved = 0 /\ nextWorker = 1
      /\ text = [env |-> <<{}>>, errors |-> {}]
  BY DEF EmissionInit
<1>2. EmissionTypeOK
  BY <1>1, TablesAssumption DEF EmissionTypeOK
<1>3. Blocks(text, 1)
  <2>1. <<{}>> \in Seq({{}}) /\ Len(<<{}>>) = 1
    OBVIOUS
  <2> QED
    BY <1>1, <2>1 DEF Blocks
<1>4. <<>> \in Seq(Fit) /\ Ladder(<<>>, 1, 1)
  BY NilFits
<1> QED
  BY <1>1, <1>2, <1>3, <1>4 DEF EmissionInv

LEMMA EmissionSteps ==
  EmissionInv /\ [EmitProgram]_emissionVars => EmissionInv'
<1> SUFFICES ASSUME EmissionInv, EmitProgram \/ UNCHANGED emissionVars PROVE EmissionInv'
  OBVIOUS
<1>1. CASE Start
  BY <1>1, StartKeeps
<1>2. CASE AssignIds
  BY <1>2, AssignMoves, MovesKeep
<1>3. CASE Global
  BY <1>3, GlobalMoves, MovesKeep
<1>4. CASE SharedMutexes
  BY <1>4, LocksMove, MovesKeep
<1>5. CASE Worker
  BY <1>5, WorkerMoves, MovesKeep
<1>6. CASE WorkerMisread
  BY <1>6, HaltsKeep DEF WorkerMisread, At
<1>7. CASE EndWorker
  BY <1>7, EndWorkerMoves, MovesKeep
<1>8. CASE Forward
  BY <1>8, ForwardMoves, MovesKeep
<1>9. CASE FunctionText
  BY <1>9, FunctionMoves, MovesKeep
<1>10. CASE Wrappers
  BY <1>10, WrappersMove, MovesKeep
<1>11. CASE CallWrapper
  BY <1>11, CallWrapperMoves, MovesKeep
<1>12. CASE BlockWrapper
  BY <1>12, BlockWrapperMoves, MovesKeep
<1>13. CASE Main
  BY <1>13, MainMoves, MovesKeep
<1>14. CASE Close
  BY <1>14, CloseMoves, MovesKeep
<1>15. CASE ExpressionFails
  BY <1>15, HaltsKeep DEF ExpressionFails, At
<1>16. CASE \/ Declaration \/ ThreadDeclaration \/ ProcessDeclaration \/ Update
            \/ ReturnStatement \/ ThreadCallStatement \/ ThreadBlock \/ AwaitStatement
  BY <1>16, LinesMove, MovesKeep
<1>17. CASE PrintStatement
  BY <1>17, PrintMoves, MovesKeep
<1>18. CASE NothingWritten
  BY <1>18, NothingWrittenMoves, MovesKeep
<1>19. CASE IfStatement
  BY <1>19, IfMoves, MovesKeep
<1>20. CASE Else
  BY <1>20, ElseMoves, MovesKeep
<1>21. CASE ElseIf
  <2>1. CASE gen' = gen
    BY <1>21, <2>1, ElseIfMoves, MovesKeep
  <2>2. CASE gen' # gen
    <3>1. /\ gen = "running" /\ gen' = "undefined"
          /\ UNCHANGED <<input, todo, numbers, capture, nextWorker, workerOf, output>>
      BY <1>21, <2>2 DEF ElseIf, At
    <3> QED
      BY <3>1, HaltsKeep
  <2> QED
    BY <2>1, <2>2
<1>22. CASE ForLoop
  BY <1>22, ForMoves, MovesKeep
<1>23. CASE LoopHead
  BY <1>23, HeadMoves, MovesKeep
<1>24. CASE Dispatch
  BY <1>24, DispatchMoves, MovesKeep
<1>25. CASE Finish
  BY <1>25, HaltsKeep DEF Finish
<1>26. CASE UNCHANGED emissionVars
  <2>1. UNCHANGED <<input, gen, todo, numbers, capture, nextWorker, workerOf, output>>
    BY <1>26 DEF emissionVars, emission
  <2>2. UNCHANGED <<wrapperOf, processOf, processVars, names, count, saved,
                    text, emitted, invoked>>
    BY <2>1 DEF numbers, capture, output
  <2>3. /\ UNCHANGED <<Nodes, Items, Listed, Calling>> /\ (Simple <=> Simple')
        /\ UNCHANGED <<OwedBy, RunBy, Fit>>
        /\ \A x : (HasText(x) <=> HasText(x)') /\ (Answers(x) <=> Answers(x)')
    BY <2>1, ShapeKept, OwedKept, TextKept
  <2>4. Input' /\ EmissionTypeOK'
    BY <2>1, <2>2, <2>3, InputKept DEF EmissionInv, EmissionTypeOK
  <2>5. (\E d \in Nat \ {0} : Blocks(text, d) /\ Ladder(todo, d, 1))'
    <3>1. text' = text /\ todo' = todo
      BY <2>1, <2>2
    <3>2. \E d \in Nat \ {0} : Blocks(text', d) /\ Ladder(todo', d, 1)
      BY <3>1 DEF EmissionInv
    <3> QED
      BY <3>2 DEF Blocks, Ladder, Closes
  <2>6. Accounts => Accounts'
    BY <2>1, <2>2, <2>3 DEF Accounts, Settled, NoneOwes, OneOwes
  <2> QED
    BY <2>1, <2>3, <2>4, <2>5, <2>6 DEF EmissionInv
<1> QED
  BY <1>1, <1>2, <1>3, <1>4, <1>5, <1>6, <1>7, <1>8, <1>9, <1>10, <1>11, <1>12, <1>13,
     <1>14, <1>15, <1>16, <1>17, <1>18, <1>19, <1>20, <1>21, <1>22, <1>23, <1>24, <1>25,
     <1>26 DEF EmitProgram, Passes, EmitStatement

LEMMA EmissionInvariant == EmissionSpec => []EmissionInv
<1>1. EmissionInit /\ Input => EmissionInv
  BY EmissionStarts
<1>2. EmissionInv /\ [EmitProgram]_emissionVars => EmissionInv'
  BY EmissionSteps
<1> QED
  BY <1>1, <1>2, PTL DEF EmissionSpec

(* Whatever tree the parser returns and however it is marked, the walks    *)
(* keep every table within its bound: no more captured names and process   *)
(* variables than their arrays have room for, never a captured_count       *)
(* beyond the names that have been entered, and a list of open blocks that *)
(* no closing brace of the generator empties.                              *)
THEOREM EmissionTypeOKHolds == EmissionSpec => []EmissionTypeOK
<1>1. EmissionInv => EmissionTypeOK
  BY DEF EmissionInv
<1> QED
  BY <1>1, EmissionInvariant, PTL

LEMMA AllWrittenOnce == EmissionInv => EachWrittenOnce
<1> SUFFICES ASSUME EmissionInv, gen = "done", Simple
             PROVE  /\ \A n \in Listed : HasText(n) => emitted[n] = 1
                    /\ \A n \in Calling : Answers(n) => invoked[n] = 1
  BY DEF EachWrittenOnce, Simple
<1>1. todo = <<>> /\ Accounts
  BY DEF EmissionInv
<1>2. \A O, x : ~OneOwes(O, <<>>, x)
  BY DEF OneOwes
<1> QED
  BY <1>1, <1>2 DEF Accounts, Settled

(* In every program without else-if and without units inside thread blocks *)
(* or functions inside functions, of any size, emit_program writes each    *)
(* statement that has a text exactly once and one wrapper for each         *)
(* parallel call: the three groups of main and the walks for the globals,  *)
(* the functions, the workers and the wrappers leave nothing out and write *)
(* nothing twice.                                                          *)
THEOREM EachWrittenOnceHolds == EmissionSpec => []EachWrittenOnce
  BY AllWrittenOnce, EmissionInvariant, PTL
===============================================================================

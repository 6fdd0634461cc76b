-------------------------- MODULE AllocationProofs --------------------------
(***************************************************************************)
(* What Total of Quantities computes, for every finite set of elements;    *)
(* and that the shared stock is never handed out twice, and never left     *)
(* idle while an order in the queue still wants it.                        *)
(***************************************************************************)
EXTENDS Allocation, Integers, FiniteSetTheorems, TLAPS

\* Membership of a unit: the element is in S and its number is in range.
LEMMA UnitsMember ==
  ASSUME NEW f, NEW S, NEW u
  PROVE  u \in Units(f, S) <=> \E x \in S : \E k \in 1..f[x] : u = <<x, k>>
BY DEF Units

\* Finitely many elements have finitely many units.
LEMMA UnitsFinite ==
  ASSUME NEW S, IsFiniteSet(S), NEW f \in [S -> Nat]
  PROVE  IsFiniteSet(Units(f, S))
<1> DEFINE Of(x) == {x} \X (1..f[x])
           G == [x \in S |-> Of(x)]
           Img == {Of(x) : x \in S}
<1>1. G \in Surjection(S, Img)
  BY DEF Surjection
<1>2. IsFiniteSet(Img)
  BY <1>1, FS_Surjection
<1>3. ASSUME NEW T \in Img PROVE IsFiniteSet(T)
  <2>1. PICK x \in S : T = Of(x)
    OBVIOUS
  <2>2. f[x] \in Int
    OBVIOUS
  <2>3. IsFiniteSet({x})
    BY FS_Singleton
  <2>4. IsFiniteSet(1..f[x])
    BY <2>2, FS_Interval
  <2> QED
    BY <2>1, <2>3, <2>4, FS_Product
<1> QED
  BY <1>2, <1>3, FS_UNION DEF Units

\* Only the values of f on S matter.
LEMMA UnitsRestrict ==
  ASSUME NEW S, NEW f, NEW g, \A x \in S : f[x] = g[x]
  PROVE  Units(f, S) = Units(g, S)
BY DEF Units

\* A total is a natural number.
LEMMA TotalType ==
  ASSUME NEW S, IsFiniteSet(S), NEW f, \A x \in S : f[x] \in Nat
  PROVE  IsFiniteSet(Units(f, S)) /\ Total(f, S) \in Nat
<1> DEFINE g == [x \in S |-> f[x]]
<1>1. g \in [S -> Nat]
  OBVIOUS
<1>2. Units(f, S) = Units(g, S)
  BY UnitsRestrict
<1>3. IsFiniteSet(Units(f, S))
  BY <1>1, <1>2, UnitsFinite
<1> QED
  BY <1>3, FS_CardinalityType DEF Total

\* Two functions that agree on S have the same total over S.
LEMMA TotalEqual ==
  ASSUME NEW S, NEW f, NEW g, \A x \in S : f[x] = g[x]
  PROVE  Total(f, S) = Total(g, S)
BY UnitsRestrict DEF Total

\* The total over no element is zero.
LEMMA TotalEmpty ==
  ASSUME NEW f
  PROVE  Total(f, {}) = 0
<1>1. Units(f, {}) = {}
  BY DEF Units
<1> QED
  BY <1>1, FS_EmptySet DEF Total

\* Zeros add up to zero.
LEMMA TotalZeros ==
  ASSUME NEW S, NEW f, \A x \in S : f[x] = 0
  PROVE  Total(f, S) = 0
<1>1. \A x \in S : 1..f[x] = {}
  OBVIOUS
<1>2. Units(f, S) = {}
  BY <1>1 DEF Units
<1> QED
  BY <1>2, FS_EmptySet DEF Total

\* Disjoint sets: the totals add.
LEMMA TotalUnion ==
  ASSUME NEW S, NEW T, IsFiniteSet(S), IsFiniteSet(T), S \cap T = {},
         NEW f, \A x \in S \cup T : f[x] \in Nat
  PROVE  Total(f, S \cup T) = Total(f, S) + Total(f, T)
<1>1. IsFiniteSet(Units(f, S)) /\ IsFiniteSet(Units(f, T))
  BY TotalType
<1>2. Units(f, S \cup T) = Units(f, S) \cup Units(f, T)
  BY DEF Units
<1>3. Units(f, S) \cap Units(f, T) = {}
  <2>1. SUFFICES ASSUME NEW u, u \in Units(f, S), u \in Units(f, T)
                 PROVE  FALSE
    OBVIOUS
  <2>2. PICK x \in S : \E k \in 1..f[x] : u = <<x, k>>
    BY <2>1, UnitsMember
  <2>3. PICK y \in T : \E k \in 1..f[y] : u = <<y, k>>
    BY <2>1, UnitsMember
  <2> QED
    BY <2>2, <2>3
<1>4. Total(f, S) \in Nat /\ Total(f, T) \in Nat
  BY TotalType
<1> DEFINE A == Units(f, S)
           B == Units(f, T)
<1>5. Cardinality(A \cap B) = 0
  BY <1>3, FS_EmptySet
<1>6. Cardinality(A \cup B) = Cardinality(A) + Cardinality(B) - Cardinality(A \cap B)
  BY <1>1, FS_Union
<1>7. /\ Total(f, S) = Cardinality(A) /\ Total(f, T) = Cardinality(B)
      /\ Total(f, S \cup T) = Cardinality(A \cup B)
  BY <1>2 DEF Total
<1> QED
  BY <1>4, <1>5, <1>6, <1>7

\* The total over one element is its value.
LEMMA TotalSingle ==
  ASSUME NEW x, NEW f, f[x] \in Nat
  PROVE  Total(f, {x}) = f[x]
<1> DEFINE n == f[x]
           B == [k \in 1..n |-> <<x, k>>]
<1>1. Units(f, {x}) = {x} \X (1..n)
  BY DEF Units
<1>2. IsFiniteSet({x}) /\ Cardinality({x}) = 1
  BY FS_Singleton
<1>3. IsFiniteSet(1..n) /\ Cardinality(1..n) = n
  BY FS_Interval
<1>4. Cardinality({x} \X (1..n)) = 1 * n
  BY <1>2, <1>3, FS_Product, ZenonT(30)
<1>5. 1 * n = n
  OBVIOUS
<1> QED
  BY <1>1, <1>4, <1>5 DEF Total

\* Taking one element of S apart.
LEMMA TotalRemove ==
  ASSUME NEW S, IsFiniteSet(S), NEW x \in S, NEW f, \A y \in S : f[y] \in Nat
  PROVE  Total(f, S) = f[x] + Total(f, S \ {x})
<1>1. IsFiniteSet({x}) /\ IsFiniteSet(S \ {x})
  BY FS_Singleton, FS_RemoveElement
<1>2. S = {x} \cup (S \ {x}) /\ {x} \cap (S \ {x}) = {}
  OBVIOUS
<1>3. Total(f, {x} \cup (S \ {x})) = Total(f, {x}) + Total(f, S \ {x})
  BY <1>1, <1>2, TotalUnion
<1> QED
  BY <1>2, <1>3, TotalSingle

\* With one element more, Total is what it was plus the value of that element: the
\* loop of the sums over lines and reservation rows, one round at a time.
THEOREM TotalAdd ==
  ASSUME NEW S, IsFiniteSet(S), NEW x, x \notin S, NEW f,
         \A y \in S \cup {x} : f[y] \in Nat
  PROVE  Total(f, S \cup {x}) = Total(f, S) + f[x]
<1>1. IsFiniteSet({x}) /\ S \cap {x} = {}
  BY FS_Singleton
<1>2. Total(f, S \cup {x}) = Total(f, S) + Total(f, {x})
  BY <1>1, TotalUnion
<1> QED
  BY <1>2, TotalSingle

\* A larger set has a larger total.
LEMMA TotalMonotone ==
  ASSUME NEW T, IsFiniteSet(T), NEW S \in SUBSET T,
         NEW f, \A x \in T : f[x] \in Nat
  PROVE  Total(f, S) <= Total(f, T)
<1>1. IsFiniteSet(S)
  BY FS_Subset
<1>2. IsFiniteSet(Units(f, T))
  BY TotalType
<1>3. Units(f, S) \subseteq Units(f, T)
  BY DEF Units
<1> QED
  BY <1>2, <1>3, FS_Subset DEF Total

\* Pointwise sums: the total of f + g is the sum of the totals.
THEOREM TotalSum ==
  ASSUME NEW S, IsFiniteSet(S), NEW f, NEW g, NEW h,
         \A x \in S : f[x] \in Nat /\ g[x] \in Nat /\ h[x] = f[x] + g[x]
  PROVE  Total(h, S) = Total(f, S) + Total(g, S)
<1> DEFINE Old == Units(f, S)
           All == Units(h, S)
           New == Units(g, S)
           Shift == [u \in New |-> <<u[1], f[u[1]] + u[2]>>]
<1>1. /\ IsFiniteSet(Old) /\ IsFiniteSet(All) /\ IsFiniteSet(New)
      /\ Total(f, S) \in Nat /\ Total(g, S) \in Nat /\ Total(h, S) \in Nat
  BY TotalType
<1>2. Old \subseteq All
  <2>1. SUFFICES ASSUME NEW u \in Old PROVE u \in All
    OBVIOUS
  <2>2. PICK x \in S : \E k \in 1..f[x] : u = <<x, k>>
    BY UnitsMember
  <2>3. \A k \in 1..f[x] : k \in 1..h[x]
    OBVIOUS
  <2> QED
    BY <2>2, <2>3, UnitsMember
<1>3. Shift \in Bijection(New, All \ Old)
  <2>1. ASSUME NEW u \in New PROVE Shift[u] \in All \ Old
    <3>1. PICK x \in S : \E k \in 1..g[x] : u = <<x, k>>
      BY UnitsMember
    <3>2. PICK k \in 1..g[x] : u = <<x, k>>
      BY <3>1
    <3>3. Shift[u] = <<x, f[x] + k>>
      BY <3>2
    <3>4. f[x] + k \in 1..h[x] /\ f[x] + k \notin 1..f[x]
      OBVIOUS
    <3>5. Shift[u] \in All
      BY <3>3, <3>4, UnitsMember
    <3>6. Shift[u] \notin Old
      BY <3>3, <3>4, UnitsMember
    <3> QED
      BY <3>5, <3>6
  <2>2. Shift \in [New -> All \ Old]
    BY <2>1
  <2>3. ASSUME NEW u \in New, NEW v \in New, Shift[u] = Shift[v]
        PROVE  u = v
    <3>1. PICK x \in S : \E k \in 1..g[x] : u = <<x, k>>
      BY UnitsMember
    <3>2. PICK y \in S : \E k \in 1..g[y] : v = <<y, k>>
      BY UnitsMember
    <3>3. PICK k \in 1..g[x] : u = <<x, k>>
      BY <3>1
    <3>4. PICK l \in 1..g[y] : v = <<y, l>>
      BY <3>2
    <3>5. Shift[u] = <<x, f[x] + k>> /\ Shift[v] = <<y, f[y] + l>>
      BY <3>3, <3>4
    <3>6. x = y /\ f[x] + k = f[y] + l
      BY <2>3, <3>5
    <3>7. k = l
      BY <3>6
    <3> QED
      BY <3>3, <3>4, <3>6, <3>7
  <2>4. ASSUME NEW w \in All \ Old PROVE \E u \in New : Shift[u] = w
    <3>1. PICK x \in S : \E k \in 1..h[x] : w = <<x, k>>
      BY UnitsMember
    <3>2. PICK k \in 1..h[x] : w = <<x, k>>
      BY <3>1
    <3>3. k \notin 1..f[x]
      BY <3>2, UnitsMember
    <3>4. k - f[x] \in 1..g[x]
      BY <3>3
    <3>5. <<x, k - f[x]>> \in New
      BY <3>4, UnitsMember
    <3>6. Shift[<<x, k - f[x]>>] = <<x, f[x] + (k - f[x])>>
      BY <3>5
    <3>7. f[x] + (k - f[x]) = k
      OBVIOUS
    <3> QED
      BY <3>2, <3>5, <3>6, <3>7
  <2> HIDE DEF Shift
  <2>5. Shift \in Injection(New, All \ Old)
    BY <2>2, <2>3 DEF Injection, IsInjective
  <2>6. Shift \in Surjection(New, All \ Old)
    BY <2>2, <2>4 DEF Surjection
  <2> QED
    BY <2>5, <2>6 DEF Bijection
<1>4. Cardinality(All \ Old) = Cardinality(New)
  BY <1>1, <1>3, FS_Bijection DEF ExistsBijection
<1>5. Cardinality(All \ Old) = Cardinality(All) - Cardinality(All \cap Old)
  BY <1>1, FS_Difference
<1>6. All \cap Old = Old
  BY <1>2
<1>7. Total(h, S) = Cardinality(All) /\ Total(f, S) = Cardinality(Old)
      /\ Total(g, S) = Cardinality(New)
  BY DEF Total
<1>8. Cardinality(New) = Cardinality(All) - Cardinality(Old)
  BY <1>4, <1>5, <1>6
<1>9. Total(g, S) = Total(h, S) - Total(f, S)
  BY <1>7, <1>8
<1> HIDE DEF Old, All, New, Shift
<1> QED
  BY <1>1, <1>9

-----------------------------------------------------------------------------
\* (approved_at, id) is a strict total order on orders.
LEMMA BeforeOrder ==
  ASSUME NEW Q \in SUBSET Nat, NEW at, \A x \in Q : at[x] \in Nat
  PROVE  /\ \A a, b \in Q : a # b => Before(at, a, b) \/ Before(at, b, a)
         /\ \A a, b, c \in Q : Before(at, a, b) /\ Before(at, b, c)
                                 => Before(at, a, c)
         /\ \A a \in Q : ~Before(at, a, a)
BY DEF Before

\* The demand ahead of an order includes all of an earlier order's demand.
LEMMA AheadDemand ==
  ASSUME NEW Q \in SUBSET Nat, IsFiniteSet(Q), NEW at, \A x \in Q : at[x] \in Nat,
         NEW want, \A x \in Q : want[x] \in Nat,
         NEW a \in Q, NEW b \in Q, Before(at, a, b)
  PROVE  /\ Total(want, AheadOf(Q, at, a)) \in Nat
         /\ Total(want, AheadOf(Q, at, b)) \in Nat
         /\ Total(want, AheadOf(Q, at, a)) + want[a]
              <= Total(want, AheadOf(Q, at, b))
<1> DEFINE A == AheadOf(Q, at, a)
           B == AheadOf(Q, at, b)
<1>1. /\ IsFiniteSet(A) /\ IsFiniteSet(B) /\ A \subseteq Q /\ B \subseteq Q
      /\ IsFiniteSet(B \ {a})
  BY FS_Subset DEF AheadOf
<1>2. a \in B /\ A \subseteq B \ {a}
  <2>1. /\ \A x, y, z \in Q : Before(at, x, y) /\ Before(at, y, z) => Before(at, x, z)
        /\ \A x \in Q : ~Before(at, x, x)
    BY BeforeOrder
  <2> QED
    BY <2>1 DEF AheadOf
<1>3. /\ \A x \in B : want[x] \in Nat
      /\ \A x \in A : want[x] \in Nat
  BY <1>1
<1> HIDE DEF A, B
<1>4. Total(want, B) = want[a] + Total(want, B \ {a})
  BY <1>1, <1>2, <1>3, TotalRemove
<1>5. Total(want, A) <= Total(want, B \ {a})
  BY <1>1, <1>2, <1>3, TotalMonotone
<1>6. /\ Total(want, A) \in Nat /\ Total(want, B) \in Nat
      /\ Total(want, B \ {a}) \in Nat
  BY <1>1, <1>3, TotalType
<1>7. Total(want, A) + want[a] <= Total(want, B)
  BY <1>4, <1>5, <1>6
<1> QED
  BY <1>6, <1>7 DEF A, B

\* A grant is a natural number and never more than the demand.
LEMMA GrantType ==
  ASSUME NEW Q \in SUBSET Nat, IsFiniteSet(Q), NEW at, \A x \in Q : at[x] \in Nat,
         NEW want, \A x \in Q : want[x] \in Nat, NEW avail \in Nat, NEW o \in Q
  PROVE  /\ Grant(want, avail, Q, at, o) \in Nat
         /\ Grant(want, avail, Q, at, o) <= want[o]
         /\ Total(want, AheadOf(Q, at, o)) \in Nat
         /\ Grant(want, avail, Q, at, o) > 0 =>
              Total(want, AheadOf(Q, at, o)) + Grant(want, avail, Q, at, o) <= avail
<1> DEFINE D == Total(want, AheadOf(Q, at, o))
<1>1. D \in Nat
  <2>1. AheadOf(Q, at, o) \in SUBSET Q
    BY DEF AheadOf
  <2>2. IsFiniteSet(AheadOf(Q, at, o))
    BY <2>1, FS_Subset
  <2> QED
    BY <2>1, <2>2, TotalType
<1> HIDE DEF D
<1>2. Grant(want, avail, Q, at, o) = AtMost(want[o], Beyond(avail, D))
  BY DEF Grant, D
<1>3. Beyond(avail, D) \in Nat /\ (Beyond(avail, D) > 0 => D + Beyond(avail, D) = avail)
  BY <1>1 DEF Beyond
<1>4. /\ AtMost(want[o], Beyond(avail, D)) \in Nat
      /\ AtMost(want[o], Beyond(avail, D)) <= want[o]
      /\ AtMost(want[o], Beyond(avail, D)) <= Beyond(avail, D)
  BY <1>3 DEF AtMost
<1>5. Grant(want, avail, Q, at, o) > 0 =>
        D + Grant(want, avail, Q, at, o) <= avail
  BY <1>1, <1>2, <1>3, <1>4
<1> QED
  BY <1>1, <1>2, <1>4, <1>5 DEF D

\* Unit k of the demand of order o has serial number (demand ahead of o) + k.
Serial(want, Q, at, got) ==
  [u \in Units(got, Q) |-> Total(want, AheadOf(Q, at, u[1])) + u[2]]

\* The first got[o] units of every order have serial numbers of their own.
LEMMA SerialInjective ==
  ASSUME NEW Q \in SUBSET Nat, IsFiniteSet(Q), NEW at, \A x \in Q : at[x] \in Nat,
         NEW want, \A x \in Q : want[x] \in Nat, NEW last \in Nat,
         NEW got, \A o \in Q : /\ got[o] \in Nat /\ got[o] <= want[o]
                               /\ Total(want, AheadOf(Q, at, o)) \in Nat
                               /\ got[o] > 0 =>
                                    Total(want, AheadOf(Q, at, o)) + got[o] <= last
  PROVE  Serial(want, Q, at, got) \in Injection(Units(got, Q), 1..last)
<1> DEFINE D(o) == Total(want, AheadOf(Q, at, o))
           U == Units(got, Q)
           Unit == Serial(want, Q, at, got)
<1>1. \A o \in Q : /\ got[o] \in Nat /\ got[o] <= want[o] /\ D(o) \in Nat
                   /\ got[o] > 0 => D(o) + got[o] <= last
  OBVIOUS
<1>2. \A a, b \in Q : Before(at, a, b) => D(a) + want[a] <= D(b)
  BY AheadDemand
<1>3. Unit = [u \in U |-> D(u[1]) + u[2]]
  BY DEF Serial
<1> HIDE DEF D, Unit
<1>4. ASSUME NEW u \in U
      PROVE  \E o \in Q : \E k \in 1..got[o] : u = <<o, k>> /\ Unit[u] = D(o) + k
  <2>0. u \in Units(got, Q)
    OBVIOUS
  <2>1. PICK o \in Q : \E k \in 1..got[o] : u = <<o, k>>
    BY <2>0 DEF Units
  <2>2. PICK k \in 1..got[o] : u = <<o, k>>
    BY <2>1
  <2>3. Unit[u] = D(o) + k
    BY <1>3, <2>2
  <2> QED
    BY <2>2, <2>3
<1> HIDE DEF U
<1>5. Unit \in [U -> 1..last]
  <2>1. ASSUME NEW u \in U PROVE Unit[u] \in 1..last
    <3>1. PICK o \in Q : \E k \in 1..got[o] : u = <<o, k>> /\ Unit[u] = D(o) + k
      BY <1>4
    <3>2. PICK k \in 1..got[o] : Unit[u] = D(o) + k
      BY <3>1
    <3>3. got[o] \in Nat /\ D(o) \in Nat /\ D(o) + got[o] <= last /\ k \in Nat
          /\ 1 <= k /\ k <= got[o]
      BY <1>1
    <3> QED
      BY <3>2, <3>3
  <2> QED
    BY <1>3, <2>1
<1>6. ASSUME NEW u \in U, NEW v \in U, Unit[u] = Unit[v]
      PROVE  u = v
  <2>1. PICK a \in Q : \E k \in 1..got[a] : u = <<a, k>> /\ Unit[u] = D(a) + k
    BY <1>4
  <2>2. PICK b \in Q : \E k \in 1..got[b] : v = <<b, k>> /\ Unit[v] = D(b) + k
    BY <1>4
  <2>3. PICK k \in 1..got[a] : u = <<a, k>> /\ Unit[u] = D(a) + k
    BY <2>1
  <2>4. PICK l \in 1..got[b] : v = <<b, l>> /\ Unit[v] = D(b) + l
    BY <2>2
  <2>5. /\ k \in Nat /\ l \in Nat /\ 1 <= k /\ 1 <= l /\ D(a) \in Nat /\ D(b) \in Nat
        /\ want[a] \in Nat /\ want[b] \in Nat /\ k <= want[a] /\ l <= want[b]
    BY <1>1
  <2>6. D(a) + k = D(b) + l
    BY <1>6, <2>3, <2>4
  <2>7. ~Before(at, a, b)
    BY <1>2, <2>5, <2>6
  <2>8. ~Before(at, b, a)
    BY <1>2, <2>5, <2>6
  <2>9. a = b
    BY <2>7, <2>8, BeforeOrder
  <2>10. k = l
    BY <2>5, <2>6, <2>9
  <2> QED
    BY <2>3, <2>4, <2>9, <2>10
<1>7. Unit \in Injection(U, 1..last)
  BY <1>5, <1>6 DEF Injection, IsInjective
<1> QED
  BY <1>7 DEF Unit, U

\* The grants of the whole queue together never exceed the free stock: they
\* are units with serial numbers up to avail, no two the same.
THEOREM GrantsWithinStock ==
  ASSUME NEW Q \in SUBSET Nat, IsFiniteSet(Q), NEW at, \A x \in Q : at[x] \in Nat,
         NEW want, \A x \in Q : want[x] \in Nat, NEW avail \in Nat,
         NEW got, \A o \in Q : got[o] = Grant(want, avail, Q, at, o)
  PROVE  Total(got, Q) \in Nat /\ Total(got, Q) <= avail
<1>1. \A o \in Q : /\ got[o] \in Nat /\ got[o] <= want[o]
                   /\ Total(want, AheadOf(Q, at, o)) \in Nat
                   /\ got[o] > 0 => Total(want, AheadOf(Q, at, o)) + got[o] <= avail
  BY GrantType
<1>2. Serial(want, Q, at, got) \in Injection(Units(got, Q), 1..avail)
  BY <1>1, SerialInjective
<1>3. IsFiniteSet(1..avail) /\ Cardinality(1..avail) = avail
  BY FS_Interval
<1>4. Cardinality(Units(got, Q)) <= avail
  BY <1>2, <1>3, FS_Injection
<1>5. Total(got, Q) \in Nat
  BY <1>1, TotalType
<1> QED
  BY <1>4, <1>5 DEF Total

\* No stock is left idle: the grants add up to all the free stock, unless
\* every order is given all it wants.  Every serial number up to the whole
\* demand belongs to a unit, and the units up to avail are all given.
THEOREM GrantsUseStock ==
  ASSUME NEW Q \in SUBSET Nat, IsFiniteSet(Q), NEW at, \A x \in Q : at[x] \in Nat,
         NEW want, \A x \in Q : want[x] \in Nat, NEW avail \in Nat,
         NEW got, \A o \in Q : got[o] = Grant(want, avail, Q, at, o)
  PROVE  Total(got, Q) = avail \/ \A o \in Q : got[o] = want[o]
<1>0. SUFFICES ASSUME NEW short \in Q, got[short] < want[short]
               PROVE  Total(got, Q) = avail
  <2>1. \A o \in Q : got[o] \in Nat /\ got[o] <= want[o]
    BY GrantType
  <2> QED
    BY <2>1
<1> DEFINE D(o) == Total(want, AheadOf(Q, at, o))
           N == Total(want, Q)
<1>1. \A o \in Q : /\ got[o] \in Nat /\ got[o] <= want[o] /\ D(o) \in Nat
                   /\ got[o] > 0 => D(o) + got[o] <= avail
  BY GrantType
<1>2. N \in Nat /\ IsFiniteSet(Units(want, Q)) /\ IsFiniteSet(Units(got, Q))
  BY <1>1, TotalType
<1>3. ASSUME NEW o \in Q
      PROVE  D(o) + want[o] <= N
  <2> DEFINE A == AheadOf(Q, at, o)
  <2>1. A \in SUBSET Q /\ o \notin A
    BY BeforeOrder DEF AheadOf
  <2>2. IsFiniteSet(A) /\ A \cup {o} \in SUBSET Q
    BY <2>1, FS_Subset
  <2> HIDE DEF A
  <2>3. Total(want, A \cup {o}) = Total(want, A) + want[o]
    <3>1. \A y \in A \cup {o} : want[y] \in Nat
      BY <2>2
    <3> QED
      BY <2>1, <2>2, <3>1, TotalAdd
  <2>4. Total(want, A \cup {o}) <= N
    BY <2>2, TotalMonotone
  <2> QED
    BY <2>3, <2>4 DEF A
<1>4. \A o \in Q : got[o] = AtMost(want[o], Beyond(avail, D(o)))
  BY DEF Grant
<1> HIDE DEF D, N
<1>5. avail < N
  <2>1. /\ avail \in Nat /\ want[short] \in Nat /\ D(short) \in Nat /\ N \in Nat
        /\ D(short) + want[short] <= N
    BY <1>1, <1>2, <1>3
  <2>2. Beyond(avail, D(short)) < want[short]
    BY <1>0, <1>4, <2>1 DEF AtMost, Beyond
  <2> QED
    BY <2>1, <2>2 DEF Beyond
<1>6. Serial(want, Q, at, want) \in Surjection(Units(want, Q), 1..N)
  <2>1. Serial(want, Q, at, want) \in Injection(Units(want, Q), 1..N)
    <3>1. \A o \in Q : /\ want[o] \in Nat /\ want[o] <= want[o]
                       /\ Total(want, AheadOf(Q, at, o)) \in Nat
                       /\ want[o] > 0 =>
                            Total(want, AheadOf(Q, at, o)) + want[o] <= N
      BY <1>1, <1>3 DEF D
    <3> QED
      BY <1>2, <3>1, SerialInjective
  <2>2. IsFiniteSet(1..N) /\ Cardinality(1..N) = N
    <3>1. N \in Int /\ 1 \in Int /\ (1 <= N => N - 1 + 1 = N) /\ (1 > N => N = 0)
      BY <1>2
    <3> QED
      BY <3>1, FS_Interval
  <2>3. Cardinality(Units(want, Q)) = N
    BY DEF N, Total
  <2> QED
    BY <2>1, <2>2, <2>3, FS_Injection
<1>7. Serial(want, Q, at, got) \in Surjection(Units(got, Q), 1..avail)
  <2>1. Serial(want, Q, at, got) \in [Units(got, Q) -> 1..avail]
    <3>1. \A o \in Q : /\ got[o] \in Nat /\ got[o] <= want[o]
                       /\ Total(want, AheadOf(Q, at, o)) \in Nat
                       /\ got[o] > 0 =>
                            Total(want, AheadOf(Q, at, o)) + got[o] <= avail
      BY <1>1 DEF D
    <3> QED
      BY <3>1, SerialInjective DEF Injection
  <2>2. ASSUME NEW k \in 1..avail
        PROVE  \E u \in Units(got, Q) : Serial(want, Q, at, got)[u] = k
    <3>1. k \in 1..N /\ k \in Nat /\ 1 <= k /\ k <= avail
      BY <1>2, <1>5
    <3>2. PICK u \in Units(want, Q) : Serial(want, Q, at, want)[u] = k
      BY <1>6, <3>1 DEF Surjection
    <3>3. PICK o \in Q : \E j \in 1..want[o] : u = <<o, j>>
      BY <3>2 DEF Units
    <3>4. PICK j \in 1..want[o] : u = <<o, j>>
      BY <3>3
    <3>5. D(o) + j = k
      BY <3>2, <3>4 DEF Serial, D
    <3>6. j \in 1..got[o]
      <4>1. /\ D(o) \in Nat /\ j \in Nat /\ 1 <= j /\ j <= want[o] /\ want[o] \in Nat
        BY <1>1
      <4>2. j <= Beyond(avail, D(o)) /\ Beyond(avail, D(o)) \in Nat
        BY <3>1, <3>5, <4>1 DEF Beyond
      <4>3. j <= AtMost(want[o], Beyond(avail, D(o)))
        BY <4>1, <4>2 DEF AtMost
      <4>4. j <= got[o]
        BY <1>4, <4>3
      <4> QED
        BY <1>1, <4>1, <4>4
    <3>7. u \in Units(got, Q)
      BY <3>4, <3>6 DEF Units
    <3>8. Serial(want, Q, at, got)[u] = k
      BY <3>4, <3>5, <3>7 DEF Serial, D
    <3> QED
      BY <3>7, <3>8
  <2> QED
    BY <2>1, <2>2 DEF Surjection
<1>8. avail <= Cardinality(Units(got, Q))
  <2>1. IsFiniteSet(1..avail) /\ Cardinality(1..avail) = avail
    BY FS_Interval
  <2> QED
    BY <1>2, <1>7, <2>1, FS_Surjection
<1>9. Total(got, Q) \in Nat /\ Total(got, Q) <= avail
  BY GrantsWithinStock
<1> QED
  BY <1>8, <1>9 DEF Total

\* Strict priority: whoever stands ahead of an order that is given a unit
\* has had its whole demand met.
THEOREM GrantPriority ==
  ASSUME NEW Q \in SUBSET Nat, IsFiniteSet(Q), NEW at, \A x \in Q : at[x] \in Nat,
         NEW want, \A x \in Q : want[x] \in Nat, NEW avail \in Nat,
         NEW a \in Q, NEW b \in Q, Before(at, a, b),
         Grant(want, avail, Q, at, b) > 0
  PROVE  Grant(want, avail, Q, at, a) = want[a]
<1> DEFINE Da == Total(want, AheadOf(Q, at, a))
           Db == Total(want, AheadOf(Q, at, b))
<1>1. Da \in Nat /\ Db \in Nat /\ Da + want[a] <= Db
  BY AheadDemand
<1>2. Db + Grant(want, avail, Q, at, b) <= avail /\ Grant(want, avail, Q, at, b) \in Nat
  BY GrantType
<1>3. Grant(want, avail, Q, at, a) = AtMost(want[a], Beyond(avail, Da))
  BY DEF Grant
<1> HIDE DEF Da, Db
<1>4. Da + want[a] <= avail /\ want[a] \in Nat
  BY <1>1, <1>2
<1>5. want[a] <= Beyond(avail, Da)
  BY <1>1, <1>4 DEF Beyond
<1> QED
  BY <1>3, <1>5 DEF AtMost
=============================================================================

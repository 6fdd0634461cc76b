------------------------ MODULE AllocationLoopProofs ------------------------
(***************************************************************************)
(* The loops compute the closed form, for every set of orders and products *)
(* and every quantity, and so does the allocation in memory.               *)
(***************************************************************************)
EXTENDS DomainInventory, AllocationProofs, WellFoundedInduction

\* The orders whose line of product p the loops have been through.
Served(p) == {o \in queue : <<o, p>> \in done}
GivenTo(p) == [o \in Orders |-> Given(o, p)]

\* The loops go down the queue: nobody is served before an order ahead of it.
InQueueOrder ==
  \A a, b \in queue, p \in Products :
    Before(approvedAt, a, b) /\ <<b, p>> \in done => <<a, p>> \in done

\* What the inputs satisfy.
SoundInput ==
  \A p \in Products :
    /\ start.reserved[p] <= onHand[p]
    /\ \A o \in Orders : start.reservation[o][p] <= line[o][p]

\* Served lines have their grant, the others are as they were.
LinesSoFar ==
  \A o \in Orders, p \in Products :
    reservation[o][p] = start.reservation[o][p]
                          + (IF <<o, p>> \in done THEN Given(o, p) ELSE 0)

\* What is left of each product is what the orders served have not taken.
StockSoFar ==
  \A p \in Products :
    /\ reserved[p] <= onHand[p]
    /\ onHand[p] - reserved[p] = Beyond(Free(p), Total(Wanted(p), Served(p)))
    /\ reserved[p] = start.reserved[p] + Total(GivenTo(p), Served(p))

IInv == TypeOK /\ InQueueOrder /\ SoundInput /\ LinesSoFar /\ StockSoFar

\* The inputs of the closed form are quantities.
LEMMA LoopInputs ==
  ASSUME TypeOK, SoundInput, NEW p \in Products
  PROVE  /\ Free(p) \in Nat
         /\ \A o \in Orders : Wanted(p)[o] \in Nat
         /\ queue \in SUBSET Nat /\ IsFiniteSet(queue)
         /\ \A o \in queue : approvedAt[o] \in Nat /\ o \in Orders
         /\ \A o \in Orders : GivenTo(p)[o] = Given(o, p) /\ Given(o, p) \in Nat
         /\ \A o \in Orders \ queue : Given(o, p) = 0
<1>1. Free(p) \in Nat /\ \A o \in Orders : Wanted(p)[o] \in Nat
  BY DEF TypeOK, SoundInput, Free, Wanted
<1>2. queue \in SUBSET Nat /\ IsFiniteSet(queue)
  BY LoopOrdersAssumption, FS_Subset DEF TypeOK
<1>3. \A o \in queue : approvedAt[o] \in Nat /\ o \in Orders
  BY DEF TypeOK
<1>4. \A o \in Orders \ queue : Given(o, p) = 0
  BY DEF Given, Grant
<1>5. \A o \in queue : Wanted(p)[o] \in Nat
  BY <1>1, <1>3
<1>6. \A o \in queue : Given(o, p) \in Nat
  BY <1>1, <1>2, <1>3, <1>5, GrantType DEF Given
<1>7. \A o \in Orders : Given(o, p) \in Nat
  BY <1>4, <1>6
<1>8. \A o \in Orders : GivenTo(p)[o] = Given(o, p)
  BY DEF GivenTo
<1> QED
  BY <1>1, <1>2, <1>3, <1>4, <1>7, <1>8

LEMMA LoopInit == Init => IInv
<1> SUFFICES ASSUME Init PROVE IInv
  OBVIOUS
<1>1. TypeOK
  <2>1. 0..MaxTime \subseteq Nat /\ 0..MaxQuantity \subseteq Nat /\ 0..MaxStock \subseteq Nat
    BY LoopBoundsAssumption
  <2> QED
    BY <2>1 DEF Init, TypeOK
<1>2. InQueueOrder /\ SoundInput
  BY DEF Init, InQueueOrder, SoundInput
<1>3. LinesSoFar
  BY <1>1 DEF Init, LinesSoFar, TypeOK
<1>4. ASSUME NEW p \in Products
      PROVE  /\ reserved[p] <= onHand[p]
             /\ onHand[p] - reserved[p] = Beyond(Free(p), Total(Wanted(p), Served(p)))
             /\ reserved[p] = start.reserved[p] + Total(GivenTo(p), Served(p))
  <2>1. Served(p) = {}
    BY DEF Init, Served
  <2>2. Total(Wanted(p), Served(p)) = 0 /\ Total(GivenTo(p), Served(p)) = 0
    BY <2>1, TotalEmpty
  <2>3. Free(p) = onHand[p] - reserved[p] /\ start.reserved[p] = reserved[p]
        /\ reserved[p] <= onHand[p] /\ onHand[p] \in Nat /\ reserved[p] \in Nat
    BY <1>1 DEF Init, Free, TypeOK
  <2> QED
    BY <2>2, <2>3 DEF Beyond
<1> QED
  BY <1>1, <1>2, <1>3, <1>4 DEF IInv, StockSoFar

\* The orders served before o are exactly those ahead of it.
LEMMA ServedIsAhead ==
  ASSUME TypeOK, SoundInput, InQueueOrder,
         NEW o \in queue, NEW p \in Products, <<o, p>> \notin done,
         \A a \in AheadOf(queue, approvedAt, o) : {a} \X Products \subseteq done
  PROVE  Served(p) = AheadOf(queue, approvedAt, o)
<1>1. AheadOf(queue, approvedAt, o) \subseteq Served(p)
  BY DEF AheadOf, Served
<1>2. ASSUME NEW b \in Served(p) PROVE b \in AheadOf(queue, approvedAt, o)
  <2>1. b \in queue /\ <<b, p>> \in done /\ b # o
    BY DEF Served
  <2>2. ~Before(approvedAt, o, b)
    BY <2>1 DEF InQueueOrder
  <2>3. queue \in SUBSET Nat /\ \A x \in queue : approvedAt[x] \in Nat
    BY LoopInputs
  <2>4. Before(approvedAt, b, o)
    BY <2>1, <2>2, <2>3, BeforeOrder
  <2> QED
    BY <2>1, <2>4 DEF AheadOf
<1> QED
  BY <1>1, <1>2

\* An iteration gives the line its grant and takes it out of the stock.
LEMMA IterationGives ==
  ASSUME IInv, NEW o \in Orders, NEW p \in Products, ServeLine(o, p)
  PROVE  /\ Given(o, p) \in Nat
         /\ reservation[o][p] = start.reservation[o][p]
         /\ reservation' = [reservation EXCEPT ![o][p] = @ + Given(o, p)]
         /\ reserved' = [reserved EXCEPT ![p] = @ + Given(o, p)]
         /\ Given(o, p) <= onHand[p] - reserved[p]
         /\ Beyond(Free(p), Total(Wanted(p), Served(p)) + Wanted(p)[o])
              = (onHand[p] - reserved[p]) - Given(o, p)
<1> DEFINE D == Total(Wanted(p), Served(p))
           w == Wanted(p)[o]
           left == onHand[p] - reserved[p]
           g == Given(o, p)
<1>1. o \in queue /\ <<o, p>> \notin done
      /\ \A a \in AheadOf(queue, approvedAt, o) : {a} \X Products \subseteq done
  BY DEF ServeLine, Serves
<1>2. Served(p) = AheadOf(queue, approvedAt, o)
  BY <1>1, ServedIsAhead DEF IInv
<1>3. w \in Nat /\ Free(p) \in Nat /\ g \in Nat
  BY LoopInputs DEF IInv
<1>4. D \in Nat
  <2>1. Served(p) \in SUBSET queue /\ IsFiniteSet(queue)
        /\ \A x \in queue : Wanted(p)[x] \in Nat
    BY LoopInputs DEF Served, IInv
  <2>2. IsFiniteSet(Served(p)) /\ \A x \in Served(p) : Wanted(p)[x] \in Nat
    BY <2>1, FS_Subset
  <2> QED
    BY <2>2, TotalType
<1>5. left = Beyond(Free(p), D) /\ left \in Nat
  <2>1. left = Beyond(Free(p), D)
    BY DEF IInv, StockSoFar
  <2> QED
    BY <2>1, <1>3, <1>4 DEF Beyond
<1>6. g = AtMost(w, Beyond(Free(p), D))
  BY <1>1, <1>2 DEF Given, Grant
<1>7. reservation[o][p] = start.reservation[o][p]
  BY <1>1 DEF IInv, LinesSoFar, TypeOK
<1>8. Remaining(o, p) = w
  BY <1>7 DEF Remaining, Wanted
<1>9. Taken(o, p) = g
  BY <1>5, <1>6, <1>8 DEF Taken
<1>10. /\ reservation' = [reservation EXCEPT ![o][p] = @ + g]
       /\ reserved' = [reserved EXCEPT ![p] = @ + g]
  <2>1. CASE w > 0 /\ g > 0
    BY <2>1, <1>8, <1>9 DEF ServeLine, Serves
  <2>2. CASE ~(w > 0 /\ g > 0)
    <3>1. g = 0
      BY <2>2, <1>3, <1>5, <1>6 DEF AtMost
    <3>2. reservation' = reservation /\ reserved' = reserved
      BY <2>2, <1>8, <1>9 DEF ServeLine, Serves
    <3>3. /\ reservation \in [Orders -> [Products -> Nat]]
          /\ reserved \in [Products -> Nat]
      BY DEF IInv, TypeOK
    <3> HIDE DEF g
    <3>4. \A n \in Nat : n + g = n
      BY <3>1
    <3>5. reservation = [reservation EXCEPT ![o][p] = @ + g]
      BY <3>3, <3>4
    <3>6. reserved = [reserved EXCEPT ![p] = @ + g]
      BY <3>3, <3>4
    <3> QED
      BY <3>2, <3>5, <3>6
  <2> QED
    BY <2>1, <2>2
<1> HIDE DEF D, w, left, g
<1>11. g <= left /\ Beyond(Free(p), D + w) = left - g
  BY <1>3, <1>4, <1>5, <1>6 DEF AtMost, Beyond
<1> QED
  BY <1>3, <1>7, <1>10, <1>11 DEF D, w, left, g

LEMMA LoopStep ==
  ASSUME IInv, NEW o \in Orders, NEW p \in Products, ServeLine(o, p)
  PROVE  IInv'
<1> DEFINE g == Given(o, p)
<1>1. /\ g \in Nat
      /\ reservation[o][p] = start.reservation[o][p]
      /\ reservation' = [reservation EXCEPT ![o][p] = @ + g]
      /\ reserved' = [reserved EXCEPT ![p] = @ + g]
      /\ g <= onHand[p] - reserved[p]
      /\ Beyond(Free(p), Total(Wanted(p), Served(p)) + Wanted(p)[o])
           = (onHand[p] - reserved[p]) - g
  BY IterationGives
<1>2. /\ o \in queue /\ <<o, p>> \notin done
      /\ \A a \in AheadOf(queue, approvedAt, o) : {a} \X Products \subseteq done
      /\ done' = done \cup {<<o, p>>}
      /\ queue' = queue /\ approvedAt' = approvedAt /\ line' = line
      /\ onHand' = onHand /\ start' = start
  BY DEF ServeLine, Serves, inputs
<1>3. TypeOK
  BY DEF IInv
<1>4. TypeOK'
  <2> HIDE DEF g
  <2>1. reservation' \in [Orders -> [Products -> Nat]]
    BY <1>1, <1>3 DEF TypeOK
  <2>2. reserved' \in [Products -> Nat]
    BY <1>1, <1>3 DEF TypeOK
  <2>3. done' \in SUBSET (queue' \X Products)
    BY <1>2, <1>3 DEF TypeOK
  <2> QED
    BY <1>2, <1>3, <2>1, <2>2, <2>3 DEF TypeOK
<1>5. InQueueOrder'
  <2>1. SUFFICES ASSUME NEW a \in queue, NEW b \in queue, NEW r \in Products,
                        Before(approvedAt, a, b), <<b, r>> \in done'
                 PROVE  <<a, r>> \in done'
    BY <1>2 DEF InQueueOrder
  <2>2. CASE <<b, r>> \in done
    BY <2>1, <2>2, <1>2 DEF IInv, InQueueOrder
  <2>3. CASE <<b, r>> = <<o, p>>
    <3>1. a \in AheadOf(queue, approvedAt, o)
      BY <2>1, <2>3 DEF AheadOf
    <3> QED
      BY <3>1, <1>2
  <2> QED
    BY <2>1, <2>2, <2>3, <1>2
<1>6. SoundInput'
  BY <1>2 DEF IInv, SoundInput
<1>7. \A a \in Orders, r \in Products : Given(a, r)' = Given(a, r)
  BY <1>2 DEF Given, Wanted, Free
<1>8. LinesSoFar'
  <2>1. ASSUME NEW a \in Orders, NEW r \in Products
        PROVE  reservation'[a][r] = start.reservation[a][r]
                 + (IF <<a, r>> \in done' THEN Given(a, r) ELSE 0)
    <3>1. reservation[a][r] = start.reservation[a][r]
                                + (IF <<a, r>> \in done THEN Given(a, r) ELSE 0)
      BY DEF IInv, LinesSoFar
    <3>2. CASE a = o /\ r = p
      <4>1. reservation'[o][p] = reservation[o][p] + g
        BY <1>1, <1>3 DEF TypeOK
      <4> QED
        BY <3>2, <4>1, <1>1, <1>2
    <3>3. CASE ~(a = o /\ r = p)
      <4> HIDE DEF g
      <4>1. reservation'[a][r] = reservation[a][r]
        BY <3>3, <1>1, <1>3 DEF TypeOK
      <4>2. <<a, r>> \in done' <=> <<a, r>> \in done
        BY <3>3, <1>2
      <4> QED
        BY <3>1, <4>1, <4>2
    <3> QED
      BY <3>2, <3>3
  <2>2. ASSUME NEW a \in Orders, NEW r \in Products
        PROVE  reservation'[a][r] = start'.reservation[a][r]
                 + (IF <<a, r>> \in done' THEN Given(a, r)' ELSE 0)
    BY <2>1, <1>2, <1>7
  <2> HIDE DEF g
  <2> QED
    BY <2>2 DEF LinesSoFar
<1>9. StockSoFar'
  <2>1. SUFFICES ASSUME NEW r \in Products
                 PROVE  /\ reserved'[r] <= onHand[r]
                        /\ onHand[r] - reserved'[r]
                             = Beyond(Free(r), Total(Wanted(r), Served(r)'))
                        /\ reserved'[r] = start.reserved[r] + Total(GivenTo(r), Served(r)')
    BY <1>2, <1>7 DEF StockSoFar, Free, Wanted, GivenTo
  <2>2. /\ reserved[r] <= onHand[r]
        /\ onHand[r] - reserved[r] = Beyond(Free(r), Total(Wanted(r), Served(r)))
        /\ reserved[r] = start.reserved[r] + Total(GivenTo(r), Served(r))
    BY DEF IInv, StockSoFar
  <2>3. /\ IsFiniteSet(queue) /\ \A a \in queue : a \in Orders
        /\ \A a \in Orders : Wanted(r)[a] \in Nat /\ GivenTo(r)[a] \in Nat
        /\ GivenTo(r)[o] = Given(o, r)
    BY LoopInputs DEF IInv
  <2>4. CASE r # p
    <3>1. Served(r)' = Served(r)
      BY <2>4, <1>2 DEF Served
    <3>2. reserved'[r] = reserved[r]
      BY <2>4, <1>1, <1>3 DEF TypeOK
    <3> QED
      BY <2>2, <3>1, <3>2
  <2>5. CASE r = p
    <3>1. Served(p)' = Served(p) \cup {o} /\ o \notin Served(p)
      BY <1>2 DEF Served
    <3>2. IsFiniteSet(Served(p)) /\ \A a \in Served(p) \cup {o} : a \in Orders
      BY <2>3, <1>2, FS_Subset DEF Served
    <3>3. Total(Wanted(p), Served(p)') = Total(Wanted(p), Served(p)) + Wanted(p)[o]
      BY <2>3, <2>5, <3>1, <3>2, TotalAdd
    <3>4. Total(GivenTo(p), Served(p)') = Total(GivenTo(p), Served(p)) + GivenTo(p)[o]
      BY <2>3, <2>5, <3>1, <3>2, TotalAdd
    <3>5. Total(GivenTo(p), Served(p)) \in Nat
      BY <2>3, <2>5, <3>2, TotalType
    <3>6. reserved'[p] = reserved[p] + g
      BY <1>1, <1>3 DEF TypeOK
    <3>7. onHand[p] \in Nat /\ reserved[p] \in Nat /\ start.reserved[p] \in Nat
      BY <1>3 DEF TypeOK
    <3>8. GivenTo(p)[o] = g
      BY <2>3, <2>5
    <3> HIDE DEF g
    <3>9. reserved'[p] <= onHand[p]
      BY <1>1, <3>6, <3>7
    <3>10. onHand[p] - reserved'[p] = Beyond(Free(p), Total(Wanted(p), Served(p)'))
      BY <1>1, <3>3, <3>6, <3>7
    <3>11. reserved'[p] = start.reserved[p] + Total(GivenTo(p), Served(p)')
      BY <1>1, <2>2, <2>5, <3>4, <3>5, <3>6, <3>7, <3>8
    <3> QED
      BY <2>5, <3>9, <3>10, <3>11
  <2> QED
    BY <2>4, <2>5
<1> QED
  BY <1>4, <1>5, <1>6, <1>8, <1>9 DEF IInv

LEMMA LoopStutter == IInv /\ UNCHANGED vars => IInv'
<1> SUFFICES ASSUME IInv, UNCHANGED vars PROVE IInv'
  OBVIOUS
<1>1. TypeOK' /\ InQueueOrder' /\ SoundInput'
  BY DEF IInv, TypeOK, InQueueOrder, SoundInput, vars
<1>2. LinesSoFar'
  BY DEF IInv, LinesSoFar, Given, Wanted, Free, vars
<1>3. StockSoFar'
  BY DEF IInv, StockSoFar, Served, Given, GivenTo, Wanted, Free, vars
<1> QED
  BY <1>1, <1>2, <1>3 DEF IInv

LEMMA LoopResult == IInv => LoopComputesGrant /\ EveryFlushAccepted
<1> SUFFICES ASSUME IInv PROVE LoopComputesGrant /\ EveryFlushAccepted
  OBVIOUS
<1>1. EveryFlushAccepted
  BY DEF IInv, StockSoFar, EveryFlushAccepted
<1>2. ASSUME Finished, NEW p \in Products
      PROVE  /\ \A o \in Orders :
                  reservation[o][p] = start.reservation[o][p] + Given(o, p)
             /\ reserved[p] = start.reserved[p] + Total(GivenTo(p), Orders)
  <2>1. /\ IsFiniteSet(queue)
        /\ \A o \in Orders : GivenTo(p)[o] = Given(o, p) /\ Given(o, p) \in Nat
        /\ \A o \in Orders \ queue : Given(o, p) = 0
    BY LoopInputs DEF IInv
  <2>2. Served(p) = queue /\ queue \subseteq Orders
    BY <1>2 DEF Finished, Served, IInv, TypeOK
  <2>3. ASSUME NEW o \in Orders
        PROVE  reservation[o][p] = start.reservation[o][p] + Given(o, p)
    <3>1. <<o, p>> \in done <=> o \in queue
      BY <1>2 DEF Finished
    <3>2. <<o, p>> \notin done => Given(o, p) = 0
      BY <2>1, <3>1
    <3> QED
      BY <3>2 DEF IInv, LinesSoFar
  <2>4. Total(GivenTo(p), Orders \ queue) = 0
    BY <2>1, TotalZeros
  <2>5. IsFiniteSet(Orders) /\ IsFiniteSet(Orders \ queue)
    BY LoopOrdersAssumption, FS_Difference
  <2>6. /\ Orders = queue \cup (Orders \ queue)
        /\ queue \cap (Orders \ queue) = {}
    BY <2>2
  <2>7. Total(GivenTo(p), Orders) = Total(GivenTo(p), queue)
                                      + Total(GivenTo(p), Orders \ queue)
    BY <2>1, <2>2, <2>5, <2>6, TotalUnion
  <2>8. Total(GivenTo(p), queue) \in Nat
    BY <2>1, <2>2, TotalType
  <2>9. Total(GivenTo(p), Orders) = Total(GivenTo(p), queue)
    BY <2>4, <2>7, <2>8
  <2>10. reserved[p] = start.reserved[p] + Total(GivenTo(p), queue)
    BY <2>2 DEF IInv, StockSoFar
  <2> QED
    BY <2>3, <2>9, <2>10
<1>3. LoopComputesGrant
  BY <1>2 DEF LoopComputesGrant, GivenTo
<1> QED
  BY <1>1, <1>3

\* The invariant of the loops of allocate_approved_orders.
THEOREM LoopInvariant == Spec => []IInv
<1>1. IInv /\ [Next]_vars => IInv'
  BY LoopStep, LoopStutter DEF Next
<1> QED
  BY <1>1, LoopInit, PTL DEF Spec

\* The rows that the loops write stay natural numbers, whatever they subtract.
THEOREM LoopTypes == Spec => []TypeOK
BY LoopInvariant, PTL DEF IInv

\* allocate_approved_orders gives every line what the closed form Grant says.
THEOREM LoopIsGrant == Spec => []LoopComputesGrant
BY LoopInvariant, LoopResult, PTL

\* No write of the loops is refused by the check constraint on the stock row.
THEOREM LoopFlushes == Spec => []EveryFlushAccepted
BY LoopInvariant, LoopResult, PTL
-----------------------------------------------------------------------------
\* The in-memory allocation.  What its recursion computes is shown by
\* induction, in the form that a set of numbers that holds 0 and with k also
\* k + 1 holds them all.

\* A set of natural numbers has a least one.
LEMMA LeastNumber ==
  ASSUME NEW T \in SUBSET Nat, T # {}
  PROVE  \E m \in T : \A n \in T : m <= n
<1> DEFINE Up == {1..n : n \in T}
           Less == StrictSubsetOrdering(Nat)
<1>1. Up \subseteq FiniteSubsetsOf(Nat) /\ Up # {}
  <2>1. \A n \in Nat : IsFiniteSet(1..n) /\ 1..n \subseteq Nat
    BY FS_Interval
  <2> QED
    BY <2>1 DEF FiniteSubsetsOf
<1>2. \E u \in Up : \A v \in Up : <<v, u>> \notin Less
  <2> HIDE DEF Up
  <2> QED
    BY <1>1, FS_StrictSubsetOrderingWellFounded, WFMin
<1>3. PICK m \in T : \A n \in T : <<1..n, 1..m>> \notin Less
  BY <1>2
<1>4. ASSUME NEW n \in T, n < m
      PROVE  FALSE
  <2>1. m \in 1..m /\ m \notin 1..n /\ 1..n \subseteq 1..m /\ 1..m \subseteq Nat
    BY <1>4
  <2> QED
    BY <1>3, <2>1 DEF StrictSubsetOrdering
<1> QED
  BY <1>4

\* Induction up to n.
LEMMA UpTo ==
  ASSUME NEW n \in Nat, NEW A, 0 \in A, \A k \in 1..n : k - 1 \in A => k \in A
  PROVE  0..n \subseteq A
<1> SUFFICES ASSUME (0..n) \ A # {} PROVE FALSE
  OBVIOUS
<1>1. PICK m \in (0..n) \ A : \A k \in (0..n) \ A : m <= k
  <2> DEFINE T == (0..n) \ A
  <2>1. T \in SUBSET Nat /\ T # {}
    OBVIOUS
  <2> HIDE DEF T
  <2>2. \E m \in T : \A k \in T : m <= k
    BY <2>1, LeastNumber
  <2> QED
    BY <2>2 DEF T
<1>2. m \in 1..n /\ m - 1 \in 0..n /\ ~(m <= m - 1)
  BY <1>1
<1>3. m - 1 \in A
  BY <1>1, <1>2
<1> QED
  BY <1>1, <1>2, <1>3

\* A list of n orders holds every order of the queue once; its ties are
\* listed by id.
IsListing(orders, n) ==
  /\ orders \in [1..n -> queue] /\ DOMAIN orders = 1..n /\ Len(orders) = n
  /\ \A i, j \in 1..n : i # j => orders[i] # orders[j]
  /\ \A o \in queue : \E i \in 1..n : orders[i] = o
  /\ \A i, j \in 1..n :
       Earlier(orders, i, j) <=> Before(approvedAt, orders[i], orders[j])

\* How many orders of the list are served before the i-th.
CountBefore(orders, n) == [i \in 1..n |-> Cardinality({j \in 1..n : Earlier(orders, j, i)})]

LEMMA ListingFacts ==
  ASSUME TypeOK, NEW orders \in Listings
  PROVE  \E n \in Nat : IsListing(orders, n)
<1> DEFINE n == Cardinality(queue)
<1>1. queue \in SUBSET Nat /\ IsFiniteSet(queue) /\ n \in Nat
  BY LoopOrdersAssumption, FS_Subset, FS_CardinalityType DEF TypeOK
<1> HIDE DEF n
<1>2. /\ orders \in [1..n -> queue]
      /\ \A i, j \in 1..n : i # j => orders[i] # orders[j]
      /\ \A i, j \in DOMAIN orders :
           i < j /\ approvedAt[orders[i]] = approvedAt[orders[j]] => orders[i] < orders[j]
  BY DEF Listings, Injection, IsInjective, n
<1>3. DOMAIN orders = 1..n /\ Len(orders) = n
  BY <1>1, <1>2
<1>4. \A o \in queue : \E i \in 1..n : orders[i] = o
  <2>1. orders \in Injection(1..n, queue)
    BY <1>2 DEF Injection, IsInjective
  <2>2. Cardinality(1..n) = Cardinality(queue)
    BY <1>1, FS_Interval DEF n
  <2>3. orders \in Surjection(1..n, queue)
    BY <1>1, <2>1, <2>2, FS_Injection
  <2> QED
    BY <2>3 DEF Surjection
<1>5. ASSUME NEW i \in 1..n, NEW j \in 1..n
      PROVE  Earlier(orders, i, j) <=> Before(approvedAt, orders[i], orders[j])
  <2>1. orders[i] \in Nat /\ orders[j] \in Nat
    BY <1>1, <1>2
  <2>2. approvedAt[orders[i]] = approvedAt[orders[j]] =>
          (i < j <=> orders[i] < orders[j])
    BY <1>2, <1>3, <2>1
  <2> QED
    BY <2>2 DEF Earlier, Before
<1> QED
  BY <1>1, <1>2, <1>3, <1>4, <1>5 DEF IsListing

\* Each of 0..n - 1 is the count of one order, and who is served earlier has
\* the smaller count.
LEMMA PlaceFacts ==
  ASSUME TypeOK, NEW n \in Nat, NEW orders, IsListing(orders, n),
         NEW count, count = CountBefore(orders, n)
  PROVE  /\ \A i \in 1..n : count[i] \in Nat /\ count[i] < n
         /\ \A i, j \in 1..n : Earlier(orders, i, j) <=> count[i] < count[j]
         /\ \A i, j \in 1..n : count[i] = count[j] => i = j
         /\ \A k \in 1..n : \E i \in 1..n : count[i] = k - 1
<1>1. queue \in SUBSET Nat /\ \A o \in queue : approvedAt[o] \in Nat
  BY LoopOrdersAssumption DEF TypeOK
<1>2. /\ \A a, b \in queue : a # b => Before(approvedAt, a, b) \/ Before(approvedAt, b, a)
      /\ \A a, b, c \in queue :
           Before(approvedAt, a, b) /\ Before(approvedAt, b, c) => Before(approvedAt, a, c)
      /\ \A a \in queue : ~Before(approvedAt, a, a)
  BY <1>1, BeforeOrder DEF Before
<1>3. /\ \A i, j \in 1..n : i # j => Earlier(orders, i, j) \/ Earlier(orders, j, i)
      /\ \A i, j, k \in 1..n :
           Earlier(orders, i, j) /\ Earlier(orders, j, k) => Earlier(orders, i, k)
      /\ \A i \in 1..n : ~Earlier(orders, i, i)
  BY <1>2 DEF IsListing
<1>4. IsFiniteSet(1..n) /\ Cardinality(1..n) = n
  BY FS_Interval
<1> DEFINE EarlierThan(i) == {j \in 1..n : Earlier(orders, j, i)}
<1>5. ASSUME NEW i \in 1..n
      PROVE  /\ IsFiniteSet(EarlierThan(i)) /\ count[i] = Cardinality(EarlierThan(i))
             /\ count[i] \in Nat /\ count[i] < n
  <2>1. EarlierThan(i) \in SUBSET ((1..n) \ {i})
    BY <1>3
  <2>2. count[i] = Cardinality(EarlierThan(i))
    BY DEF CountBefore
  <2> HIDE DEF EarlierThan
  <2>3. IsFiniteSet((1..n) \ {i}) /\ Cardinality((1..n) \ {i}) = n - 1
    BY <1>4, FS_RemoveElement
  <2>4. IsFiniteSet(EarlierThan(i)) /\ Cardinality(EarlierThan(i)) <= n - 1
    BY <2>1, <2>3, FS_Subset
  <2>5. Cardinality(EarlierThan(i)) \in Nat
    BY <2>4, FS_CardinalityType
  <2> QED
    BY <2>2, <2>4, <2>5
<1>6. ASSUME NEW i \in 1..n, NEW j \in 1..n, Earlier(orders, i, j)
      PROVE  count[i] < count[j]
  <2>1. /\ EarlierThan(i) \in SUBSET EarlierThan(j)
        /\ i \in EarlierThan(j) /\ i \notin EarlierThan(i)
    BY <1>3, <1>6
  <2> HIDE DEF EarlierThan
  <2>2. EarlierThan(i) # EarlierThan(j) /\ IsFiniteSet(EarlierThan(j))
    BY <1>5, <2>1
  <2>3. /\ Cardinality(EarlierThan(i)) <= Cardinality(EarlierThan(j))
        /\ Cardinality(EarlierThan(i)) # Cardinality(EarlierThan(j))
    BY <2>1, <2>2, FS_Subset
  <2>4. count[i] <= count[j] /\ count[i] # count[j]
    BY <1>5, <2>3
  <2> QED
    BY <1>5, <2>4
<1> HIDE DEF EarlierThan
<1>7. ASSUME NEW i \in 1..n, NEW j \in 1..n
      PROVE  /\ Earlier(orders, i, j) <=> count[i] < count[j]
             /\ count[i] = count[j] => i = j
  <2>1. count[i] \in Nat /\ count[j] \in Nat
    BY <1>5
  <2>2. /\ Earlier(orders, i, j) => count[i] < count[j]
        /\ Earlier(orders, j, i) => count[j] < count[i]
    BY <1>6
  <2>3. i = j => ~Earlier(orders, i, j)
    BY <1>3
  <2>4. i # j => Earlier(orders, i, j) \/ Earlier(orders, j, i)
    BY <1>3
  <2> QED
    BY <2>1, <2>2, <2>3, <2>4
<1>8. ASSUME NEW k \in 1..n
      PROVE  \E i \in 1..n : count[i] = k - 1
  <2> DEFINE place == [i \in 1..n |-> count[i] + 1]
  <2>1. \A i \in 1..n : place[i] \in 1..n
    BY <1>5
  <2>2. \A i, j \in 1..n : place[i] = place[j] => i = j
    <3> SUFFICES ASSUME NEW i \in 1..n, NEW j \in 1..n, place[i] = place[j]
                 PROVE  count[i] = count[j]
      BY <1>7
    <3>1. count[i] \in Nat /\ count[j] \in Nat
      BY <1>5
    <3> QED
      BY <3>1
  <2>3. place \in Injection(1..n, 1..n)
    BY <2>1, <2>2 DEF Injection, IsInjective
  <2> HIDE DEF place
  <2>4. place \in Surjection(1..n, 1..n)
    BY <1>4, <2>3, FS_Injection
  <2>5. PICK i \in 1..n : place[i] = k
    BY <2>4 DEF Surjection
  <2>6. count[i] + 1 = k /\ count[i] \in Nat
    BY <1>5, <2>5 DEF place
  <2>7. count[i] = k - 1
    BY <2>6
  <2> QED
    BY <2>7
<1> QED
  BY <1>5, <1>7, <1>8

\* The first k orders of a list.
FirstOf(orders, k) == {orders[i] : i \in 1..k}

\* The sort serves the queue in the order of the select of the repository.
LEMMA SortFacts ==
  ASSUME TypeOK, NEW orders \in Listings
  PROVE  \E n \in Nat :
           /\ Len(orders) = n
           /\ SortedByApproval(orders) \in [1..n -> queue]
           /\ FirstOf(SortedByApproval(orders), n) = queue
           /\ \A k \in 1..n :
                FirstOf(SortedByApproval(orders), k - 1)
                  = AheadOf(queue, approvedAt, SortedByApproval(orders)[k])
<1>1. PICK n \in Nat : IsListing(orders, n)
  BY ListingFacts
<1> DEFINE count == CountBefore(orders, n)
           at == [k \in 1..n |-> CHOOSE i \in 1..n : count[i] = k - 1]
           sorted == SortedByApproval(orders)
<1>2. /\ \A i \in 1..n : count[i] \in Nat /\ count[i] < n
      /\ \A i, j \in 1..n : Earlier(orders, i, j) <=> count[i] < count[j]
      /\ \A i, j \in 1..n : count[i] = count[j] => i = j
      /\ \A k \in 1..n : \E i \in 1..n : count[i] = k - 1
  BY <1>1, PlaceFacts
<1>3. sorted = [k \in 1..n |-> orders[at[k]]]
  <2>1. sorted = [k \in 1..n |-> orders[CHOOSE i \in 1..n :
                    Cardinality({j \in 1..n : Earlier(orders, j, i)}) = k - 1]]
    BY <1>1 DEF SortedByApproval, IsListing
  <2>2. ASSUME NEW k \in 1..n
        PROVE  at[k] = CHOOSE i \in 1..n :
                         Cardinality({j \in 1..n : Earlier(orders, j, i)}) = k - 1
    BY DEF CountBefore
  <2> HIDE DEF at
  <2> QED
    BY <2>1, <2>2
<1> HIDE DEF count, sorted
<1>4. \A k \in 1..n : at[k] \in 1..n /\ count[at[k]] = k - 1
  BY <1>2
<1> HIDE DEF at
<1>5. \A i \in 1..n : \E k \in 1..n : at[k] = i
  <2> SUFFICES ASSUME NEW i \in 1..n PROVE \E k \in 1..n : at[k] = i
    OBVIOUS
  <2>1. count[i] \in Nat /\ count[i] < n
    BY <1>2
  <2>2. PICK k \in 1..n : k - 1 = count[i]
    <3>1. count[i] + 1 \in 1..n /\ (count[i] + 1) - 1 = count[i]
      BY <2>1
    <3> QED
      BY <3>1
  <2> QED
    BY <1>2, <1>4, <2>2
<1>6. sorted \in [1..n -> queue]
  BY <1>1, <1>3, <1>4 DEF IsListing
<1>7. FirstOf(sorted, n) = queue
  BY <1>1, <1>3, <1>4, <1>5 DEF FirstOf, IsListing
<1>8. ASSUME NEW j \in 1..n, NEW k \in 1..n
      PROVE  Before(approvedAt, sorted[j], sorted[k]) <=> j < k
  <2>1. Earlier(orders, at[j], at[k]) <=> j - 1 < k - 1
    BY <1>2, <1>4
  <2>2. sorted[j] = orders[at[j]] /\ sorted[k] = orders[at[k]]
    BY <1>3
  <2>3. Earlier(orders, at[j], at[k]) <=> Before(approvedAt, orders[at[j]], orders[at[k]])
    BY <1>1, <1>4 DEF IsListing
  <2>4. j - 1 < k - 1 <=> j < k
    OBVIOUS
  <2> QED
    BY <2>1, <2>2, <2>3, <2>4
<1>9. ASSUME NEW k \in 1..n
      PROVE  FirstOf(sorted, k - 1) = AheadOf(queue, approvedAt, sorted[k])
  <2>1. \A a \in queue : \E j \in 1..n : a = sorted[j]
    BY <1>7 DEF FirstOf
  <2>2. \A j \in 1..n : j \in 1..k - 1 <=> j < k
    OBVIOUS
  <2>3. 1..k - 1 \subseteq 1..n
    OBVIOUS
  <2> QED
    BY <1>6, <1>8, <2>1, <2>2, <2>3 DEF FirstOf, AheadOf
<1> QED
  BY <1>1, <1>6, <1>7, <1>9 DEF sorted, IsListing

\* The inventory when the orders of S, the first of the queue, had their turn.
AllocatedTo(S) ==
  Inventory(onHand,
            [p \in Products |-> onHand[p] - Beyond(Free(p), Total(Wanted(p), S))],
            [o \in Orders |-> [p \in Products |->
               start.reservation[o][p] + (IF o \in S THEN Given(o, p) ELSE 0)]])

\* The turn of an order gives each of its lines the grant.
LEMMA TurnGives ==
  ASSUME IInv, NEW o \in queue, NEW S, S = AheadOf(queue, approvedAt, o)
  PROVE  ReserveOrder(AllocatedTo(S), o) = AllocatedTo(S \cup {o})
<1> DEFINE inv == AllocatedTo(S)
<1>1. TypeOK /\ SoundInput /\ o \in Orders /\ IsFiniteSet(queue)
  BY LoopInputs, LoopOrdersAssumption, FS_Subset DEF IInv, TypeOK
<1>2. o \notin S /\ S \subseteq queue /\ IsFiniteSet(S)
  <2>1. o \in Nat /\ approvedAt[o] \in Nat
    BY <1>1, LoopOrdersAssumption DEF TypeOK
  <2>2. o \notin S /\ S \subseteq queue
    BY <2>1 DEF AheadOf, Before
  <2> QED
    BY <1>1, <2>2, FS_Subset
<1>3. ASSUME NEW p \in Products
      PROVE  /\ ReservableQuantity(inv, o, p) = Given(o, p)
             /\ onHand[p] - Beyond(Free(p), Total(Wanted(p), S)) + Given(o, p)
                  = onHand[p] - Beyond(Free(p), Total(Wanted(p), S \cup {o}))
             /\ start.reservation[o][p] \in Nat /\ Given(o, p) \in Nat
  <2> DEFINE D == Total(Wanted(p), S)
             w == Wanted(p)[o]
             g == Given(o, p)
  <2>1. Free(p) \in Nat /\ w \in Nat /\ g \in Nat /\ onHand[p] \in Nat
    BY <1>1, LoopInputs DEF TypeOK
  <2>2. D \in Nat /\ Total(Wanted(p), S \cup {o}) = D + w
    <3>1. \A x \in S \cup {o} : Wanted(p)[x] \in Nat
      BY <1>1, <1>2, LoopInputs
    <3> QED
      BY <1>2, <3>1, TotalType, TotalAdd
  <2>3. g = AtMost(w, Beyond(Free(p), D))
    BY DEF Given, Grant
  <2>4. /\ start.reservation[o][p] \in Nat /\ line[o][p] \in Nat
        /\ start.reservation[o][p] <= line[o][p]
    BY <1>1 DEF TypeOK, SoundInput
  <2>5. inv.reservations[o][p] = start.reservation[o][p]
    BY <1>1, <1>2, <2>4 DEF AllocatedTo, Inventory
  <2>6. AvailableQuantity(inv, p) = onHand[p] - (onHand[p] - Beyond(Free(p), D))
    BY DEF AvailableQuantity, AllocatedTo, Inventory
  <2>7. Beyond(line[o][p], inv.reservations[o][p]) = w
    BY <1>1, <2>4, <2>5 DEF Beyond, Wanted
  <2> HIDE DEF D, w, g, inv
  <2>8. Beyond(Free(p), D) \in Nat
    BY <2>1, <2>2 DEF Beyond
  <2>9. AvailableQuantity(inv, p) = Beyond(Free(p), D)
    BY <2>1, <2>6, <2>8
  <2>10. ReservableQuantity(inv, o, p) = g
    BY <2>3, <2>7, <2>9 DEF ReservableQuantity
  <2>11. onHand[p] - Beyond(Free(p), D) + g = onHand[p] - Beyond(Free(p), D + w)
    BY <2>1, <2>2, <2>3 DEF AtMost, Beyond
  <2> QED
    BY <2>1, <2>2, <2>4, <2>10, <2>11 DEF D, w, g
<1> DEFINE taken == [p \in Products |-> onHand[p] - Beyond(Free(p), Total(Wanted(p), S))]
           held == [a \in Orders |-> [p \in Products |->
                      start.reservation[a][p] + (IF a \in S THEN Given(a, p) ELSE 0)]]
           takenAfter == [p \in Products |-> taken[p] + Given(o, p)]
           heldAfter == [held EXCEPT ![o] = [p \in Products |-> held[o][p] + Given(o, p)]]
<1>4. inv = Inventory(onHand, taken, held)
  BY DEF AllocatedTo
<1>5. ReserveOrder(inv, o) = Inventory(onHand, takenAfter, heldAfter)
  <2> HIDE DEF inv
  <2>1. /\ [p \in Products |-> taken[p] + ReservableQuantity(inv, o, p)] = takenAfter
        /\ [p \in Products |-> held[o][p] + ReservableQuantity(inv, o, p)]
             = [p \in Products |-> held[o][p] + Given(o, p)]
    BY <1>3
  <2> HIDE DEF taken, held, takenAfter
  <2>2. ReserveOrder(inv, o) =
          [inv EXCEPT
             !.reserved        = [p \in Products |-> taken[p] + ReservableQuantity(inv, o, p)],
             !.reservations[o] = [p \in Products |-> held[o][p]
                                                       + ReservableQuantity(inv, o, p)]]
    BY <1>4 DEF ReserveOrder, Inventory
  <2> QED
    BY <1>4, <2>1, <2>2 DEF Inventory
<1>6. takenAfter = [p \in Products |->
                      onHand[p] - Beyond(Free(p), Total(Wanted(p), S \cup {o}))]
  BY <1>3
<1>7. heldAfter = [a \in Orders |-> [p \in Products |->
                     start.reservation[a][p]
                       + (IF a \in S \cup {o} THEN Given(a, p) ELSE 0)]]
  <2>1. \A p \in Products : held[o][p] = start.reservation[o][p]
    BY <1>1, <1>2, <1>3
  <2>2. [p \in Products |-> held[o][p] + Given(o, p)]
          = [p \in Products |-> start.reservation[o][p]
               + (IF o \in S \cup {o} THEN Given(o, p) ELSE 0)]
    <3>1. \A p \in Products :
            held[o][p] + Given(o, p) = start.reservation[o][p]
              + (IF o \in S \cup {o} THEN Given(o, p) ELSE 0)
      BY <2>1
    <3> HIDE DEF held
    <3> QED
      BY <3>1
  <2>3. ASSUME NEW a \in Orders, a # o
        PROVE  held[a] = [p \in Products |-> start.reservation[a][p]
                            + (IF a \in S \cup {o} THEN Given(a, p) ELSE 0)]
    BY <2>3
  <2>4. \A a \in Orders : heldAfter[a] = IF a = o
          THEN [p \in Products |-> held[o][p] + Given(o, p)] ELSE held[a]
    BY <1>1
  <2> QED
    BY <2>2, <2>3, <2>4
<1> QED
  BY <1>5, <1>6, <1>7 DEF AllocatedTo, Inventory

\* The recursion of the walk: a function that satisfies its equation exists,
\* so that it is the one that Turns is.
LEMMA TurnsFacts ==
  ASSUME NEW n \in Nat, NEW orders, Len(orders) = n, NEW inv,
         NEW g, g = [k \in 0..n |-> IF k = 0 THEN inv
                                    ELSE ReserveOrder(g[k - 1], orders[k])]
  PROVE  \A k \in 0..n : Turns(inv, orders)[k] = g[k]
<1> DEFINE f == Turns(inv, orders)
<1>1. f = CHOOSE h : h = [k \in 0..n |-> IF k = 0 THEN inv
                                        ELSE ReserveOrder(h[k - 1], orders[k])]
  BY DEF Turns
<1>2. f = [k \in 0..n |-> IF k = 0 THEN inv ELSE ReserveOrder(f[k - 1], orders[k])]
  BY <1>1
<1> DEFINE A == {k \in 0..n : f[k] = g[k]}
<1> HIDE DEF f
<1>3. 0 \in A
  BY <1>2
<1>4. ASSUME NEW k \in 1..n, k - 1 \in A
      PROVE  k \in A
  <2>1. k \in 0..n /\ k # 0 /\ f[k - 1] = g[k - 1]
    BY <1>4
  <2>2. f[k] = ReserveOrder(f[k - 1], orders[k])
    BY <1>2, <2>1
  <2>3. g[k] = ReserveOrder(g[k - 1], orders[k])
    BY <2>1
  <2> QED
    BY <2>1, <2>2, <2>3
<1>5. 0..n \subseteq A
  <2> HIDE DEF A
  <2> QED
    BY <1>3, <1>4, UpTo
<1> QED
  BY <1>5 DEF f

\* The in-memory allocation gives every order of the queue its grant.
LEMMA InMemoryGives ==
  ASSUME IInv, NEW orders \in Listings
  PROVE  AllocateInMemory(Inventory(onHand, start.reserved, start.reservation), orders)
           = AllocatedTo(queue)
<1> DEFINE inv == Inventory(onHand, start.reserved, start.reservation)
           sorted == SortedByApproval(orders)
<1>1. PICK n \in Nat :
        /\ Len(orders) = n
        /\ sorted \in [1..n -> queue]
        /\ FirstOf(sorted, n) = queue
        /\ \A k \in 1..n : FirstOf(sorted, k - 1) = AheadOf(queue, approvedAt, sorted[k])
  BY SortFacts DEF IInv
<1>2. AllocateInMemory(inv, orders) = Turns(inv, sorted)[n]
  BY <1>1 DEF AllocateInMemory
<1> HIDE DEF sorted
<1>3. Len(sorted) = n
  BY <1>1
<1>4. AllocatedTo({}) = inv
  <2>1. \A p \in Products : Total(Wanted(p), {}) = 0
    BY TotalEmpty
  <2>2. \A p \in Products :
          Free(p) \in Nat /\ onHand[p] \in Nat /\ start.reserved[p] \in Nat
    BY LoopInputs DEF IInv, TypeOK
  <2>3. \A p \in Products :
          onHand[p] - Beyond(Free(p), Total(Wanted(p), {})) = start.reserved[p]
    BY <2>1, <2>2 DEF Beyond, Free
  <2>4. [p \in Products |-> onHand[p] - Beyond(Free(p), Total(Wanted(p), {}))]
          = start.reserved
    BY <2>3 DEF IInv, TypeOK
  <2>5. /\ start.reservation \in [Orders -> [Products -> Nat]]
        /\ \A o \in Orders, p \in Products : start.reservation[o][p] + 0
                                               = start.reservation[o][p]
    BY DEF IInv, TypeOK
  <2>6. [o \in Orders |-> [p \in Products |->
           start.reservation[o][p] + (IF o \in {} THEN Given(o, p) ELSE 0)]]
          = start.reservation
    BY <2>5
  <2> QED
    BY <2>4, <2>6 DEF AllocatedTo
<1> DEFINE g == [k \in 0..n |-> AllocatedTo(FirstOf(sorted, k))]
<1>5. g[0] = inv
  <2>1. FirstOf(sorted, 0) = {}
    BY DEF FirstOf
  <2> QED
    BY <1>4, <2>1
<1>6. ASSUME NEW k \in 1..n
      PROVE  g[k] = ReserveOrder(g[k - 1], sorted[k])
  <2>1. sorted[k] \in queue
    BY <1>1
  <2>2. FirstOf(sorted, k) = FirstOf(sorted, k - 1) \cup {sorted[k]}
    <3>1. 1..k = (1..k - 1) \cup {k}
      OBVIOUS
    <3> QED
      BY <3>1 DEF FirstOf
  <2>3. k \in 0..n /\ k - 1 \in 0..n
    OBVIOUS
  <2>4. ReserveOrder(AllocatedTo(FirstOf(sorted, k - 1)), sorted[k])
          = AllocatedTo(FirstOf(sorted, k - 1) \cup {sorted[k]})
    BY <1>1, <2>1, TurnGives
  <2> QED
    BY <2>2, <2>3, <2>4
<1> HIDE DEF inv
<1>7. g = [k \in 0..n |-> IF k = 0 THEN inv ELSE ReserveOrder(g[k - 1], sorted[k])]
  <2>1. \A k \in 0..n : k = 0 \/ k \in 1..n
    OBVIOUS
  <2>2. \A k \in 0..n :
          g[k] = IF k = 0 THEN inv ELSE ReserveOrder(g[k - 1], sorted[k])
    BY <1>5, <1>6, <2>1
  <2>3. g = [k \in 0..n |-> g[k]]
    OBVIOUS
  <2> HIDE DEF g
  <2> QED
    BY <2>2, <2>3
<1>8. g[n] = AllocatedTo(queue)
  BY <1>1
<1> HIDE DEF g
<1>9. Turns(inv, sorted)[n] = g[n]
  <2>1. \A k \in 0..n : Turns(inv, sorted)[k] = g[k]
    BY <1>3, <1>7, TurnsFacts
  <2> QED
    BY <2>1
<1> QED
  BY <1>2, <1>8, <1>9 DEF inv

\* The loops over rows end with the same.
LEMMA LoopEnds ==
  ASSUME IInv, Finished
  PROVE  AllocatedTo(queue) = Inventory(onHand, reserved, reservation)
<1>1. /\ TypeOK /\ reserved \in [Products -> Nat]
      /\ reservation \in [Orders -> [Products -> Nat]]
  BY DEF IInv, TypeOK
<1>2. ASSUME NEW p \in Products
      PROVE  onHand[p] - Beyond(Free(p), Total(Wanted(p), queue)) = reserved[p]
  <2>1. Served(p) = queue
    BY DEF Finished, Served
  <2>2. /\ onHand[p] - reserved[p] = Beyond(Free(p), Total(Wanted(p), queue))
        /\ onHand[p] \in Nat /\ reserved[p] \in Nat
    BY <2>1 DEF IInv, StockSoFar, TypeOK
  <2> QED
    BY <2>2
<1>3. ASSUME NEW o \in Orders, NEW p \in Products
      PROVE  start.reservation[o][p] + (IF o \in queue THEN Given(o, p) ELSE 0)
               = reservation[o][p]
  <2>1. <<o, p>> \in done <=> o \in queue
    BY DEF Finished
  <2> QED
    BY <2>1 DEF IInv, LinesSoFar
<1>4. [p \in Products |-> onHand[p] - Beyond(Free(p), Total(Wanted(p), queue))] = reserved
  BY <1>1, <1>2
<1>5. [o \in Orders |-> [p \in Products |->
         start.reservation[o][p] + (IF o \in queue THEN Given(o, p) ELSE 0)]] = reservation
  <2>1. \A o \in Orders :
          [p \in Products |->
             start.reservation[o][p] + (IF o \in queue THEN Given(o, p) ELSE 0)]
            = reservation[o]
    BY <1>1, <1>3
  <2> QED
    BY <1>1, <2>1
<1> QED
  BY <1>4, <1>5 DEF AllocatedTo

\* Inventory.allocate_approved_orders and the allocation over rows agree, from
\* any stock and reservations and for any list of the queue with ties by id.
THEOREM DomainCorrect == Spec => []DomainAgrees
<1>1. IInv => DomainAgrees
  BY InMemoryGives, LoopEnds DEF DomainAgrees
<1> QED
  BY <1>1, LoopInvariant, PTL
=============================================================================

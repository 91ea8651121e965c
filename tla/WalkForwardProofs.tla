------------------------- MODULE WalkForwardProofs -------------------------
(***************************************************************************)
(* Walk-forward simulation for every history, price series and set of      *)
(* horizons, and any number of concurrent commands: what is frozen stays   *)
(* frozen, no outcome looks the wrong way, and returns see through splits. *)
(***************************************************************************)
EXTENDS WalkForward, FiniteSetTheorems, WellFoundedInduction, SequenceTheorems, FunctionTheorems, TLAPS

-----------------------------------------------------------------------------
(* The product of the ratios of a set of splits.  The fold picks its        *)
(* elements with CHOOSE and recurs on what is left; what it computes is     *)
(* found by way of a least counterexample, the least by the number of       *)
(* elements.  The sum of trades and the replay are such folds, too.         *)

\* Every set of natural numbers that has an element has a least one.
LEMMA LeastNumber ==
    ASSUME NEW N \in SUBSET Nat, N # {}
    PROVE  \E n \in N : \A m \in N : n <= m
<1> DEFINE R == OpToRel(<, Nat)
<1>1. IsWellFoundedOn(R, Nat)
  BY NatLessThanWellFounded
<1>2. \A x, y \in Nat : y < x => <<y, x>> \in R
  BY DEF OpToRel
<1> HIDE DEF R
<1>3. PICK x \in N : \A y \in N : ~ (<<y, x>> \in R)
  BY <1>1, WFMin
<1>4. ASSUME NEW y \in N PROVE x <= y
  <2>1. x \in Nat /\ y \in Nat /\ ~(<<y, x>> \in R)
    BY <1>3
  <2>2. ~(y < x)
    BY <1>2, <2>1
  <2> QED BY <2>1, <2>2
<1> QED BY <1>3, <1>4

\* Every family of finite sets that has a member has a smallest one.
LEMMA SmallestSet ==
    ASSUME NEW F, F # {}, \A u \in F : IsFiniteSet(u)
    PROVE  \E u \in F : \A v \in F : Cardinality(u) <= Cardinality(v)
<1> DEFINE N == {Cardinality(u) : u \in F}
<1>1. N \in SUBSET Nat /\ N # {}
  BY FS_CardinalityType
<1>2. PICK n \in N : \A m \in N : n <= m
  BY <1>1, LeastNumber
<1>3. PICK u \in F : n = Cardinality(u)
  OBVIOUS
<1> QED BY <1>2, <1>3

\* What is left of a finite set without one of its elements is smaller.
LEMMA SmallerWithout ==
    ASSUME NEW S, IsFiniteSet(S), NEW x \in S
    PROVE  IsFiniteSet(S \ {x}) /\ ~(Cardinality(S) <= Cardinality(S \ {x}))
<1>1. IsFiniteSet(S \ {x}) /\ Cardinality(S \ {x}) = Cardinality(S) - 1
  BY FS_RemoveElement
<1>2. Cardinality(S) \in Nat
  BY FS_CardinalityType
<1> QED BY <1>1, <1>2

Amount == [i \in Event |-> Timeline[i].amount]
Index == [i \in DOMAIN Timeline |-> i]
NoPosition == [quantity |-> 0, warned |-> FALSE]

\* What a trade does to the open quantity.
Signed(i) == IF Kind(i) = "BUY" THEN Timeline[i].amount ELSE -Timeline[i].amount

\* The folds of this module: m is <<"product">>, <<"net">> or <<"replay", events>>.
Base(m) == IF m[1] = "product" THEN 1 ELSE IF m[1] = "net" THEN 0 ELSE NoPosition
Pick(m, s) == IF m[1] = "replay" THEN Max(s) ELSE CHOOSE x \in s : TRUE
Step(m, x, value) ==
    IF m[1] = "product" THEN Amount[x] * value
    ELSE IF m[1] = "net" THEN Signed(x) + value
    ELSE IF x \in m[2] THEN Apply(value, Timeline[x]) ELSE value
Folds(m, f, S) ==
    f = [s \in SUBSET S |-> IF s = {} THEN Base(m) ELSE Step(m, Pick(m, s), f[s \ {Pick(m, s)}])]

LEMMA EventType ==
    /\ Event = 1..Len(Timeline) /\ Len(Timeline) \in Nat
    /\ \A i \in Event :
          Timeline[i] \in [kind : {"OPENING", "SPLIT", "BUY", "SELL"}, date : Int,
                           amount : Nat \ {0}]
<1>1. Timeline \in Seq([kind : {"OPENING", "SPLIT", "BUY", "SELL"}, date : Int,
                        amount : Nat \ {0}])
  BY WalkForwardAssumption
<1>2. Event = 1..Len(Timeline) /\ Len(Timeline) \in Nat
  BY <1>1 DEF Event
<1> QED BY <1>1, <1>2, ElementOfSeq

LEMMA EventFacts ==
    /\ IsFiniteSet(Event)
    /\ \A i \in Event : Amount[i] \in Nat \ {0} /\ Timeline[i].date \in Int
<1>1. IsFiniteSet(Event)
  <2>1. Event = 1..Len(Timeline) /\ 1 \in Int /\ Len(Timeline) \in Int
    BY EventType
  <2>2. IsFiniteSet(1..Len(Timeline))
    BY <2>1, FS_Interval
  <2> QED BY <2>1, <2>2
<1>2. \A i \in Event : Amount[i] \in Nat \ {0} /\ Timeline[i].date \in Int
  BY EventType DEF Amount
<1> QED BY <1>1, <1>2

\* A finite set of numbers has a first and a last.
LEMMA FirstAndLast ==
    ASSUME NEW S \in SUBSET Int, IsFiniteSet(S), S # {}
    PROVE  /\ Max(S) \in S /\ \A y \in S : y <= Max(S)
           /\ Min(S) \in S /\ \A y \in S : Min(S) <= y
<1> DEFINE Bounded(u) == /\ \E x \in u : \A y \in u : x >= y
                         /\ \E x \in u : \A y \in u : x =< y
           F == {u \in SUBSET S : u # {} /\ ~Bounded(u)}
<1>1. F = {}
  <2>1. SUFFICES ASSUME F # {} PROVE FALSE
    OBVIOUS
  <2>2. \A u \in F : IsFiniteSet(u)
    BY FS_Subset
  <2>3. PICK u \in F : \A v \in F : Cardinality(u) <= Cardinality(v)
    BY <2>1, <2>2, SmallestSet
  <2>4. PICK x : x \in u
    OBVIOUS
  <2>5. u \ {x} \notin F
    BY <2>2, <2>3, <2>4, SmallerWithout
  <2>6. x \in Int /\ u \subseteq Int
    BY <2>4
  <2>7. CASE u \ {x} = {}
    <3>1. u = {x}
      BY <2>4, <2>7
    <3>2. Bounded(u)
      BY <3>1, <2>6
    <3> QED BY <3>2
  <2>8. CASE Bounded(u \ {x})
    <3>1. PICK a \in u \ {x} : \A y \in u \ {x} : a >= y
      BY <2>8
    <3>2. PICK b \in u \ {x} : \A y \in u \ {x} : b =< y
      BY <2>8
    <3>3. \E z \in u : \A y \in u : z >= y
      BY <2>4, <2>6, <3>1
    <3>4. \E z \in u : \A y \in u : z =< y
      BY <2>4, <2>6, <3>2
    <3> QED BY <3>3, <3>4
  <2> QED BY <2>5, <2>7, <2>8
<1>2. Bounded(S)
  BY <1>1
<1>3. (\E x \in S : \A y \in S : x >= y) => Max(S) \in S /\ \A y \in S : Max(S) >= y
  BY DEF Max
<1>4. (\E x \in S : \A y \in S : x =< y) => Min(S) \in S /\ \A y \in S : Min(S) =< y
  BY DEF Min
<1> QED BY <1>2, <1>3, <1>4

LEMMA PickIsOfTheSet ==
    ASSUME NEW m, NEW s \in SUBSET Event, s # {}
    PROVE  Pick(m, s) \in s
<1>1. s \in SUBSET Int
  BY EventType
<1>3. IsFiniteSet(s)
  BY EventFacts, FS_Subset
<1>2. Max(s) \in s
  BY <1>1, <1>3, FirstAndLast
<1> QED BY <1>2 DEF Pick

\* Two such functions agree where both are defined.
LEMMA FoldsAgree ==
    ASSUME NEW m, NEW S \in SUBSET Event, NEW T, NEW f, NEW g, Folds(m, f, S), Folds(m, g, T),
           NEW w, w \in SUBSET S, w \in SUBSET T
    PROVE  f[w] = g[w]
<1> DEFINE F == {u \in SUBSET S : u \in SUBSET T /\ f[u] # g[u]}
<1>1. SUFFICES ASSUME F # {} PROVE FALSE
  OBVIOUS
<1>2. \A u \in F : IsFiniteSet(u)
  BY EventFacts, FS_Subset
<1>3. PICK u \in F : \A v \in F : Cardinality(u) <= Cardinality(v)
  BY <1>1, <1>2, SmallestSet
<1>4. u # {}
  BY DEF Folds
<1>5. Pick(m, u) \in u
  BY <1>4, PickIsOfTheSet
<1>6. u \ {Pick(m, u)} \notin F
  BY <1>2, <1>3, <1>5, SmallerWithout
<1>7. f[u \ {Pick(m, u)}] = g[u \ {Pick(m, u)}]
  BY <1>6
<1>8. f[u] = Step(m, Pick(m, u), f[u \ {Pick(m, u)}]) /\ g[u] = Step(m, Pick(m, u), g[u \ {Pick(m, u)}])
  BY <1>4 DEF Folds
<1> QED BY <1>7, <1>8

\* There is such a function.
LEMMA FoldsExists ==
    ASSUME NEW m, NEW S \in SUBSET Event
    PROVE  \E f : Folds(m, f, S)
<1> DEFINE F == {u \in SUBSET S : ~\E f : Folds(m, f, u)}
<1>1. SUFFICES ASSUME F # {} PROVE FALSE
  OBVIOUS
<1>2. \A u \in F : IsFiniteSet(u)
  BY EventFacts, FS_Subset
<1>3. PICK u \in F : \A v \in F : Cardinality(u) <= Cardinality(v)
  BY <1>1, <1>2, SmallestSet
<1>4. IsFiniteSet(u) /\ u \in SUBSET S /\ u \in SUBSET Event
  BY <1>2
<1> DEFINE G(v) == CHOOSE f : Folds(m, f, v)
           g == [s \in SUBSET u |->
                   IF s = {} THEN Base(m)
                   ELSE Step(m, Pick(m, s), G(s \ {Pick(m, s)})[s \ {Pick(m, s)}])]
<1>5. ASSUME NEW v \in SUBSET u, v # u PROVE Folds(m, G(v), v)
  <2>1. PICK x \in u : x \notin v
    BY <1>5
  <2>2. IsFiniteSet(u \ {x}) /\ ~(Cardinality(u) <= Cardinality(u \ {x}))
    BY <1>4, SmallerWithout
  <2>3. v \in SUBSET (u \ {x})
    BY <2>1
  <2>4. Cardinality(v) <= Cardinality(u \ {x})
    BY <2>2, <2>3, FS_Subset
  <2>5. Cardinality(v) \in Nat /\ Cardinality(u) \in Nat /\ Cardinality(u \ {x}) \in Nat
    BY <1>4, <2>2, <2>3, FS_CardinalityType, FS_Subset
  <2>6. v \notin F
    BY <1>3, <2>2, <2>4, <2>5
  <2>7. \E f : Folds(m, f, v)
    BY <1>4, <2>6
  <2> QED BY <2>7
<1>6. ASSUME NEW s \in SUBSET u, s # {} PROVE G(s \ {Pick(m, s)})[s \ {Pick(m, s)}] = g[s \ {Pick(m, s)}]
  <2> DEFINE x == Pick(m, s)
             v == s \ {x}
  <2>1. x \in s
    BY <1>6, PickIsOfTheSet
  <2>2. v \in SUBSET u /\ v # u /\ IsFiniteSet(v)
    BY <1>4, <2>1, FS_Subset
  <2>3. Folds(m, G(v), v)
    BY <1>5, <2>2
  <2> HIDE DEF G, x
  <2>4. CASE v = {}
    <3>1. G(v)[v] = Base(m)
      BY <2>3, <2>4 DEF Folds
    <3> QED BY <2>2, <2>4, <3>1 DEF x
  <2>5. CASE v # {}
    <3> DEFINE y == Pick(m, v)
               w == v \ {y}
    <3>1. y \in v
      BY <2>2, <2>5, PickIsOfTheSet
    <3>2. w \in SUBSET v /\ w \in SUBSET u /\ w # u
      BY <2>2, <3>1
    <3>3. Folds(m, G(w), w)
      BY <1>5, <3>2
    <3>4. G(v)[v] = Step(m, y, G(v)[w])
      BY <2>3, <2>5 DEF Folds
    <3>5. G(v)[w] = G(w)[w]
      BY <2>2, <2>3, <3>2, <3>3, FoldsAgree
    <3>6. g[v] = Step(m, y, G(w)[w])
      BY <2>2, <2>5
    <3> QED BY <3>4, <3>5, <3>6 DEF x
  <2> QED BY <2>4, <2>5
<1>7. Folds(m, g, u)
  <2> HIDE DEF G
  <2>1. g = [s \in SUBSET u |-> IF s = {} THEN Base(m) ELSE Step(m, Pick(m, s), g[s \ {Pick(m, s)}])]
    BY <1>6
  <2> HIDE DEF g
  <2> QED BY <2>1 DEF Folds
<1> QED BY <1>7

\* The products: what Functions makes of ProductOfRatios.
Products(f, S) ==
    f = [s \in SUBSET S |->
            IF s = {} THEN 1
            ELSE Amount[CHOOSE x \in s : TRUE] * f[s \ {CHOOSE x \in s : TRUE}]]

LEMMA ProductIsFold ==
    \A S : ProductOfRatios(S) = (CHOOSE f : Products(f, S))[S]
  BY DEF ProductOfRatios, FoldFunctionOnSet, MapThenFoldSet, Products, Amount

LEMMA ProductsAreFolds ==
    \A f, S : Products(f, S) <=> Folds(<<"product">>, f, S)
  BY DEF Products, Folds, Base, Pick, Step

LEMMA ProductOfNone == ProductOfRatios({}) = 1
<1> DEFINE g == CHOOSE f : Products(f, {})
<1>2. \E f : Products(f, {})
  BY FoldsExists, ProductsAreFolds
<1>3. Products(g, {})
  BY <1>2
<1> HIDE DEF g
<1>4. g[{}] = 1
  BY <1>3 DEF Products
<1> QED BY <1>4, ProductIsFold DEF g

\* The recursive equation of the product, for the element the fold picks.
LEMMA ProductOfPicked ==
    ASSUME NEW S \in SUBSET Event, S # {}
    PROVE  \E x \in S : ProductOfRatios(S) = Amount[x] * ProductOfRatios(S \ {x})
<1> DEFINE x == CHOOSE y \in S : TRUE
           T == S \ {x}
           f == CHOOSE h : Products(h, S)
           g == CHOOSE h : Products(h, T)
<1>1. x \in S /\ T \in SUBSET S /\ T \in SUBSET Event
  OBVIOUS
<1>2. Products(f, S) /\ Products(g, T)
  <2>1. (\E h : Products(h, S)) /\ \E h : Products(h, T)
    BY <1>1, FoldsExists, ProductsAreFolds
  <2> QED BY <2>1
<1>3. ProductOfRatios(S) = f[S] /\ ProductOfRatios(T) = g[T]
  BY ProductIsFold
<1> HIDE DEF f, g
<1>4. f[T] = g[T]
  BY <1>1, <1>2, FoldsAgree, ProductsAreFolds
<1>5. f[S] = Amount[x] * f[T]
  BY <1>2 DEF Products
<1> HIDE DEF x
<1> QED BY <1>1, <1>3, <1>4, <1>5

\* The product is a positive number.
LEMMA ProductIsPositive ==
    ASSUME NEW S \in SUBSET Event
    PROVE  ProductOfRatios(S) \in Nat \ {0}
<1> DEFINE F == {u \in SUBSET Event : ProductOfRatios(u) \notin Nat \ {0}}
<1>1. SUFFICES ASSUME F # {} PROVE FALSE
  OBVIOUS
<1>2. \A u \in F : IsFiniteSet(u)
  BY EventFacts, FS_Subset
<1>3. PICK u \in F : \A v \in F : Cardinality(u) <= Cardinality(v)
  BY <1>1, <1>2, SmallestSet
<1>4. u # {}
  BY ProductOfNone
<1>5. PICK x \in u : ProductOfRatios(u) = Amount[x] * ProductOfRatios(u \ {x})
  BY <1>4, ProductOfPicked
<1>6. u \ {x} \notin F
  BY <1>2, <1>3, <1>5, SmallerWithout
<1>7. ProductOfRatios(u \ {x}) \in Nat \ {0} /\ Amount[x] \in Nat \ {0}
  BY <1>5, <1>6, EventFacts
<1>9. \A a, b \in Nat \ {0} : a * b \in Nat \ {0}
  OBVIOUS
<1> QED BY <1>5, <1>7, <1>9

\* Whichever element is taken first, the product is the same.
LEMMA ProductOfAny ==
    ASSUME NEW S \in SUBSET Event, NEW x \in S
    PROVE  ProductOfRatios(S) = Amount[x] * ProductOfRatios(S \ {x})
<1> DEFINE Takes(u, e) == ProductOfRatios(u) = Amount[e] * ProductOfRatios(u \ {e})
           F == {u \in SUBSET Event : \E e \in u : ~Takes(u, e)}
<1>1. SUFFICES ASSUME F # {} PROVE FALSE
  OBVIOUS
<1>2. \A u \in F : IsFiniteSet(u)
  BY EventFacts, FS_Subset
<1>3. PICK u \in F : \A v \in F : Cardinality(u) <= Cardinality(v)
  BY <1>1, <1>2, SmallestSet
<1>4. PICK e \in u : ~Takes(u, e)
  OBVIOUS
<1>5. PICK y \in u : Takes(u, y)
  BY <1>4, ProductOfPicked
<1>6. y # e
  BY <1>4, <1>5
<1>7. u \ {e} \notin F
  BY <1>2, <1>3, <1>4, SmallerWithout
<1>8. u \ {y} \notin F
  BY <1>2, <1>3, <1>5, SmallerWithout
<1>9. Takes(u \ {e}, y)
  BY <1>5, <1>6, <1>7
<1>10. Takes(u \ {y}, e)
  BY <1>4, <1>6, <1>8
<1> DEFINE rest == ProductOfRatios((u \ {e}) \ {y})
<1>11. (u \ {e}) \ {y} = (u \ {y}) \ {e}
  OBVIOUS
<1>12. ProductOfRatios(u \ {e}) = Amount[y] * rest /\ ProductOfRatios(u \ {y}) = Amount[e] * rest
  BY <1>9, <1>10, <1>11
<1>13. rest \in Nat /\ Amount[y] \in Nat /\ Amount[e] \in Nat
  <2>1. (u \ {e}) \ {y} \in SUBSET Event
    OBVIOUS
  <2> QED BY <2>1, <1>4, <1>5, ProductIsPositive, EventFacts
<1> HIDE DEF rest
<1>14. \A a, b, c \in Nat : a * (b * c) = b * (a * c)
  OBVIOUS
<1>15. ProductOfRatios(u) = Amount[e] * ProductOfRatios(u \ {e})
  BY <1>5, <1>12, <1>13, <1>14
<1> QED BY <1>4, <1>15

\* The product over two parts is the product of theirs.
LEMMA ProductOfParts ==
    ASSUME NEW A \in SUBSET Event, NEW B \in SUBSET Event, A \cap B = {}
    PROVE  ProductOfRatios(A \cup B) = ProductOfRatios(A) * ProductOfRatios(B)
<1> DEFINE F == {u \in SUBSET A : ProductOfRatios(u \cup B) # ProductOfRatios(u) * ProductOfRatios(B)}
<1>1. SUFFICES ASSUME F # {} PROVE FALSE
  OBVIOUS
<1>2. \A u \in F : IsFiniteSet(u)
  BY EventFacts, FS_Subset
<1>3. PICK u \in F : \A v \in F : Cardinality(u) <= Cardinality(v)
  BY <1>1, <1>2, SmallestSet
<1>4. ProductOfRatios(B) \in Nat
  BY ProductIsPositive
<1>5. u # {}
  <2>1. {} \cup B = B /\ 1 * ProductOfRatios(B) = ProductOfRatios(B)
    BY <1>4
  <2> QED BY <2>1, ProductOfNone
<1>6. PICK x : x \in u
  BY <1>5
<1>7. u \ {x} \notin F
  BY <1>2, <1>3, <1>6, SmallerWithout
<1>8. ProductOfRatios((u \ {x}) \cup B) = ProductOfRatios(u \ {x}) * ProductOfRatios(B)
  BY <1>7
<1>9. ProductOfRatios(u) = Amount[x] * ProductOfRatios(u \ {x})
  BY <1>6, ProductOfAny
<1>10. ProductOfRatios(u \cup B) = Amount[x] * ProductOfRatios((u \ {x}) \cup B)
  <2>1. (u \cup B) \ {x} = (u \ {x}) \cup B /\ x \in u \cup B /\ u \cup B \in SUBSET Event
    BY <1>6
  <2> QED BY <2>1, ProductOfAny
<1>11. ProductOfRatios(u \ {x}) \in Nat /\ Amount[x] \in Nat
  <2>1. u \ {x} \in SUBSET Event /\ x \in Event
    BY <1>6
  <2> QED BY <2>1, ProductIsPositive, EventFacts
<1>12. \A a, b, c \in Nat : a * (b * c) = (a * b) * c
  OBVIOUS
<1>13. ProductOfRatios(u \cup B) = ProductOfRatios(u) * ProductOfRatios(B)
  BY <1>4, <1>8, <1>9, <1>10, <1>11, <1>12
<1> QED BY <1>13

-----------------------------------------------------------------------------
(* The net quantity of a set of trades.                                    *)

Nets(f, S) ==
    f = [s \in SUBSET S |->
            IF s = {} THEN 0
            ELSE Signed(CHOOSE x \in s : TRUE) + f[s \ {CHOOSE x \in s : TRUE}]]

LEMMA NetIsFold ==
    \A S : Net(S) = (CHOOSE f : Nets(f, S))[S]
  BY DEF Net, MapThenSumSet, MapThenFoldSet, Nets, Signed

LEMMA NetsAreFolds ==
    \A f, S : Nets(f, S) <=> Folds(<<"net">>, f, S)
  BY DEF Nets, Folds, Base, Pick, Step

LEMMA NetOfNone == Net({}) = 0
<1> DEFINE g == CHOOSE f : Nets(f, {})
<1>1. \E f : Nets(f, {})
  BY FoldsExists, NetsAreFolds
<1>2. Nets(g, {})
  BY <1>1
<1> HIDE DEF g
<1>3. g[{}] = 0
  BY <1>2 DEF Nets
<1> QED BY <1>3, NetIsFold DEF g

\* The recursive equation of the sum, for the element the fold picks.
LEMMA NetOfPicked ==
    ASSUME NEW S \in SUBSET Event, S # {}
    PROVE  \E x \in S : Net(S) = Signed(x) + Net(S \ {x})
<1> DEFINE x == CHOOSE y \in S : TRUE
           T == S \ {x}
           f == CHOOSE h : Nets(h, S)
           g == CHOOSE h : Nets(h, T)
<1>1. x \in S /\ T \in SUBSET S /\ T \in SUBSET Event
  OBVIOUS
<1>2. Nets(f, S) /\ Nets(g, T)
  <2>1. (\E h : Nets(h, S)) /\ \E h : Nets(h, T)
    BY <1>1, FoldsExists, NetsAreFolds
  <2> QED BY <2>1
<1>3. Net(S) = f[S] /\ Net(T) = g[T]
  BY NetIsFold
<1> HIDE DEF f, g
<1>4. f[T] = g[T]
  BY <1>1, <1>2, FoldsAgree, NetsAreFolds
<1>5. f[S] = Signed(x) + f[T]
  BY <1>2 DEF Nets
<1> HIDE DEF x
<1> QED BY <1>1, <1>3, <1>4, <1>5

LEMMA SignedIsInt == \A i \in Event : Signed(i) \in Int
  BY EventType DEF Signed

LEMMA NetIsInt ==
    ASSUME NEW S \in SUBSET Event
    PROVE  Net(S) \in Int
<1> DEFINE F == {u \in SUBSET Event : Net(u) \notin Int}
<1>1. SUFFICES ASSUME F # {} PROVE FALSE
  OBVIOUS
<1>2. \A u \in F : IsFiniteSet(u)
  BY EventFacts, FS_Subset
<1>3. PICK u \in F : \A v \in F : Cardinality(u) <= Cardinality(v)
  BY <1>1, <1>2, SmallestSet
<1>4. u # {}
  BY NetOfNone
<1>5. PICK x \in u : Net(u) = Signed(x) + Net(u \ {x})
  BY <1>4, NetOfPicked
<1>6. u \ {x} \notin F
  BY <1>2, <1>3, <1>5, SmallerWithout
<1>7. Net(u \ {x}) \in Int /\ Signed(x) \in Int
  BY <1>5, <1>6, SignedIsInt
<1> QED BY <1>5, <1>7

\* Whichever trade is taken first, the sum is the same.
LEMMA NetOfAny ==
    ASSUME NEW S \in SUBSET Event, NEW x \in S
    PROVE  Net(S) = Signed(x) + Net(S \ {x})
<1> DEFINE Takes(u, e) == Net(u) = Signed(e) + Net(u \ {e})
           F == {u \in SUBSET Event : \E e \in u : ~Takes(u, e)}
<1>1. SUFFICES ASSUME F # {} PROVE FALSE
  OBVIOUS
<1>2. \A u \in F : IsFiniteSet(u)
  BY EventFacts, FS_Subset
<1>3. PICK u \in F : \A v \in F : Cardinality(u) <= Cardinality(v)
  BY <1>1, <1>2, SmallestSet
<1>4. PICK e \in u : ~Takes(u, e)
  OBVIOUS
<1>5. PICK y \in u : Takes(u, y)
  BY <1>4, NetOfPicked
<1>6. y # e
  BY <1>4, <1>5
<1>7. u \ {e} \notin F
  BY <1>2, <1>3, <1>4, SmallerWithout
<1>8. u \ {y} \notin F
  BY <1>2, <1>3, <1>5, SmallerWithout
<1>9. Takes(u \ {e}, y)
  BY <1>5, <1>6, <1>7
<1>10. Takes(u \ {y}, e)
  BY <1>4, <1>6, <1>8
<1> DEFINE rest == Net((u \ {e}) \ {y})
<1>11. (u \ {e}) \ {y} = (u \ {y}) \ {e}
  OBVIOUS
<1>12. Net(u \ {e}) = Signed(y) + rest /\ Net(u \ {y}) = Signed(e) + rest
  BY <1>9, <1>10, <1>11
<1>13. rest \in Int /\ Signed(y) \in Int /\ Signed(e) \in Int
  <2>1. (u \ {e}) \ {y} \in SUBSET Event
    OBVIOUS
  <2> QED BY <2>1, <1>4, <1>5, NetIsInt, SignedIsInt
<1> HIDE DEF rest
<1>14. \A a, b, c \in Int : a + (b + c) = b + (a + c)
  OBVIOUS
<1>15. Net(u) = Signed(e) + Net(u \ {e})
  BY <1>5, <1>12, <1>13, <1>14
<1> QED BY <1>4, <1>15

-----------------------------------------------------------------------------
(* The replay of events into a position.                                   *)

Position == [quantity : Nat, warned : BOOLEAN]

\* What SequencesExt makes of replay_trades.
Replays(f, events, S) ==
    f = [s \in SUBSET S |->
            IF s = {} THEN NoPosition
            ELSE IF Index[Max(s)] \in events
                 THEN Apply(f[s \ {Max(s)}], Timeline[Index[Max(s)]])
                 ELSE f[s \ {Max(s)}]]

LEMMA ReplayIsFold ==
    \A events : replay_trades(events)
                    = (CHOOSE f : Replays(f, events, DOMAIN Index))[DOMAIN Index]
  BY DEF replay_trades, FoldLeftDomain, FoldLeft, MapThenFoldSet, Replays, Index, NoPosition

LEMMA ReplaysExist ==
    \A events : \E f : Replays(f, events, Event)
<1>1. SUFFICES ASSUME NEW events PROVE \E f : Replays(f, events, Event)
  OBVIOUS
<1> DEFINE m == <<"replay", events>>
<1>2. PICK f : Folds(m, f, Event)
  BY FoldsExists
<1>3. \A s \in SUBSET Event : Pick(m, s) = Max(s)
  BY DEF Pick
<1>4. \A s \in SUBSET Event : s # {} => Index[Max(s)] = Max(s)
  <2>1. \A s \in SUBSET Event : s # {} => Max(s) \in Event
    BY <1>3, PickIsOfTheSet
  <2> QED BY <2>1 DEF Index, Event
<1>5. Base(m) = NoPosition
  BY DEF Base
<1>6. \A x, value : Step(m, x, value) = IF x \in events THEN Apply(value, Timeline[x]) ELSE value
  BY DEF Step
<1> HIDE DEF m
<1>7. \A s \in SUBSET Event :
        (IF s = {} THEN Base(m) ELSE Step(m, Pick(m, s), f[s \ {Pick(m, s)}]))
            = IF s = {} THEN NoPosition
              ELSE IF Index[Max(s)] \in events
                   THEN Apply(f[s \ {Max(s)}], Timeline[Index[Max(s)]])
                   ELSE f[s \ {Max(s)}]
  BY <1>3, <1>4, <1>5, <1>6
<1>8. Replays(f, events, Event)
  BY <1>2, <1>7 DEF Folds, Replays
<1> QED BY <1>8

LEMMA ApplyIsPosition ==
    ASSUME NEW p \in Position, NEW i \in Event
    PROVE  Apply(p, Timeline[i]) \in Position
<1> DEFINE e == Timeline[i]
<1>1. e \in [kind : {"OPENING", "SPLIT", "BUY", "SELL"}, date : Int, amount : Nat \ {0}]
  BY EventType
<1> HIDE DEF e
<1>2. p.quantity + e.amount \in Nat /\ p.quantity * e.amount \in Nat
  BY <1>1 DEF Position
<1>3. e.amount <= p.quantity => p.quantity - e.amount \in Nat
  BY <1>1 DEF Position
<1>4. \A q \in Nat, w \in BOOLEAN : [quantity |-> q, warned |-> w] \in Position
  BY DEF Position
<1>5. p = [quantity |-> p.quantity, warned |-> p.warned] /\ p.warned \in BOOLEAN
  BY DEF Position
<1>6. CASE e.kind = "OPENING"
  <2>1. Apply(p, e) = [quantity |-> p.quantity + e.amount, warned |-> TRUE]
    BY <1>5, <1>6 DEF Apply
  <2> QED BY <1>2, <1>4, <2>1 DEF e
<1>7. CASE e.kind = "SPLIT"
  <2>1. Apply(p, e) = [quantity |-> p.quantity * e.amount, warned |-> p.warned]
    BY <1>5, <1>7 DEF Apply
  <2> QED BY <1>2, <1>4, <1>5, <2>1 DEF e
<1>8. CASE e.kind = "BUY"
  <2>1. Apply(p, e) = [quantity |-> p.quantity + e.amount, warned |-> p.warned]
    BY <1>5, <1>8 DEF Apply
  <2> QED BY <1>2, <1>4, <1>5, <2>1 DEF e
<1>9. CASE e.kind = "SELL" /\ e.amount <= p.quantity
  <2>1. Apply(p, e) = [quantity |-> p.quantity - e.amount, warned |-> p.warned]
    BY <1>5, <1>9 DEF Apply
  <2> QED BY <1>3, <1>4, <1>5, <1>9, <2>1 DEF e
<1>10. CASE e.kind = "SELL" /\ ~(e.amount <= p.quantity)
  <2>1. Apply(p, e) = [quantity |-> 0, warned |-> TRUE]
    BY <1>10 DEF Apply
  <2> QED BY <1>4, <2>1 DEF e
<1> QED BY <1>1, <1>6, <1>7, <1>8, <1>9, <1>10

\* The replay event by event, from any set of them.
LEMMA ReplayStep ==
    ASSUME NEW events, NEW f, Replays(f, events, Event)
    PROVE  /\ f[{}] = NoPosition
           /\ \A u \in SUBSET Event : u # {} =>
                 /\ Max(u) \in u
                 /\ f[u] = IF Max(u) \in events THEN Apply(f[u \ {Max(u)}], Timeline[Max(u)])
                           ELSE f[u \ {Max(u)}]
           /\ \A u \in SUBSET Event : f[u] \in Position
<1>1. f[{}] = NoPosition
  BY DEF Replays
<1>2. ASSUME NEW u \in SUBSET Event, u # {}
      PROVE  /\ Max(u) \in u
             /\ f[u] = IF Max(u) \in events THEN Apply(f[u \ {Max(u)}], Timeline[Max(u)])
                       ELSE f[u \ {Max(u)}]
  <2>1. IsFiniteSet(u) /\ u \in SUBSET Int
    <3>1. IsFiniteSet(u)
      BY EventFacts, FS_Subset
    <3> QED BY <3>1, EventType
  <2>2. Max(u) \in u
    BY <1>2, <2>1, FirstAndLast
  <2>3. Index[Max(u)] = Max(u)
    BY <2>2 DEF Index, Event
  <2> QED BY <1>2, <2>2, <2>3 DEF Replays
<1> DEFINE F == {u \in SUBSET Event : f[u] \notin Position}
<1>3. F = {}
  <2>1. SUFFICES ASSUME F # {} PROVE FALSE
    OBVIOUS
  <2>2. \A u \in F : IsFiniteSet(u)
    BY EventFacts, FS_Subset
  <2>3. PICK u \in F : \A v \in F : Cardinality(u) <= Cardinality(v)
    BY <2>1, <2>2, SmallestSet
  <2>4. u # {}
    <3>1. NoPosition \in Position
      BY DEF NoPosition, Position
    <3> QED BY <1>1, <3>1
  <2> DEFINE x == Max(u)
  <2>5. x \in u /\ x \in Event
    BY <1>2, <2>4
  <2>6. f[u \ {x}] \in Position
    BY <2>2, <2>3, <2>5, SmallerWithout
  <2>7. f[u] = IF x \in events THEN Apply(f[u \ {x}], Timeline[x]) ELSE f[u \ {x}]
    BY <1>2, <2>4
  <2> HIDE DEF x
  <2>8. f[u] \in Position
    BY <2>5, <2>6, <2>7, ApplyIsPosition
  <2> QED BY <2>8
<1> QED BY <1>1, <1>2, <1>3

\* No history, however many shares it sells, leaves a negative position.
LEMMA ReplayIsPosition ==
    \A events : replay_trades(events) \in Position
<1>1. SUFFICES ASSUME NEW events PROVE replay_trades(events) \in Position
  OBVIOUS
<1> DEFINE f == CHOOSE g : Replays(g, events, Event)
<1>2. Replays(f, events, Event)
  BY ReplaysExist
<1>3. replay_trades(events) = f[Event]
  <2>1. DOMAIN Index = Event
    BY DEF Index, Event
  <2> QED BY <2>1, ReplayIsFold
<1> HIDE DEF f
<1>4. f[Event] \in Position
  BY <1>2, ReplayStep
<1> QED BY <1>3, <1>4

\* What is frozen of two positions is a decision.
LEMMA FrozenIsDecision ==
    ASSUME NEW source \in Source, NEW at \in Position, NEW prior \in Position,
           NEW trades \in SUBSET Event
    PROVE  freeze(source, at, prior, trades) \in Decision
<1>1. \A p \in Position : _symbol_data_quality(p) \in {"CLEAN", "RECONSTRUCTION_WARNING"}
  BY DEF _symbol_data_quality
<1>2. classify_actual_action(prior.quantity, at.quantity, trades) \in Action
  <2> DEFINE a == prior.quantity
             b == at.quantity
  <2>1. a \in Nat /\ b \in Nat
    BY DEF Position
  <2> HIDE DEF a, b
  <2>2. classify_actual_action(a, b, trades) \in Action
    BY <2>1 DEF classify_actual_action, Action
  <2> QED BY <2>2 DEF a, b
<1>3. prior.quantity \in Nat /\ at.quantity \in Nat
  BY DEF Position
<1>4. ActualDecision(at, prior, trades) \in Decision
  BY <1>1, <1>2, <1>3 DEF ActualDecision, Decision
<1>5. HoldDecision(at, prior) \in Decision
  BY <1>1, <1>3 DEF HoldDecision, Decision, Action
<1>6. BaselineDecision(prior) \in Decision
  BY <1>1, <1>3 DEF BaselineDecision, Decision, Action
<1> QED BY <1>4, <1>5, <1>6 DEF freeze, Source

-----------------------------------------------------------------------------
(* What the trades of a day change: they come last in the replay.          *)

\* No event takes a warning away.
LEMMA WarningStays ==
    ASSUME NEW p \in Position, p.warned, NEW i \in Event
    PROVE  Apply(p, Timeline[i]).warned
<1>1. p = [quantity |-> p.quantity, warned |-> p.warned]
  BY DEF Position
<1>2. Timeline[i].kind \in {"OPENING", "SPLIT", "BUY", "SELL"}
  BY EventType
<1> HIDE DEF Event
<1> QED BY <1>1, <1>2 DEF Apply

\* A warning never goes away, and an opening adjustment always leaves one.
LEMMA OpeningsWarn ==
    ASSUME NEW events, ~replay_trades(events).warned
    PROVE  \A i \in events \cap Event : Kind(i) # "OPENING"
<1> DEFINE f == CHOOSE g : Replays(g, events, Event)
<1>1. Replays(f, events, Event)
  BY ReplaysExist
<1>2. replay_trades(events) = f[Event]
  <2>1. DOMAIN Index = Event
    BY DEF Index, Event
  <2> QED BY <2>1, ReplayIsFold
<1> HIDE DEF f
<1>3. SUFFICES ASSUME NEW o \in events \cap Event, Kind(o) = "OPENING" PROVE FALSE
  OBVIOUS
<1> DEFINE F == {u \in SUBSET Event : o \in u /\ ~f[u].warned}
<1>4. F # {} /\ \A u \in F : IsFiniteSet(u)
  <2>1. \A u \in F : IsFiniteSet(u)
    BY EventFacts, FS_Subset
  <2> QED BY <1>2, <1>3, <2>1
<1>5. PICK u \in F : \A v \in F : Cardinality(u) <= Cardinality(v)
  BY <1>4, SmallestSet
<1> DEFINE x == Max(u)
<1>6. /\ x \in u /\ f[u \ {x}] \in Position /\ u \ {x} \in SUBSET Event
      /\ f[u] = IF x \in events THEN Apply(f[u \ {x}], Timeline[x]) ELSE f[u \ {x}]
  <2>1. u # {} /\ u \in SUBSET Event
    BY <1>5
  <2> QED BY <1>1, <2>1, ReplayStep
<1> HIDE DEF x
<1>7. u \ {x} \notin F
  BY <1>4, <1>5, <1>6, SmallerWithout
<1>8. CASE x = o
  <2>1. f[u].warned = TRUE
    BY <1>3, <1>6, <1>8 DEF Apply, Kind, Position
  <2> QED BY <1>5, <2>1
<1>9. CASE x # o
  <2>1. f[u \ {x}].warned
    BY <1>5, <1>6, <1>7, <1>9
  <2>2. f[u].warned
    BY <1>6, <2>1, WarningStays
  <2> QED BY <1>5, <2>2
<1> QED BY <1>8, <1>9

LEMMA TradeApplied ==
    ASSUME NEW p \in Position, NEW i \in Event, Kind(i) \in {"BUY", "SELL"},
           ~Apply(p, Timeline[i]).warned
    PROVE  Apply(p, Timeline[i]).quantity = p.quantity + Signed(i)
<1>1. p = [quantity |-> p.quantity, warned |-> p.warned] /\ p.quantity \in Nat
  BY DEF Position
<1>2. Timeline[i].amount \in Nat
  BY EventType
<1> HIDE DEF Event
<1>3. CASE Timeline[i].kind = "BUY"
  BY <1>1, <1>2, <1>3 DEF Apply, Signed, Kind
<1>4. CASE Timeline[i].kind = "SELL" /\ Timeline[i].amount <= p.quantity
  BY <1>1, <1>2, <1>4 DEF Apply, Signed, Kind
<1>5. CASE Timeline[i].kind = "SELL" /\ ~(Timeline[i].amount <= p.quantity)
  BY <1>5 DEF Apply
<1> QED BY <1>3, <1>4, <1>5 DEF Kind

\* An unwarned replay holds, on top of what it would hold without the trades
\* that come last, what these trades bring.
LEMMA LastTradesAdd ==
    ASSUME NEW events \in SUBSET Event, NEW X \in SUBSET events,
           \A i \in X : Kind(i) \in {"BUY", "SELL"},
           \A i \in X, j \in events \ X : j < i,
           ~replay_trades(events).warned
    PROVE  replay_trades(events).quantity = replay_trades(events \ X).quantity + Net(X)
<1> DEFINE f == CHOOSE g : Replays(g, events, Event)
           h == CHOOSE g : Replays(g, events \ X, Event)
<1>1. Replays(f, events, Event) /\ Replays(h, events \ X, Event)
  <2>1. (\E g : Replays(g, events, Event)) /\ \E g : Replays(g, events \ X, Event)
    BY ReplaysExist
  <2> QED BY <2>1
<1>2. replay_trades(events) = f[Event] /\ replay_trades(events \ X) = h[Event]
  <2>1. DOMAIN Index = Event
    BY DEF Index, Event
  <2> QED BY <2>1, ReplayIsFold
<1> HIDE DEF f, h
<1>3. ASSUME NEW u \in SUBSET Event, u # {}, NEW x, x = Max(u)
      PROVE  /\ x \in u /\ x \in Event /\ u \ {x} \in SUBSET Event /\ \A y \in u : y <= x
             /\ f[u \ {x}] \in Position /\ h[u \ {x}] \in Position
             /\ f[u] = IF x \in events THEN Apply(f[u \ {x}], Timeline[x]) ELSE f[u \ {x}]
             /\ h[u] = IF x \in events \ X THEN Apply(h[u \ {x}], Timeline[x]) ELSE h[u \ {x}]
             /\ IsFiniteSet(u)
  <2>1. IsFiniteSet(u) /\ u \in SUBSET Int
    <3>1. IsFiniteSet(u)
      BY EventFacts, FS_Subset
    <3> QED BY <3>1, EventType
  <2>2. \A y \in u : y <= x
    BY <1>3, <2>1, FirstAndLast
  <2>3. u \ {x} \in SUBSET Event
    OBVIOUS
  <2>4. /\ x \in u
        /\ f[u] = IF x \in events THEN Apply(f[u \ {x}], Timeline[x]) ELSE f[u \ {x}]
        /\ f[u \ {x}] \in Position
    BY <1>1, <1>3, <2>3, ReplayStep
  <2>5. /\ h[u] = IF x \in events \ X THEN Apply(h[u \ {x}], Timeline[x]) ELSE h[u \ {x}]
        /\ h[u \ {x}] \in Position
    <3> DEFINE rest == events \ X
    <3>1. Replays(h, rest, Event)
      BY <1>1
    <3> HIDE DEF rest
    <3>2. /\ h[u] = IF x \in rest THEN Apply(h[u \ {x}], Timeline[x]) ELSE h[u \ {x}]
          /\ h[u \ {x}] \in Position
      BY <1>3, <2>3, <3>1, ReplayStep
    <3> QED BY <3>2 DEF rest
  <2>6. x \in Event
    BY <2>4
  <2> QED BY <2>1, <2>2, <2>3, <2>4, <2>5, <2>6
<1> DEFINE Apart(u) == u \cap X = {} /\ f[u] # h[u]
           F == {u \in SUBSET Event : Apart(u)}
<1>4. F = {}
  <2>1. SUFFICES ASSUME F # {} PROVE FALSE
    OBVIOUS
  <2>2. \A u \in F : IsFiniteSet(u)
    BY EventFacts, FS_Subset
  <2>3. PICK u \in F : \A v \in F : Cardinality(u) <= Cardinality(v)
    BY <2>1, <2>2, SmallestSet
  <2>4. u # {}
    <3>1. f[{}] = NoPosition /\ h[{}] = NoPosition
      BY <1>1, ReplayStep
    <3> QED BY <3>1
  <2>5. PICK x : x = Max(u)
    OBVIOUS
  <2>6. u \ {x} \notin F /\ (u \ {x}) \cap X = {} /\ x \notin X
    BY <1>3, <2>2, <2>3, <2>4, <2>5, SmallerWithout
  <2>7. f[u \ {x}] = h[u \ {x}]
    BY <2>6
  <2>8. f[u] = h[u]
    BY <1>3, <2>4, <2>5, <2>6, <2>7
  <2> QED BY <2>8
<1> DEFINE Off(u) == ~f[u].warned /\ f[u].quantity # h[u].quantity + Net(u \cap X)
           G == {u \in SUBSET Event : Off(u)}
<1>5. G = {}
  <2>1. SUFFICES ASSUME G # {} PROVE FALSE
    OBVIOUS
  <2>2. \A u \in G : IsFiniteSet(u)
    BY EventFacts, FS_Subset
  <2>3. PICK u \in G : \A v \in G : Cardinality(u) <= Cardinality(v)
    BY <2>1, <2>2, SmallestSet
  <2>4. u # {}
    <3>1. f[{}] = NoPosition /\ h[{}] = NoPosition
      BY <1>1, ReplayStep
    <3>2. {} \cap X = {} /\ Net({}) = 0
      BY NetOfNone
    <3> QED BY <3>1, <3>2 DEF NoPosition
  <2>5. PICK x : x = Max(u)
    OBVIOUS
  <2>6. /\ x \in u /\ x \in Event /\ u \ {x} \in SUBSET Event /\ \A y \in u : y <= x
        /\ f[u \ {x}] \in Position /\ h[u \ {x}] \in Position
        /\ f[u] = IF x \in events THEN Apply(f[u \ {x}], Timeline[x]) ELSE f[u \ {x}]
        /\ h[u] = IF x \in events \ X THEN Apply(h[u \ {x}], Timeline[x]) ELSE h[u \ {x}]
    BY <1>3, <2>4, <2>5
  <2>7. u \ {x} \notin G
    BY <2>2, <2>3, <2>6, SmallerWithout
  <2>8. ~f[u].warned /\ f[u].quantity # h[u].quantity + Net(u \cap X)
    BY <2>3
  <2>9. ~f[u \ {x}].warned
    BY <2>6, <2>8, WarningStays
  <2>10. f[u \ {x}].quantity = h[u \ {x}].quantity + Net((u \ {x}) \cap X)
    BY <2>6, <2>7, <2>9
  <2>11. CASE x \in X
    <3>1. h[u] = h[u \ {x}] /\ f[u] = Apply(f[u \ {x}], Timeline[x])
      BY <2>6, <2>11
    <3>2. Net(u \cap X) = Signed(x) + Net((u \ {x}) \cap X)
      <4>1. (u \cap X) \ {x} = (u \ {x}) \cap X /\ x \in u \cap X /\ u \cap X \in SUBSET Event
        BY <2>6, <2>11
      <4> QED BY <4>1, NetOfAny
    <3>3. f[u].quantity = f[u \ {x}].quantity + Signed(x)
      BY <2>6, <2>8, <2>11, <3>1, TradeApplied
    <3>4. /\ Net((u \ {x}) \cap X) \in Int /\ Signed(x) \in Int
          /\ h[u \ {x}].quantity \in Int
      <4>1. (u \ {x}) \cap X \in SUBSET Event
        BY <2>6
      <4> QED BY <2>6, <4>1, NetIsInt, SignedIsInt DEF Position
    <3> QED BY <2>8, <2>10, <3>1, <3>2, <3>3, <3>4
  <2>12. CASE x \in events \ X
    <3>1. \A y \in u : y \notin X
      <4>1. \A y \in X : x < y /\ y \in Int /\ x \in Int
        BY <2>6, <2>12, EventType
      <4> QED BY <2>6, <4>1
    <3>2. u \cap X = {}
      BY <3>1
    <3>3. f[u] = h[u]
      BY <1>4, <2>3, <3>2
    <3>4. h[u].quantity \in Int
      <4>1. u \in SUBSET Event
        BY <2>3
      <4> QED BY <1>1, <4>1, ReplayStep DEF Position
    <3>5. Net(u \cap X) = 0
      BY <3>2, NetOfNone
    <3>6. f[u].quantity = h[u].quantity + Net(u \cap X)
      BY <3>3, <3>4, <3>5
    <3> QED BY <2>8, <3>6
  <2>13. CASE x \notin events
    <3>1. u \cap X = (u \ {x}) \cap X
      BY <2>13
    <3> QED BY <2>6, <2>8, <2>10, <2>13, <3>1
  <2> QED BY <2>11, <2>12, <2>13
<1>6. Event \cap X = X
  OBVIOUS
<1> QED BY <1>2, <1>5, <1>6

-----------------------------------------------------------------------------
(* Returns.                                                                *)

\* A quotient is known by its remainder.
LEMMA DivIsUnique ==
    ASSUME NEW x \in Int, NEW y \in Nat \ {0}, NEW q \in Int, NEW r \in Int,
           x = y * q + r, 0 <= r, r < y
    PROVE  x \div y = q
  OBVIOUS

LEMMA DivHasRemainder ==
    ASSUME NEW x \in Int, NEW y \in Nat \ {0}
    PROVE  /\ x \div y \in Int
           /\ \E r \in Int : 0 <= r /\ r < y /\ x = y * (x \div y) + r
  OBVIOUS

\* A common factor does not change a quotient.
LEMMA DivCancels ==
    ASSUME NEW x \in Int, NEW y \in Nat \ {0}, NEW c \in Nat \ {0}
    PROVE  (x * c) \div (y * c) = x \div y
<1> DEFINE q == x \div y
<1>1. q \in Int
  BY DivHasRemainder
<1>2. PICK r \in Int : 0 <= r /\ r < y /\ x = y * q + r
  BY DivHasRemainder
<1> HIDE DEF q
<1>3. x * c = (y * q) * c + r * c
  BY <1>1, <1>2
<1>4. (y * q) * c = (y * c) * q
  BY <1>1
<1>5. 0 <= r * c /\ r * c < y * c
  BY <1>2
<1>6. y * c \in Nat \ {0} /\ x * c \in Int /\ r * c \in Int
  BY <1>2
<1> DEFINE X == x * c
           Y == y * c
           R == r * c
<1>7. X = Y * q + R
  BY <1>3, <1>4
<1>8. 0 <= R /\ R < Y /\ X \in Int /\ Y \in Nat \ {0} /\ R \in Int
  BY <1>5, <1>6
<1> HIDE DEF X, Y, R
<1>9. X \div Y = q
  BY <1>1, <1>7, <1>8, DivIsUnique
<1> QED BY <1>9 DEF X, Y, q

LEMMA PriceFacts ==
    /\ \A x \in Series, d \in Day : Price[x][d] \in Nat \ {0}
    /\ Day \subseteq Int /\ Stock \in Series /\ TRI_BENCHMARK_CODE \in Series
    /\ BENCHMARK_CODE \in Series /\ NONE \notin Int /\ Unit \in Nat \ {0}
  BY WalkForwardAssumption DEF Series

LEMMA FactorIsPositive ==
    ASSUME NEW events \in SUBSET Event, NEW start, NEW end
    PROVE  cumulative_split_factor(events, start, end) \in Nat \ {0}
<1>1. {i \in events : start < Timeline[i].date /\ Timeline[i].date <= end} \in SUBSET Event
  OBVIOUS
<1> QED BY <1>1, ProductIsPositive DEF cumulative_split_factor

LEMMA ReturnIsFigure ==
    ASSUME NEW start \in Nat \ {0}, NEW end \in Int
    PROVE  Return(start, end) \in Int
<1>1. end * Unit \in Int
  BY PriceFacts
<1>2. (end * Unit) \div start \in Int
  BY <1>1, DivHasRemainder
<1> QED BY <1>2, PriceFacts DEF Return

\* A return is the same on any share count.
LEMMA ReturnCancels ==
    ASSUME NEW start \in Nat \ {0}, NEW end \in Int, NEW c \in Nat \ {0}
    PROVE  Return(start * c, end * c) = Return(start, end)
<1>1. end * Unit \in Int
  BY PriceFacts
<1>2. (end * c) * Unit = (end * Unit) * c
  BY PriceFacts
<1>3. ((end * Unit) * c) \div (start * c) = (end * Unit) \div start
  BY <1>1, DivCancels
<1> QED BY <1>2, <1>3 DEF Return

\* The splits up to a day.
SplitsTo(day) == {i \in Event : Kind(i) = "SPLIT" /\ Timeline[i].date <= day}

LEMMA ProductToDate ==
    ASSUME NEW d \in Int, NEW e \in Int, d <= e
    PROVE  ProductOfRatios(SplitsTo(e))
               = ProductOfRatios(SplitsTo(d)) * ProductOfRatios(TrueSplits(d, e))
<1>1. SplitsTo(e) = SplitsTo(d) \cup TrueSplits(d, e)
  BY EventFacts DEF SplitsTo, TrueSplits
<1>2. SplitsTo(d) \cap TrueSplits(d, e) = {}
  BY EventFacts DEF SplitsTo, TrueSplits
<1>3. SplitsTo(d) \in SUBSET Event /\ TrueSplits(d, e) \in SUBSET Event
  BY DEF SplitsTo, TrueSplits
<1> QED BY <1>1, <1>2, <1>3, ProductOfParts

\* What a holding gains from one close to a later one.
LEMMA GainOfHolding ==
    ASSUME NEW d \in Day, NEW e \in Day, d <= e
    PROVE  Return(TrueValue(d), TrueValue(e))
               = Return(Price[Stock][d],
                        Price[Stock][e] * ProductOfRatios(TrueSplits(d, e)))
<1> DEFINE c == ProductOfRatios(SplitsTo(d))
           m == ProductOfRatios(TrueSplits(d, e))
           p == Price[Stock][d]
           q == Price[Stock][e]
<1>1. c \in Nat \ {0} /\ m \in Nat \ {0}
  BY ProductIsPositive DEF SplitsTo, TrueSplits
<1>2. p \in Nat \ {0} /\ q \in Nat \ {0}
  BY PriceFacts
<1>3. TrueValue(d) = p * c
  BY DEF TrueValue, SplitsTo
<1>4. TrueValue(e) = q * (c * m)
  <2>1. d \in Int /\ e \in Int
    BY PriceFacts
  <2>2. ProductOfRatios(SplitsTo(e)) = c * m
    BY <2>1, ProductToDate
  <2>3. TrueValue(e) = q * ProductOfRatios(SplitsTo(e))
    BY DEF TrueValue, SplitsTo
  <2> QED BY <2>2, <2>3
<1> HIDE DEF c, m, p, q
<1>5. q * (c * m) = (q * m) * c /\ q * m \in Int
  BY <1>1, <1>2
<1>6. Return(p * c, (q * m) * c) = Return(p, q * m)
  BY <1>1, <1>2, <1>5, ReturnCancels
<1> QED BY <1>3, <1>4, <1>5, <1>6 DEF m, p, q

\* The factor is the product of the splits there were, if all of them are known.
LEMMA FactorOfKnownSplits ==
    ASSUME NEW events, events \subseteq {i \in Event : Kind(i) = "SPLIT"},
           NEW start, NEW end, TrueSplits(start, end) \subseteq events
    PROVE  cumulative_split_factor(events, start, end) = ProductOfRatios(TrueSplits(start, end))
<1>1. {i \in events : start < Timeline[i].date /\ Timeline[i].date <= end} = TrueSplits(start, end)
  BY DEF TrueSplits
<1> QED BY <1>1 DEF cumulative_split_factor

\* The stock return of a horizon is what the holding gained.
LEMMA StockReturnIsGain ==
    ASSUME NEW T \in Int, NEW events, events \subseteq {i \in Event : Kind(i) = "SPLIT"},
           NEW entry \in Day, NEW date \in Day, entry <= T, T <= date,
           TrueSplits(entry, T) = {}, TrueSplits(entry, date) \subseteq events
    PROVE  StockReturn(T, events, entry, date) = Return(TrueValue(entry), TrueValue(date))
<1>1. entry \in Int /\ date \in Int /\ entry <= date /\ NONE \notin {entry, date}
  BY PriceFacts
<1>2. TrueSplits(entry, date) = TrueSplits(T, date)
  BY <1>1, EventFacts DEF TrueSplits
<1>3. cumulative_split_factor(events, T, date) = ProductOfRatios(TrueSplits(entry, date))
  BY <1>2, FactorOfKnownSplits
<1>4. StockReturn(T, events, entry, date)
          = Return(Price[Stock][entry],
                   Price[Stock][date] * ProductOfRatios(TrueSplits(entry, date)))
  BY <1>1, <1>3 DEF StockReturn, split_adjusted_return
<1> QED BY <1>1, <1>4, GainOfHolding

\* So is the return between two closes of the drawdown, on the last day's
\* share count.
LEMMA AdjustedReturnIsGain ==
    ASSUME NEW T \in Int, NEW end \in Int,
           NEW events, events \subseteq {i \in Event : Kind(i) = "SPLIT"},
           TrueSplits(T, end) \subseteq events,
           NEW d \in Day, NEW e \in Day, T <= d, d < e, e <= end
    PROVE  Return(Price[Stock][d] * cumulative_split_factor(events, e, end),
                  Price[Stock][e] * cumulative_split_factor(events, d, end))
               = Return(TrueValue(d), TrueValue(e))
<1>1. d \in Int /\ e \in Int /\ d <= e
  BY PriceFacts
<1> DEFINE c == ProductOfRatios(TrueSplits(e, end))
           m == ProductOfRatios(TrueSplits(d, e))
           p == Price[Stock][d]
           q == Price[Stock][e]
<1>2. c \in Nat \ {0} /\ m \in Nat \ {0}
  BY ProductIsPositive DEF TrueSplits
<1>3. p \in Nat \ {0} /\ q \in Nat \ {0}
  BY PriceFacts
<1>4. cumulative_split_factor(events, e, end) = c
  <2>1. TrueSplits(e, end) \subseteq events
    BY <1>1, EventFacts DEF TrueSplits
  <2> QED BY <2>1, FactorOfKnownSplits
<1>5. cumulative_split_factor(events, d, end) = m * c
  <2>1. TrueSplits(d, end) \subseteq events
    BY <1>1, EventFacts DEF TrueSplits
  <2>2. TrueSplits(d, end) = TrueSplits(d, e) \cup TrueSplits(e, end)
    BY <1>1, EventFacts DEF TrueSplits
  <2>3. TrueSplits(d, e) \cap TrueSplits(e, end) = {}
    BY <1>1, EventFacts DEF TrueSplits
  <2>4. TrueSplits(d, e) \in SUBSET Event /\ TrueSplits(e, end) \in SUBSET Event
    BY DEF TrueSplits
  <2> QED BY <2>1, <2>2, <2>3, <2>4, ProductOfParts, FactorOfKnownSplits
<1>6. Return(p, q * m) = Return(TrueValue(d), TrueValue(e))
  BY <1>1, GainOfHolding
<1> HIDE DEF c, m, p, q
<1>7. q * (m * c) = (q * m) * c /\ q * m \in Int
  BY <1>2, <1>3
<1>8. Return(p * c, (q * m) * c) = Return(p, q * m)
  BY <1>2, <1>3, <1>7, ReturnCancels
<1> QED BY <1>4, <1>5, <1>6, <1>7, <1>8 DEF p, q

LEMMA DrawdownIsOfTheHolding ==
    ASSUME NEW T \in Int, NEW end \in Int,
           NEW events, events \subseteq {i \in Event : Kind(i) = "SPLIT"},
           TrueSplits(T, end) \subseteq events,
           NEW days, days \subseteq Day, \A d \in days : T <= d /\ d <= end
    PROVE  max_drawdown_pct(events, days, end)
               = Min({0} \cup {Return(TrueValue(p[1]), TrueValue(p[2])) :
                                  p \in {q \in days \X days : q[1] < q[2]}})
<1> DEFINE adjusted(d, other) ==
             Price[Stock][d] * cumulative_split_factor(events, other, end)
           Later == {q \in days \X days : q[1] < q[2]}
<1>1. ASSUME NEW p \in Later
      PROVE  Return(adjusted(p[1], p[2]), adjusted(p[2], p[1]))
                 = Return(TrueValue(p[1]), TrueValue(p[2]))
  <2>1. p[1] \in days /\ p[2] \in days /\ p[1] < p[2]
    OBVIOUS
  <2>2. p[1] \in Day /\ p[2] \in Day /\ T <= p[1] /\ p[2] <= end
    BY <2>1
  <2> QED BY <2>1, <2>2, AdjustedReturnIsGain
<1>2. {Return(adjusted(p[1], p[2]), adjusted(p[2], p[1])) : p \in Later}
          = {Return(TrueValue(p[1]), TrueValue(p[2])) : p \in Later}
  BY <1>1
<1> QED BY <1>2 DEF max_drawdown_pct

-----------------------------------------------------------------------------
(* The inductive invariant.  What is committed was drafted, and what is     *)
(* drafted was computed, so every step of the scoring must leave what the   *)
(* next one needs; and the closes a stored total-return figure was made of  *)
(* are still there when it is made anew, or a back-fill would erase it.     *)
(* M are the closes stored, R the committed runs, K the committed rows and  *)
(* D those a session has drafted.                                          *)

Fields == {"pc", "cmd", "run", "quiet", "job", "todo", "at", "prior", "decision", "events",
           "existing", "entry", "turns", "widest_end_date", "days", "outcome"}
Shape(r) == r = [f \in Fields |-> r[f]]
Job == DecisionDate \X Source
KeyOf(r, job) == <<r.run, job[1], job[2]>>
AllOf(todo) == UNION {todo[n] : n \in DOMAIN todo}

AfterLookup == {"load", "horizon", "drawdown", "write"}
AfterLoad == {"horizon", "drawdown", "write"}

\* A close to enter with, or to score a horizon with, is stored.
Enters(x, T, M) == \E d \in Day : d <= T /\ <<x, d>> \in M
Exits(x, T, h, M) == \E d \in T + Months[h] .. T + Months[h] + Lookahead : <<x, d>> \in M
Scorable(x, T, h, M) == Enters(x, T, M) /\ Exits(x, T, h, M)

\* The total-return figures of an outcome can be made anew.
Supported(o, T, M) ==
    \A h \in Horizon :
        /\ o.benchmark_tri_return[h] # NONE => Scorable(TRI_BENCHMARK_CODE, T, h, M)
        /\ o.excess_return_tri[h] # NONE =>
              Scorable(TRI_BENCHMARK_CODE, T, h, M) /\ Scorable(Stock, T, h, M)

\* What OutcomesInWindow says of an outcome.
InWindow(o, T) ==
    /\ o.entry_price_date # NONE => o.entry_price_date \in Day /\ o.entry_price_date <= T
    /\ \A h \in Horizon :
          /\ o.price_date[h] # NONE =>
                /\ o.price_date[h] \in Day
                /\ o.price_date[h] \in T + Months[h] .. T + Months[h] + Lookahead
          /\ o.stock_return[h] = NONE <=> NONE \in {o.entry_price_date, o.price_date[h]}
    /\ o.outcome_status = "SCORED" <=> Scored(o.stock_return) = Horizon
    /\ o.outcome_status = "UNSCORABLE" <=> Scored(o.stock_return) = {}

OutcomeOk(o, T, M) == InWindow(o, T) /\ Supported(o, T, M)

\* No total-return figure of o is lost in p.
Keeps(o, p) == \A f \in TriField, h \in Horizon : o[f][h] # NONE => p[f][h] # NONE

\* What a session has read when it begins to score.
LoadedOk(r, M) ==
    /\ r.events \subseteq {i \in Event : Kind(i) = "SPLIT"}
    /\ r.entry \in [Series -> Day \cup {NONE}]
    /\ \A x \in Series : r.entry[x] # NONE => r.entry[x] <= r.job[1] /\ <<x, r.entry[x]>> \in M
    /\ r.existing # NONE =>
          /\ r.existing \in OutcomeRow /\ Supported(r.existing, r.job[1], M)
          /\ \A h \in Horizon :
                /\ r.existing.benchmark_tri_return[h] # NONE => r.entry[TRI_BENCHMARK_CODE] # NONE
                /\ r.existing.excess_return_tri[h] # NONE =>
                      r.entry[TRI_BENCHMARK_CODE] # NONE /\ r.entry[Stock] # NONE

Turn == [price_date : Day \cup {NONE}, stock_return : Figure, benchmark_return : Figure,
         benchmark_tri_return : Figure]

\* What a turn of the loop over the horizons leaves.
TurnOk(r, j, M) ==
    LET t == r.turns[j]
        T == r.job[1]
    IN  /\ t.price_date # NONE => t.price_date \in T + Months[j] .. T + Months[j] + Lookahead
        /\ t.stock_return = StockReturn(T, r.events, r.entry[Stock], t.price_date)
        /\ t.stock_return = NONE <=> NONE \in {r.entry[Stock], t.price_date}
        /\ t.stock_return # NONE => Scorable(Stock, T, j, M)
        /\ t.benchmark_tri_return # NONE => Scorable(TRI_BENCHMARK_CODE, T, j, M)
        /\ r.existing # NONE =>
              /\ r.existing.benchmark_tri_return[j] # NONE => t.benchmark_tri_return # NONE
              /\ r.existing.excess_return_tri[j] # NONE =>
                    t.benchmark_tri_return # NONE /\ t.stock_return # NONE

\* The dates of the turns that have a return, of which the last is kept.
DatesOf(turns) ==
    {turns[j].price_date : j \in {i \in DOMAIN turns : turns[i].stock_return # NONE}}
WidestOk(widest, turns) ==
    \/ widest = NONE /\ DatesOf(turns) = {}
    \/ widest \in DatesOf(turns) /\ \A d \in DatesOf(turns) : d <= widest

TurnsOk(r, M) ==
    /\ r.turns \in Seq(Turn)
    /\ r.pc = "horizon" => Len(r.turns) < Len(Months)
    /\ r.pc = "drawdown" => Len(r.turns) = Len(Months)
    /\ \A j \in 1..Len(r.turns) : TurnOk(r, j, M)
    /\ WidestOk(r.widest_end_date, r.turns)

\* What is written, and where its returns and its drawdown come from.
WriteOk(r, M) ==
    LET o == r.outcome
        T == r.job[1]
        end == Max({o.price_date[h] : h \in Scored(o.stock_return)})
    IN  /\ r.events \subseteq {i \in Event : Kind(i) = "SPLIT"}
        /\ o \in OutcomeRow /\ OutcomeOk(o, T, M)
        /\ r.existing # NONE => r.existing \in OutcomeRow /\ Keeps(r.existing, o)
        /\ \A h \in Horizon :
              o.stock_return[h] = StockReturn(T, r.events, o.entry_price_date, o.price_date[h])
        /\ o.max_drawdown_pct # NONE =>
              /\ r.days \subseteq Day /\ end \in Int
              /\ \A d \in r.days : T <= d /\ d <= end
              /\ o.max_drawdown_pct = max_drawdown_pct(r.events, r.days, end)

Pcs == {"idle", "at", "prior", "decide", "insert", "commit"} \cup AfterLookup

StepOk(r, M) ==
    /\ Shape(r) /\ r.pc \in Pcs
    /\ r.pc # "idle" =>
          r.cmd \in {"run", "replay", "backfill"} /\ r.run \in Run /\ r.todo \in Seq(SUBSET Job)
    /\ r.pc \notin {"idle", "commit"} => r.job \in Job
    /\ r.pc = "prior" /\ r.cmd = "run" => r.at \in Position
    /\ r.pc = "decide" => r.at \in Position /\ r.prior \in Position
    /\ r.pc = "insert" => r.decision \in Decision
    /\ r.pc \in {"horizon", "drawdown"} => LoadedOk(r, M) /\ TurnsOk(r, M)
    /\ r.pc = "write" => WriteOk(r, M)

\* The rows a command is to score are there; the one it has decided itself is
\* in its draft, still without an outcome.
PlacedOk(r, D, K) ==
    /\ r.pc # "idle" /\ r.cmd = "backfill" => \A job \in AllOf(r.todo) : K[KeyOf(r, job)] # NONE
    /\ r.pc \in AfterLookup => D[KeyOf(r, r.job)] # NONE \/ K[KeyOf(r, r.job)] # NONE
    /\ r.pc \in AfterLoad /\ r.existing = NONE =>
          D[KeyOf(r, r.job)] # NONE /\ D[KeyOf(r, r.job)].outcome = NONE

\* A drafted row belongs to the session's run.  It waits for its outcome only
\* while that is being scored, and it continues the committed row, if any.
DraftOk(r, D, K, M) ==
    \A k \in Key : D[k] # NONE =>
        /\ r.pc # "idle" /\ k[1] = r.run
        /\ D[k].outcome # NONE => OutcomeOk(D[k].outcome, k[2], M)
        /\ D[k].outcome = NONE =>
              /\ r.pc \in AfterLookup /\ k = KeyOf(r, r.job) /\ K[k] = NONE
              /\ r.pc \in AfterLoad => r.existing = NONE
        /\ K[k] # NONE =>
              D[k].decision = K[k].decision /\ Untouched(K[k].outcome, D[k].outcome)

CommittedOk(K, R, M) ==
    \A k \in Key : K[k] # NONE =>
        k[1] \in R /\ K[k].outcome # NONE /\ OutcomeOk(K[k].outcome, k[2], M)

StoredOk ==
    /\ market \subseteq Series \X Day
    /\ recorded \in [Event -> Int \cup {NONE}]
    /\ runs \subseteq Run /\ started \in Nat
    /\ table \in [Key -> Row \cup {NONE}]
    /\ draft \in [Sessions -> [Key -> Row \cup {NONE}]]
    /\ sess = [s \in Sessions |-> sess[s]]

\* No key is drafted by two sessions.
Exclusive ==
    \A s, t \in Sessions : s # t => \A k \in Key : draft[s][k] = NONE \/ draft[t][k] = NONE

SessionOk(s) ==
    /\ StepOk(sess[s], market) /\ PlacedOk(sess[s], draft[s], table)
    /\ DraftOk(sess[s], draft[s], table, market)

Inv ==
    /\ StoredOk /\ CommittedOk(table, runs, market) /\ Exclusive
    /\ \A s \in Sessions : SessionOk(s)

-----------------------------------------------------------------------------
(* Dates and prices.                                                       *)

LEMMA HorizonFacts ==
    /\ Horizon = 1..Len(Months) /\ Len(Months) \in Nat \ {0} /\ Lookahead \in Nat
    /\ \A h \in Horizon : Months[h] \in Nat \ {0}
<1>1. Months \in Seq(Nat \ {0}) /\ Months # <<>> /\ Lookahead \in Nat
  BY WalkForwardAssumption
<1>2. Len(Months) \in Nat /\ Len(Months) # 0 /\ DOMAIN Months = 1..Len(Months)
  BY <1>1, EmptySeq
<1> QED BY <1>1, <1>2, ElementOfSeq DEF Horizon

LEMMA DateFacts ==
    /\ DecisionDate \subseteq Int
    /\ IsFiniteSet(DecisionDate)
    /\ \A D \in SUBSET DecisionDate : IsFiniteSet(D) /\ Cardinality(D) \in Nat
<1> DEFINE Trades == {j \in Event : Timeline[j].kind \in {"BUY", "SELL"}}
           Dates == {Timeline[i].date : i \in Trades}
           f == [i \in Trades |-> Timeline[i].date]
<1>1. Points \subseteq Int /\ IsFiniteSet(Points)
  BY WalkForwardAssumption
<1>2. Dates \subseteq Int
  BY EventFacts
<1>3. IsFiniteSet(Dates)
  <2>1. IsFiniteSet(Trades)
    BY EventFacts, FS_Subset
  <2>2. f \in [Trades -> Dates] /\ \A t \in Dates : \E s \in Trades : f[s] = t
    OBVIOUS
  <2>3. f \in Surjection(Trades, Dates)
    BY <2>2, Fun_IsSurj
  <2> QED BY <2>1, <2>3, FS_Surjection
<1>4. DecisionDate = Points \cup Dates
  BY DEF DecisionDate
<1>5. IsFiniteSet(DecisionDate)
  BY <1>1, <1>3, <1>4, FS_Union
<1> QED BY <1>1, <1>2, <1>4, <1>5, FS_Subset, FS_CardinalityType

\* A set of numbers with an upper bound has a last one.
LEMMA LastUpTo ==
    ASSUME NEW S \in SUBSET Int, S # {}, NEW T \in Int, \A d \in S : d <= T
    PROVE  Max(S) \in S
<1> DEFINE N == {T - d : d \in S}
<1>1. N \in SUBSET Nat /\ N # {}
  OBVIOUS
<1>2. PICK n \in N : \A m \in N : n <= m
  BY <1>1, LeastNumber
<1>3. PICK x \in S : n = T - x
  OBVIOUS
<1>4. ASSUME NEW y \in S PROVE x >= y
  <2>1. T - x <= T - y
    BY <1>2, <1>3
  <2> QED BY <2>1
<1> QED BY <1>4 DEF Max

LEMMA EntryIsResolved ==
    ASSUME market \subseteq Series \X Day, NEW x \in Series, NEW T \in Int
    PROVE  /\ resolve_entry_price(x, T) \in Day \cup {NONE}
           /\ resolve_entry_price(x, T) # NONE =>
                 resolve_entry_price(x, T) <= T /\ <<x, resolve_entry_price(x, T)>> \in market
           /\ Enters(x, T, market) => resolve_entry_price(x, T) # NONE
<1> DEFINE S == {d \in Day : d <= T /\ <<x, d>> \in market}
<1>1. S \in SUBSET Int /\ NONE \notin Day
  BY PriceFacts
<1>2. S # {} => Max(S) \in S
  BY <1>1, LastUpTo
<1>3. resolve_entry_price(x, T) = IF S = {} THEN NONE ELSE Max(S)
  BY DEF resolve_entry_price
<1>4. Enters(x, T, market) => S # {}
  BY DEF Enters
<1> HIDE DEF S
<1>5. S # {} => resolve_entry_price(x, T) \in S
  BY <1>2, <1>3
<1>6. \A d \in S : d \in Day /\ d <= T /\ <<x, d>> \in market
  BY DEF S
<1>7. CASE S = {}
  <2>1. resolve_entry_price(x, T) = NONE
    BY <1>3, <1>7
  <2> QED BY <1>4, <1>7, <2>1
<1>8. CASE S # {}
  <2>1. resolve_entry_price(x, T) \in S
    BY <1>5, <1>8
  <2> QED BY <1>1, <1>6, <2>1
<1> QED BY <1>7, <1>8

LEMMA HorizonIsResolved ==
    ASSUME market \subseteq Series \X Day, NEW x \in Series, NEW target \in Int
    PROVE  LET date == resolve_horizon_price(x, target)
           IN  /\ date \in Day \cup {NONE}
               /\ date # NONE => date \in target..target + Lookahead /\ <<x, date>> \in market
               /\ (\E d \in target..target + Lookahead : <<x, d>> \in market) => date # NONE
<1> DEFINE S == Stored(x, target, target + Lookahead)
           date == resolve_horizon_price(x, target)
<1>1. S = {d \in target..target + Lookahead : <<x, d>> \in market}
  BY DEF Stored
<1>2. S \in SUBSET Int /\ IsFiniteSet(S)
  <2>1. target + Lookahead \in Int
    BY HorizonFacts
  <2>2. IsFiniteSet(target..target + Lookahead)
    BY <2>1, FS_Interval
  <2>3. S \in SUBSET (target..target + Lookahead)
    BY <1>1
  <2> HIDE DEF S
  <2>4. IsFiniteSet(S)
    BY <2>2, <2>3, FS_Subset
  <2>5. S \in SUBSET Int
    BY <2>1, <2>3
  <2> QED BY <2>4, <2>5
<1>3. date = IF S = {} THEN NONE ELSE Min(S)
  BY DEF resolve_horizon_price
<1> HIDE DEF S, date
<1>4. S # {} => date \in S
  BY <1>2, <1>3, FirstAndLast
<1>5. \A d \in S : d \in Day /\ d # NONE /\ d \in target..target + Lookahead /\ <<x, d>> \in market
  BY <1>1, PriceFacts
<1>6. CASE S = {}
  BY <1>1, <1>3, <1>6 DEF date
<1>7. CASE S # {}
  BY <1>4, <1>5, <1>7 DEF date
<1> QED BY <1>6, <1>7

LEMMA StockReturnIsFigure ==
    ASSUME NEW T, NEW events \in SUBSET Event, NEW entry \in Day \cup {NONE},
           NEW date \in Day \cup {NONE}
    PROVE  /\ StockReturn(T, events, entry, date) \in Figure
           /\ StockReturn(T, events, entry, date) = NONE <=> NONE \in {entry, date}
<1>1. CASE NONE \in {entry, date}
  BY <1>1 DEF StockReturn, Figure
<1>2. CASE NONE \notin {entry, date}
  <2> DEFINE p == Price[Stock][entry]
             q == Price[Stock][date]
             c == cumulative_split_factor(events, T, date)
  <2>1. p \in Nat \ {0} /\ q \in Nat \ {0}
    BY <1>2, PriceFacts
  <2>2. c \in Nat \ {0}
    BY FactorIsPositive
  <2>3. StockReturn(T, events, entry, date) = Return(p, q * c)
    BY <1>2 DEF StockReturn, split_adjusted_return
  <2> HIDE DEF p, q, c
  <2>4. q * c \in Int
    BY <2>1, <2>2
  <2>5. Return(p, q * c) \in Int
    BY <2>1, <2>4, ReturnIsFigure
  <2> QED BY <1>2, <2>3, <2>5, PriceFacts DEF Figure
<1> QED BY <1>1, <1>2

LEMMA SimpleReturnIsFigure ==
    ASSUME NEW code \in Series, NEW entry \in Day \cup {NONE}, NEW date \in Day \cup {NONE}
    PROVE  /\ simple_return(code, entry, date) \in Figure
           /\ simple_return(code, entry, date) = NONE <=> NONE \in {entry, date}
<1>1. CASE NONE \in {entry, date}
  BY <1>1 DEF simple_return, Figure
<1>2. CASE NONE \notin {entry, date}
  <2> DEFINE p == Price[code][entry]
             q == Price[code][date]
  <2>1. p \in Nat \ {0} /\ q \in Nat \ {0}
    BY <1>2, PriceFacts
  <2>2. simple_return(code, entry, date) = Return(p, q)
    BY <1>2 DEF simple_return
  <2> HIDE DEF p, q
  <2>3. q \in Int
    BY <2>1
  <2>4. Return(p, q) \in Int
    BY <2>1, <2>3, ReturnIsFigure
  <2> QED BY <1>2, <2>2, <2>4, PriceFacts DEF Figure
<1> QED BY <1>1, <1>2

-----------------------------------------------------------------------------
(* What is stored meanwhile takes nothing away.                            *)

LEMMA ScorableStays ==
    ASSUME NEW M, NEW N, M \subseteq N
    PROVE  \A x, T, h : Scorable(x, T, h, M) => Scorable(x, T, h, N)
  BY DEF Scorable, Enters, Exits

LEMMA OutcomeStays ==
    ASSUME NEW M, NEW N, M \subseteq N
    PROVE  \A o, T : OutcomeOk(o, T, M) => OutcomeOk(o, T, N)
  BY ScorableStays DEF OutcomeOk, Supported

LEMMA StepStays ==
    ASSUME NEW M, NEW N, M \subseteq N, NEW r, StepOk(r, M)
    PROVE  StepOk(r, N)
<1>1. LoadedOk(r, M) => LoadedOk(r, N)
  BY ScorableStays DEF LoadedOk, Supported
<1>2. TurnsOk(r, M) => TurnsOk(r, N)
  <2>1. \A j : TurnOk(r, j, M) => TurnOk(r, j, N)
    BY ScorableStays DEF TurnOk
  <2> QED BY <2>1 DEF TurnsOk
<1>3. WriteOk(r, M) => WriteOk(r, N)
  BY OutcomeStays DEF WriteOk
<1> QED BY <1>1, <1>2, <1>3 DEF StepOk

\* Nothing of the invariant is about quiet.
LEMMA QuietOrNot ==
    ASSUME NEW M, NEW r, NEW D, NEW K, StepOk(r, M), PlacedOk(r, D, K), DraftOk(r, D, K, M)
    PROVE  LET q == [r EXCEPT !.quiet = FALSE]
           IN  StepOk(q, M) /\ PlacedOk(q, D, K) /\ DraftOk(q, D, K, M)
<1> DEFINE q == [r EXCEPT !.quiet = FALSE]
<1>1. Shape(r)
  BY DEF StepOk
<1>2. Shape(q)
  BY <1>1 DEF Shape, Fields
<1>3. \A f \in Fields \ {"quiet"} : q[f] = r[f]
  BY <1>1 DEF Shape
<1> HIDE DEF q
<1>4. /\ q.pc = r.pc /\ q.cmd = r.cmd /\ q.run = r.run /\ q.job = r.job /\ q.todo = r.todo
      /\ q.at = r.at /\ q.prior = r.prior /\ q.decision = r.decision /\ q.events = r.events
      /\ q.existing = r.existing /\ q.entry = r.entry /\ q.turns = r.turns
      /\ q.widest_end_date = r.widest_end_date /\ q.days = r.days /\ q.outcome = r.outcome
  BY <1>3 DEF Fields
<1>5. LoadedOk(r, M) => LoadedOk(q, M)
  BY <1>4 DEF LoadedOk
<1>6. TurnsOk(r, M) => TurnsOk(q, M)
  BY <1>4 DEF TurnsOk, TurnOk
<1>7. WriteOk(r, M) => WriteOk(q, M)
  BY <1>4 DEF WriteOk
<1>8. StepOk(q, M)
  BY <1>2, <1>4, <1>5, <1>6, <1>7 DEF StepOk
<1>9. PlacedOk(q, D, K)
  BY <1>4 DEF PlacedOk, KeyOf
<1>10. DraftOk(q, D, K, M)
  BY <1>4 DEF DraftOk, KeyOf
<1> QED BY <1>8, <1>9, <1>10 DEF q

-----------------------------------------------------------------------------
(* Scoring.                                                                *)

\* The closes of horizon h, and the turn that uses them.
DatesAt(r, h) == [x \in Series |-> resolve_horizon_price(x, r.job[1] + Months[h])]
TurnAt(r, h) == ScoreHorizon(r.job[1], r.events, r.entry, DatesAt(r, h))

\* A turn of the loop, whatever has been stored since the entry was read.
LEMMA TurnIsOk ==
    ASSUME market \subseteq Series \X Day, NEW r, LoadedOk(r, market), r.job \in Job,
           NEW h \in Horizon
    PROVE  /\ TurnAt(r, h) \in Turn /\ TurnAt(r, h).price_date = DatesAt(r, h)[Stock]
           /\ \A q : q.job = r.job /\ q.events = r.events /\ q.entry = r.entry
                        /\ q.existing = r.existing /\ q.turns[h] = TurnAt(r, h)
                     => TurnOk(q, h, market)
<1> DEFINE T == r.job[1]
           date == DatesAt(r, h)
           t == ScoreHorizon(T, r.events, r.entry, date)
           TRI == TRI_BENCHMARK_CODE
<1>1. T \in Int /\ Months[h] \in Nat /\ T + Months[h] \in Int
  <2>1. r.job[1] \in DecisionDate
    BY DEF Job
  <2>2. T \in Int /\ Months[h] \in Nat
    BY <2>1, DateFacts, HorizonFacts
  <2> QED BY <2>2
<1>2. ASSUME NEW x \in Series
      PROVE  /\ date[x] \in Day \cup {NONE}
             /\ date[x] # NONE =>
                   /\ date[x] \in T + Months[h] .. T + Months[h] + Lookahead
                   /\ <<x, date[x]>> \in market
             /\ Exits(x, T, h, market) => date[x] # NONE
  <2>1. date[x] = resolve_horizon_price(x, T + Months[h])
    BY DEF DatesAt
  <2> HIDE DEF date, T
  <2> QED BY <1>1, <2>1, HorizonIsResolved DEF Exits
<1>3. ASSUME NEW x \in Series
      PROVE  /\ r.entry[x] \in Day \cup {NONE}
             /\ r.entry[x] # NONE /\ date[x] # NONE => Scorable(x, T, h, market)
  <2>1. r.entry[x] \in Day \cup {NONE}
    BY DEF LoadedOk
  <2>2. r.entry[x] # NONE => Enters(x, T, market)
    BY <2>1 DEF LoadedOk, Enters
  <2>3. date[x] # NONE => Exits(x, T, h, market)
    BY <1>2 DEF Exits
  <2> QED BY <2>1, <2>2, <2>3 DEF Scorable
<1>4. r.events \in SUBSET Event
  BY DEF LoadedOk
<1> HIDE DEF T, date
<1>5. /\ t.price_date = date[Stock]
      /\ t.stock_return = StockReturn(T, r.events, r.entry[Stock], date[Stock])
      /\ t.benchmark_return
            = simple_return(BENCHMARK_CODE, r.entry[BENCHMARK_CODE], date[BENCHMARK_CODE])
      /\ t.benchmark_tri_return = simple_return(TRI, r.entry[TRI], date[TRI])
  BY DEF ScoreHorizon
<1>6. /\ t.stock_return \in Figure
      /\ t.stock_return = NONE <=> NONE \in {r.entry[Stock], date[Stock]}
  <2>1. r.entry[Stock] \in Day \cup {NONE} /\ date[Stock] \in Day \cup {NONE}
    BY <1>2, <1>3, PriceFacts
  <2> QED BY <1>4, <1>5, <2>1, StockReturnIsFigure
<1>7. /\ t.benchmark_tri_return \in Figure
      /\ t.benchmark_tri_return = NONE <=> NONE \in {r.entry[TRI], date[TRI]}
  <2>1. r.entry[TRI] \in Day \cup {NONE} /\ date[TRI] \in Day \cup {NONE}
    BY <1>2, <1>3, PriceFacts
  <2> QED BY <1>5, <2>1, SimpleReturnIsFigure, PriceFacts
<1>8. t.benchmark_return \in Figure
  <2>1. r.entry[BENCHMARK_CODE] \in Day \cup {NONE} /\ date[BENCHMARK_CODE] \in Day \cup {NONE}
    BY <1>2, <1>3, PriceFacts
  <2> QED BY <1>5, <2>1, SimpleReturnIsFigure, PriceFacts
<1>9. date[Stock] \in Day \cup {NONE}
  BY <1>2, PriceFacts
<1>10. t \in Turn
  BY <1>5, <1>6, <1>7, <1>8, <1>9 DEF Turn, ScoreHorizon
<1>11. t.stock_return # NONE => Scorable(Stock, T, h, market)
  BY <1>3, <1>6, PriceFacts
<1>12. t.benchmark_tri_return # NONE => Scorable(TRI, T, h, market)
  BY <1>3, <1>7, PriceFacts
<1>13. t.price_date # NONE => t.price_date \in T + Months[h] .. T + Months[h] + Lookahead
  BY <1>2, <1>5, PriceFacts
<1>14. r.existing # NONE =>
         /\ r.existing.benchmark_tri_return[h] # NONE => t.benchmark_tri_return # NONE
         /\ r.existing.excess_return_tri[h] # NONE =>
               t.benchmark_tri_return # NONE /\ t.stock_return # NONE
  <2>1. SUFFICES ASSUME r.existing # NONE
                 PROVE  /\ r.existing.benchmark_tri_return[h] # NONE => t.benchmark_tri_return # NONE
                        /\ r.existing.excess_return_tri[h] # NONE =>
                              t.benchmark_tri_return # NONE /\ t.stock_return # NONE
    OBVIOUS
  <2>2. /\ r.existing.benchmark_tri_return[h] # NONE =>
              r.entry[TRI] # NONE /\ Exits(TRI, T, h, market)
        /\ r.existing.excess_return_tri[h] # NONE =>
              /\ r.entry[TRI] # NONE /\ Exits(TRI, T, h, market)
              /\ r.entry[Stock] # NONE /\ Exits(Stock, T, h, market)
    BY <2>1 DEF LoadedOk, Supported, Scorable, T
  <2>3. \A x \in {TRI, Stock} : Exits(x, T, h, market) => date[x] # NONE
    BY <1>2, PriceFacts
  <2> QED BY <1>6, <1>7, <2>2, <2>3
<1> HIDE DEF t
<1>15. ASSUME NEW q, q.job = r.job, q.events = r.events, q.entry = r.entry,
              q.existing = r.existing, q.turns[h] = t
       PROVE  TurnOk(q, h, market)
  BY <1>5, <1>6, <1>11, <1>12, <1>13, <1>14, <1>15 DEF TurnOk, T
<1>16. t = TurnAt(r, h)
  BY DEF t, date, T, TurnAt
<1> QED BY <1>5, <1>10, <1>15, <1>16 DEF date

LEMMA LastIs ==
    ASSUME NEW S \in SUBSET Int, NEW w \in S, \A d \in S : d <= w
    PROVE  Max(S) = w
<1>1. \E x \in S : \A y \in S : x >= y
  OBVIOUS
<1>2. Max(S) \in S /\ \A y \in S : Max(S) >= y
  BY <1>1 DEF Max
<1>3. Max(S) >= w /\ Max(S) <= w /\ Max(S) \in Int
  BY <1>2
<1> QED BY <1>3

\* The closes and splits a command begins to score with.
LEMMA LoadIsOk ==
    ASSUME market \subseteq Series \X Day, NEW r, StepOk(r, market), r.pc = "load",
           NEW existing,
           existing # NONE =>
              existing \in OutcomeRow /\ Supported(existing, r.job[1], market)
    PROVE  StepOk([At(r, "horizon") EXCEPT
                      !.events = all_splits, !.existing = existing,
                      !.entry = [x \in Series |-> resolve_entry_price(x, r.job[1])]], market)
<1> DEFINE entry == [x \in Series |-> resolve_entry_price(x, r.job[1])]
           q == [At(r, "horizon") EXCEPT !.events = all_splits, !.existing = existing,
                                         !.entry = entry]
           T == r.job[1]
<1>1. r.job \in Job /\ T \in Int /\ r.cmd \in {"run", "replay", "backfill"} /\ r.run \in Run
      /\ r.todo \in Seq(SUBSET Job)
  <2>1. r.job \in Job
    BY DEF StepOk
  <2>2. T \in DecisionDate
    BY <2>1 DEF Job
  <2> QED BY <2>1, <2>2, DateFacts DEF StepOk
<1>2. Shape(q)
  BY DEF Shape, Fields, At, Idle
<1>3. /\ q.pc = "horizon" /\ q.cmd = r.cmd /\ q.run = r.run /\ q.job = r.job /\ q.todo = r.todo
      /\ q.events = all_splits /\ q.existing = existing /\ q.entry = entry
      /\ q.turns = <<>> /\ q.widest_end_date = NONE
  BY DEF At, Idle
<1>4. all_splits \subseteq {i \in Event : Kind(i) = "SPLIT"}
  BY DEF all_splits
<1> HIDE DEF q
<1>5. ASSUME NEW x \in Series
      PROVE  /\ entry[x] \in Day \cup {NONE}
             /\ entry[x] # NONE => entry[x] <= T /\ <<x, entry[x]>> \in market
             /\ Enters(x, T, market) => entry[x] # NONE
  BY <1>1, EntryIsResolved
<1>6. entry \in [Series -> Day \cup {NONE}]
  BY <1>5
<1> HIDE DEF entry
<1>7. LoadedOk(q, market)
  <2>1. existing # NONE =>
          \A h \in Horizon :
             /\ existing.benchmark_tri_return[h] # NONE => entry[TRI_BENCHMARK_CODE] # NONE
             /\ existing.excess_return_tri[h] # NONE =>
                   entry[TRI_BENCHMARK_CODE] # NONE /\ entry[Stock] # NONE
    BY <1>5, PriceFacts DEF Supported, Scorable
  <2> QED BY <1>3, <1>4, <1>5, <1>6, <2>1 DEF LoadedOk
<1>8. TurnsOk(q, market)
  <2>1. q.turns \in Seq(Turn) /\ Len(q.turns) = 0 /\ DOMAIN q.turns = {} /\ 1..Len(q.turns) = {}
    BY <1>3
  <2>2. DatesOf(q.turns) = {}
    BY <2>1 DEF DatesOf
  <2> QED BY <1>3, <2>1, <2>2, HorizonFacts DEF TurnsOk, WidestOk
<1>9. StepOk(q, market)
  BY <1>1, <1>2, <1>3, <1>7, <1>8 DEF StepOk, Pcs, AfterLookup
<1> QED BY <1>9 DEF q, entry

\* The record of the next turn.
Widest(r, date) ==
    IF NONE \in {r.entry[Stock], date[Stock]} THEN r.widest_end_date
    ELSE Max({date[Stock]} \cup ({r.widest_end_date} \ {NONE}))
NextTurn(r) ==
    LET h == Len(r.turns) + 1
    IN  [r EXCEPT !.pc = IF h = Len(Months) THEN "drawdown" ELSE "horizon",
                  !.turns = Append(@, TurnAt(r, h)),
                  !.widest_end_date = Widest(r, DatesAt(r, h))]

LEMMA NextTurnIsOk ==
    ASSUME market \subseteq Series \X Day, NEW r, StepOk(r, market), r.pc = "horizon"
    PROVE  /\ StepOk(NextTurn(r), market) /\ NextTurn(r).pc \in {"horizon", "drawdown"}
           /\ \A f \in {"cmd", "run", "job", "todo", "existing"} : NextTurn(r)[f] = r[f]
<1> DEFINE h == Len(r.turns) + 1
           t == TurnAt(r, h)
           q == NextTurn(r)
           widest == Widest(r, DatesAt(r, h))
<1>1. /\ Shape(r) /\ r.job \in Job /\ r.cmd \in {"run", "replay", "backfill"} /\ r.run \in Run
      /\ r.todo \in Seq(SUBSET Job) /\ LoadedOk(r, market) /\ TurnsOk(r, market)
  BY DEF StepOk
<1>2. /\ r.turns \in Seq(Turn) /\ Len(r.turns) < Len(Months) /\ Len(r.turns) \in Nat
      /\ \A j \in 1..Len(r.turns) : TurnOk(r, j, market)
  BY <1>1 DEF TurnsOk
<1>3. h \in Horizon /\ h \in Nat
  BY <1>2, HorizonFacts
<1>4. t \in Turn /\ t.price_date = DatesAt(r, h)[Stock]
  BY <1>1, <1>3, TurnIsOk
<1>5. Shape(q)
  BY <1>1 DEF NextTurn, Shape, Fields
<1>6. /\ q.pc = IF h = Len(Months) THEN "drawdown" ELSE "horizon"
      /\ q.cmd = r.cmd /\ q.run = r.run /\ q.job = r.job /\ q.todo = r.todo
      /\ q.events = r.events /\ q.existing = r.existing /\ q.entry = r.entry
      /\ q.turns = Append(r.turns, t) /\ q.widest_end_date = widest
  BY <1>1 DEF NextTurn, Shape, Fields
<1>7. TurnOk(q, h, market)
  <2>1. q.turns[h] = t
    BY <1>2, <1>4, <1>6
  <2> QED BY <1>1, <1>3, <1>6, <2>1, TurnIsOk
<1> HIDE DEF q
<1>8. /\ q.turns \in Seq(Turn) /\ Len(q.turns) = h /\ DOMAIN q.turns = 1..h
      /\ q.turns[h] = t /\ \A j \in 1..Len(r.turns) : q.turns[j] = r.turns[j]
  BY <1>2, <1>4, <1>6
<1>9. ASSUME NEW j \in 1..h PROVE TurnOk(q, j, market)
  <2>1. CASE j = h
    BY <1>7, <2>1
  <2>2. CASE j # h
    <3>1. j \in 1..Len(r.turns)
      BY <1>2, <2>2
    <3>2. TurnOk(r, j, market) /\ q.turns[j] = r.turns[j]
      BY <1>2, <1>8, <3>1
    <3> QED BY <1>6, <3>2 DEF TurnOk
  <2> QED BY <2>1, <2>2
<1>10. t.stock_return = NONE <=> NONE \in {r.entry[Stock], DatesAt(r, h)[Stock]}
  BY <1>4, <1>6, <1>7, <1>8 DEF TurnOk
<1>11. DOMAIN r.turns = 1..Len(r.turns) /\ 1..h = (1..Len(r.turns)) \cup {h}
  BY <1>2
<1>12. DatesOf(q.turns)
         = DatesOf(r.turns) \cup (IF t.stock_return # NONE THEN {t.price_date} ELSE {})
  <2>1. {i \in DOMAIN q.turns : q.turns[i].stock_return # NONE}
          = {i \in DOMAIN r.turns : r.turns[i].stock_return # NONE}
              \cup (IF t.stock_return # NONE THEN {h} ELSE {})
    BY <1>8, <1>11
  <2>2. \A i \in DOMAIN r.turns : q.turns[i].price_date = r.turns[i].price_date
    BY <1>8, <1>11
  <2> HIDE DEF t, h
  <2>3. DatesOf(q.turns)
          = {q.turns[j].price_date : j \in {i \in DOMAIN r.turns : r.turns[i].stock_return # NONE}}
              \cup (IF t.stock_return # NONE THEN {q.turns[h].price_date} ELSE {})
    BY <2>1 DEF DatesOf
  <2>4. {q.turns[j].price_date : j \in {i \in DOMAIN r.turns : r.turns[i].stock_return # NONE}}
          = DatesOf(r.turns)
    BY <2>2 DEF DatesOf
  <2>5. q.turns[h].price_date = t.price_date
    BY <1>8 DEF h
  <2> QED BY <2>3, <2>4, <2>5
<1>13. DatesOf(r.turns) \subseteq Int
  <2>1. ASSUME NEW j \in DOMAIN r.turns, r.turns[j].stock_return # NONE
        PROVE  r.turns[j].price_date \in Int
    <3>1. TurnOk(r, j, market) /\ r.turns[j] \in Turn
      BY <1>2, <1>11
    <3>2. r.turns[j].price_date # NONE /\ r.turns[j].price_date \in Day \cup {NONE}
      BY <2>1, <3>1 DEF TurnOk, Turn
    <3> QED BY <3>2, PriceFacts
  <2> QED BY <2>1 DEF DatesOf
<1>14. WidestOk(r.widest_end_date, r.turns)
  BY <1>1 DEF TurnsOk
<1>15. WidestOk(widest, q.turns)
  <2>1. CASE t.stock_return = NONE
    <3>1. widest = r.widest_end_date /\ DatesOf(q.turns) = DatesOf(r.turns)
      BY <1>10, <1>12, <2>1 DEF Widest
    <3> QED BY <1>14, <3>1 DEF WidestOk
  <2>2. CASE t.stock_return # NONE
    <3> DEFINE d == t.price_date
               W == {d} \cup ({r.widest_end_date} \ {NONE})
    <3>1. d \in Int /\ widest = Max(W) /\ DatesOf(q.turns) = DatesOf(r.turns) \cup {d}
      BY <1>4, <1>10, <1>12, <2>2, PriceFacts DEF Widest, Turn
    <3>2. CASE DatesOf(r.turns) = {} /\ r.widest_end_date = NONE
      <4>1. W = {d}
        BY <3>2
      <4> HIDE DEF W, d
      <4>2. Max(W) = d
        BY <3>1, <4>1, LastIs
      <4> QED BY <3>1, <3>2, <4>2 DEF WidestOk
    <3>3. CASE r.widest_end_date \in DatesOf(r.turns)
               /\ \A e \in DatesOf(r.turns) : e <= r.widest_end_date
      <4> DEFINE w == r.widest_end_date
      <4>1. w \in Int /\ w # NONE
        BY <1>13, <3>3, PriceFacts
      <4>2. W = {d, w}
        BY <4>1
      <4> HIDE DEF W, d, w
      <4>3. {d, w} \in SUBSET Int
        BY <3>1, <4>1
      <4>4. CASE d <= w
        <5>1. Max(W) = w
          BY <3>1, <4>1, <4>2, <4>3, <4>4, LastIs
        <5> QED BY <1>13, <3>1, <3>3, <4>4, <5>1 DEF WidestOk, w
      <4>5. CASE w < d
        <5>1. Max(W) = d
          BY <3>1, <4>1, <4>2, <4>3, <4>5, LastIs
        <5>2. \A e \in DatesOf(r.turns) : e <= d
          BY <1>13, <3>1, <3>3, <4>1, <4>5 DEF w
        <5> QED BY <3>1, <5>1, <5>2 DEF WidestOk
      <4> QED BY <3>1, <4>1, <4>4, <4>5
    <3> QED BY <1>14, <3>2, <3>3 DEF WidestOk
  <2> QED BY <2>1, <2>2
<1>16. TurnsOk(q, market)
  <2>1. q.pc = "horizon" => h < Len(Months)
    BY <1>3, <1>6, HorizonFacts
  <2>2. q.pc = "drawdown" => h = Len(Months)
    BY <1>6
  <2> QED BY <1>6, <1>8, <1>9, <1>15, <2>1, <2>2 DEF TurnsOk
<1>17. LoadedOk(q, market)
  BY <1>1, <1>6 DEF LoadedOk
<1>18. q.pc \in {"horizon", "drawdown"}
  BY <1>6
<1>19. StepOk(q, market)
  BY <1>1, <1>5, <1>6, <1>16, <1>17, <1>18 DEF StepOk, Pcs, AfterLookup
<1>20. \A f \in {"cmd", "run", "job", "todo", "existing"} : q[f] = r[f]
  BY <1>6
<1> QED BY <1>18, <1>19, <1>20 DEF q

\* The drawdown of stored closes is a number.
LEMMA DrawdownIsFigure ==
    ASSUME NEW events \in SUBSET Event, NEW days \in SUBSET Day, IsFiniteSet(days), NEW end
    PROVE  max_drawdown_pct(events, days, end) \in Int
<1> DEFINE Later == {q \in days \X days : q[1] < q[2]}
           Gain(p) == Return(Price[Stock][p[1]] * cumulative_split_factor(events, p[2], end),
                             Price[Stock][p[2]] * cumulative_split_factor(events, p[1], end))
           Gains == {Gain(p) : p \in Later}
           f == [p \in Later |-> Gain(p)]
<1>1. ASSUME NEW p \in Later PROVE Gain(p) \in Int
  <2> DEFINE a == Price[Stock][p[1]]
             b == Price[Stock][p[2]]
             c == cumulative_split_factor(events, p[2], end)
             d == cumulative_split_factor(events, p[1], end)
  <2>1. a \in Nat \ {0} /\ b \in Nat \ {0}
    BY PriceFacts
  <2>2. c \in Nat \ {0} /\ d \in Nat \ {0}
    BY FactorIsPositive
  <2>3. Gain(p) = Return(a * c, b * d)
    OBVIOUS
  <2> HIDE DEF a, b, c, d, Gain
  <2>4. a * c \in Nat \ {0} /\ b * d \in Int
    BY <2>1, <2>2
  <2> QED BY <2>3, <2>4, ReturnIsFigure
<1>2. IsFiniteSet(Later)
  <2>1. IsFiniteSet(days \X days)
    BY FS_Product
  <2> QED BY <2>1, FS_Subset
<1> HIDE DEF Gain
<1>3. IsFiniteSet(Gains)
  <2>1. f \in [Later -> Gains] /\ \A t \in Gains : \E s \in Later : f[s] = t
    OBVIOUS
  <2> HIDE DEF f, Later, Gains
  <2>2. f \in Surjection(Later, Gains)
    BY <2>1, Fun_IsSurj
  <2> QED BY <1>2, <2>2, FS_Surjection
<1>4. Gains \subseteq Int
  BY <1>1
<1>5. max_drawdown_pct(events, days, end) = Min({0} \cup Gains)
  BY DEF max_drawdown_pct, Gain
<1> HIDE DEF Gains
<1> DEFINE All == {0} \cup Gains
<1>6. All \subseteq Int /\ 0 \in All
  BY <1>4
<1>7. IsFiniteSet(All)
  <2>1. IsFiniteSet(Gains \cup {0}) /\ All = Gains \cup {0}
    BY <1>3, FS_AddElement
  <2> HIDE DEF All
  <2> QED BY <2>1
<1>8. max_drawdown_pct(events, days, end) = Min(All)
  BY <1>5
<1> HIDE DEF All
<1>9. Min(All) \in All
  BY <1>6, <1>7, FirstAndLast
<1> QED BY <1>6, <1>8, <1>9

\* The row of all turns.
Computed(r, drawdown, o) ==
    /\ o \in OutcomeRow /\ OutcomeOk(o, r.job[1], market)
    /\ r.existing # NONE => r.existing \in OutcomeRow /\ Keeps(r.existing, o)
    /\ \A h \in Horizon :
          o.stock_return[h]
              = StockReturn(r.job[1], r.events, o.entry_price_date, o.price_date[h])
    /\ o.entry_price_date = r.entry[Stock] /\ o.max_drawdown_pct = drawdown
    /\ {o.price_date[h] : h \in Scored(o.stock_return)} = DatesOf(r.turns)

LEMMA OutcomeIsOk ==
    ASSUME NEW r, LoadedOk(r, market), TurnsOk(r, market), Len(r.turns) = Len(Months),
           NEW drawdown \in Figure, NEW o, o = Outcome(r.entry[Stock], r.turns, drawdown)
    PROVE  Computed(r, drawdown, o)
<1> DEFINE T == r.job[1]
           t == r.turns
           entry == r.entry[Stock]
<1>1. entry \in Day \cup {NONE} /\ entry \in Figure /\ (entry # NONE => entry <= T)
  BY PriceFacts DEF LoadedOk, Figure
<1>2. ASSUME NEW h \in Horizon
      PROVE  /\ t[h] \in Turn /\ TurnOk(r, h, market) /\ h \in DOMAIN t
  <2>1. t \in Seq(Turn) /\ h \in 1..Len(t) /\ \A j \in 1..Len(t) : TurnOk(r, j, market)
    BY HorizonFacts DEF TurnsOk
  <2> QED BY <2>1
<1>3. DOMAIN t = Horizon
  BY HorizonFacts DEF TurnsOk
<1>4. ASSUME NEW h \in Horizon
      PROVE  /\ t[h].price_date \in Day \cup {NONE} /\ t[h].price_date \in Figure
             /\ t[h].stock_return \in Figure /\ t[h].benchmark_return \in Figure
             /\ t[h].benchmark_tri_return \in Figure
  BY <1>2, PriceFacts DEF Turn, Figure
<1>5. \A a, b \in Figure : /\ Excess(a, b) \in Figure
                           /\ Excess(a, b) # NONE <=> a # NONE /\ b # NONE
  BY PriceFacts DEF Excess, Figure
<1>6. /\ o.entry_price_date = entry /\ o.max_drawdown_pct = drawdown
      /\ o.outcome_status = outcome_status(entry, o.stock_return)
      /\ \A h \in Horizon :
            /\ o.price_date[h] = t[h].price_date
            /\ o.stock_return[h] = t[h].stock_return
            /\ o.benchmark_return[h] = t[h].benchmark_return
            /\ o.benchmark_tri_return[h] = t[h].benchmark_tri_return
            /\ o.excess_return[h] = Excess(t[h].stock_return, t[h].benchmark_return)
            /\ o.excess_return_tri[h] = Excess(t[h].stock_return, t[h].benchmark_tri_return)
  BY DEF Outcome
<1>7. o = [entry_price_date |-> entry,
           price_date |-> [h \in Horizon |-> o.price_date[h]],
           stock_return |-> [h \in Horizon |-> o.stock_return[h]],
           benchmark_return |-> [h \in Horizon |-> o.benchmark_return[h]],
           excess_return |-> [h \in Horizon |-> o.excess_return[h]],
           benchmark_tri_return |-> [h \in Horizon |-> o.benchmark_tri_return[h]],
           excess_return_tri |-> [h \in Horizon |-> o.excess_return_tri[h]],
           max_drawdown_pct |-> drawdown,
           outcome_status |-> o.outcome_status]
  BY DEF Outcome
<1> HIDE DEF t, entry
<1>8. \A return : outcome_status(entry, return) \in {"SCORED", "PARTIAL", "UNSCORABLE"}
  BY DEF outcome_status
<1>9. /\ [h \in Horizon |-> o.price_date[h]] \in [Horizon -> Figure]
      /\ [h \in Horizon |-> o.stock_return[h]] \in [Horizon -> Figure]
      /\ [h \in Horizon |-> o.benchmark_return[h]] \in [Horizon -> Figure]
      /\ [h \in Horizon |-> o.excess_return[h]] \in [Horizon -> Figure]
      /\ [h \in Horizon |-> o.benchmark_tri_return[h]] \in [Horizon -> Figure]
      /\ [h \in Horizon |-> o.excess_return_tri[h]] \in [Horizon -> Figure]
  BY <1>4, <1>5, <1>6
<1>10. o \in OutcomeRow
  <2>1. o.outcome_status \in {"SCORED", "PARTIAL", "UNSCORABLE"}
    BY <1>6, <1>8
  <2> HIDE DEF T
  <2> QED BY <1>1, <1>7, <1>9, <2>1 DEF OutcomeRow
<1>11. ASSUME NEW h \in Horizon
       PROVE  /\ o.price_date[h] # NONE =>
                    /\ o.price_date[h] \in Day
                    /\ o.price_date[h] \in T + Months[h] .. T + Months[h] + Lookahead
              /\ o.stock_return[h] = NONE <=> NONE \in {entry, o.price_date[h]}
              /\ o.stock_return[h] = StockReturn(T, r.events, entry, o.price_date[h])
  BY <1>2, <1>4, <1>6 DEF TurnOk, t, entry
<1>12. /\ o.outcome_status = "SCORED" <=> Scored(o.stock_return) = Horizon
       /\ o.outcome_status = "UNSCORABLE" <=> Scored(o.stock_return) = {}
  <2>1. entry = NONE => Scored(o.stock_return) = {}
    BY <1>11 DEF Scored
  <2>2. 1 \in Horizon
    BY HorizonFacts
  <2> QED BY <1>6, <2>1, <2>2 DEF outcome_status
<1>13. InWindow(o, T)
  BY <1>1, <1>6, <1>11, <1>12 DEF InWindow
<1>14. ASSUME NEW h \in Horizon
       PROVE  /\ o.benchmark_tri_return[h] # NONE => Scorable(TRI_BENCHMARK_CODE, T, h, market)
              /\ o.excess_return_tri[h] # NONE =>
                    Scorable(TRI_BENCHMARK_CODE, T, h, market) /\ Scorable(Stock, T, h, market)
  <2>1. /\ t[h].benchmark_tri_return # NONE => Scorable(TRI_BENCHMARK_CODE, T, h, market)
        /\ t[h].stock_return # NONE => Scorable(Stock, T, h, market)
    BY <1>2 DEF TurnOk, t
  <2> QED BY <1>4, <1>5, <1>6, <2>1
<1>15. Supported(o, T, market)
  BY <1>14 DEF Supported
<1>16. r.existing # NONE => r.existing \in OutcomeRow /\ Keeps(r.existing, o)
  <2>1. SUFFICES ASSUME r.existing # NONE PROVE r.existing \in OutcomeRow /\ Keeps(r.existing, o)
    OBVIOUS
  <2>2. r.existing \in OutcomeRow
    BY <2>1 DEF LoadedOk
  <2>3. ASSUME NEW h \in Horizon
        PROVE  /\ r.existing.benchmark_tri_return[h] # NONE => o.benchmark_tri_return[h] # NONE
               /\ r.existing.excess_return_tri[h] # NONE => o.excess_return_tri[h] # NONE
    <3>1. /\ r.existing.benchmark_tri_return[h] # NONE => t[h].benchmark_tri_return # NONE
          /\ r.existing.excess_return_tri[h] # NONE =>
                t[h].benchmark_tri_return # NONE /\ t[h].stock_return # NONE
      BY <1>2, <2>1 DEF TurnOk, t
    <3> QED BY <1>4, <1>5, <1>6, <3>1
  <2> QED BY <2>2, <2>3 DEF Keeps, TriField
<1>17. {o.price_date[h] : h \in Scored(o.stock_return)} = DatesOf(r.turns)
  <2>1. Scored(o.stock_return) = {i \in DOMAIN t : t[i].stock_return # NONE}
    BY <1>3, <1>6 DEF Scored, t
  <2>2. \A h \in Scored(o.stock_return) : o.price_date[h] = t[h].price_date
    BY <1>6 DEF Scored
  <2>3. {o.price_date[h] : h \in Scored(o.stock_return)}
          = {t[h].price_date : h \in Scored(o.stock_return)}
    BY <2>2
  <2> QED BY <2>1, <2>3 DEF DatesOf, t
<1>18. \A h \in Horizon :
          o.stock_return[h] = StockReturn(T, r.events, o.entry_price_date, o.price_date[h])
  BY <1>6, <1>11
<1> QED BY <1>6, <1>10, <1>13, <1>15, <1>16, <1>17, <1>18 DEF Computed, OutcomeOk, T, entry

\* The days of the drawdown, and the drawdown itself.
DaysTo(T, end) == IF end = NONE THEN {} ELSE Stored(Stock, T, end)
DrawdownOf(events, days, end) ==
    IF \A d, e \in days : d = e THEN NONE ELSE max_drawdown_pct(events, days, end)

\* The record that is about to be written.
Finished(r) ==
    LET end == r.widest_end_date
        days == DaysTo(r.job[1], end)
    IN  [At(r, "write") EXCEPT
            !.days = days, !.events = r.events, !.existing = r.existing,
            !.outcome = Outcome(r.entry[Stock], r.turns, DrawdownOf(r.events, days, end))]

\* The last close that has a return is a function of the turns.
LEMMA LastOfTurns ==
    ASSUME NEW r, StepOk(r, market), r.pc = "drawdown"
    PROVE  /\ r.widest_end_date
                  = IF DatesOf(r.turns) = {} THEN NONE ELSE Max(DatesOf(r.turns))
           /\ r.widest_end_date \in Int \cup {NONE}
<1>1. TurnsOk(r, market) /\ WidestOk(r.widest_end_date, r.turns)
  BY DEF StepOk, TurnsOk
<1>2. DatesOf(r.turns) \subseteq Int
  <2>1. ASSUME NEW j \in DOMAIN r.turns, r.turns[j].stock_return # NONE
        PROVE  r.turns[j].price_date \in Int
    <3>1. r.turns \in Seq(Turn) /\ j \in 1..Len(r.turns) /\ TurnOk(r, j, market)
      BY <1>1 DEF TurnsOk
    <3>2. r.turns[j] \in Turn
      BY <3>1
    <3>3. r.turns[j].price_date # NONE /\ r.turns[j].price_date \in Day \cup {NONE}
      BY <2>1, <3>1, <3>2 DEF TurnOk, Turn
    <3> QED BY <3>3, PriceFacts
  <2> QED BY <2>1 DEF DatesOf
<1> QED BY <1>1, <1>2, LastIs DEF WidestOk

LEMMA FinishedIsOk ==
    ASSUME market \subseteq Series \X Day, NEW r, StepOk(r, market), r.pc = "drawdown"
    PROVE  /\ StepOk(Finished(r), market) /\ Finished(r).pc = "write"
           /\ \A f \in {"cmd", "run", "job", "todo", "existing"} : Finished(r)[f] = r[f]
<1> DEFINE T == r.job[1]
           end == r.widest_end_date
           days == DaysTo(T, end)
           drawdown == DrawdownOf(r.events, days, end)
           o == Outcome(r.entry[Stock], r.turns, drawdown)
           q == Finished(r)
<1>1. /\ r.job \in Job /\ r.cmd \in {"run", "replay", "backfill"} /\ r.run \in Run
      /\ r.todo \in Seq(SUBSET Job) /\ LoadedOk(r, market) /\ TurnsOk(r, market)
      /\ Len(r.turns) = Len(Months)
  BY DEF StepOk, TurnsOk
<1>2. r.events \subseteq {i \in Event : Kind(i) = "SPLIT"} /\ r.events \in SUBSET Event
  BY <1>1 DEF LoadedOk
<1>3. T \in Int
  <2>1. T \in DecisionDate
    BY <1>1 DEF Job
  <2> QED BY <2>1, DateFacts
<1>5. end # NONE => end \in Int /\ Max(DatesOf(r.turns)) = end
  BY LastOfTurns
<1>6. /\ days \subseteq Day /\ IsFiniteSet(days)
      /\ \A d \in days : T <= d /\ d <= end
      /\ end = NONE => days = {}
  <2>1. CASE end = NONE
    BY <2>1, FS_EmptySet DEF DaysTo
  <2>2. CASE end # NONE
    <3>1. days = {d \in T..end : <<Stock, d>> \in market} /\ end \in Int
      BY <1>5, <2>2 DEF DaysTo, Stored
    <3>2. days \in SUBSET (T..end) /\ days \subseteq Day
      BY <3>1
    <3>3. IsFiniteSet(T..end)
      BY <1>3, <3>1, FS_Interval
    <3> HIDE DEF days, end
    <3>4. IsFiniteSet(days)
      BY <3>2, <3>3, FS_Subset
    <3> QED BY <1>3, <2>2, <3>1, <3>2, <3>4
  <2> QED BY <2>1, <2>2
<1>7. Shape(q)
  <2>1. ASSUME NEW x, Shape(x), NEW a, NEW b, NEW c, NEW d
        PROVE  Shape([x EXCEPT !.days = a, !.events = b, !.existing = c, !.outcome = d])
    BY <2>1 DEF Shape, Fields
  <2>2. Shape(At(r, "write"))
    BY DEF Shape, Fields, At, Idle
  <2> HIDE DEF At, Shape
  <2> QED BY <2>1, <2>2 DEF Finished
<1>8. /\ q.pc = "write" /\ q.cmd = r.cmd /\ q.run = r.run /\ q.job = r.job /\ q.todo = r.todo
      /\ q.events = r.events /\ q.existing = r.existing /\ q.days = days /\ q.outcome = o
  BY DEF Finished, At, Idle
<1> HIDE DEF q, days, end
<1>9. drawdown \in Figure
  BY <1>2, <1>6, DrawdownIsFigure DEF DrawdownOf, Figure
<1>10. drawdown # NONE =>
         /\ end \in Int /\ Max(DatesOf(r.turns)) = end
         /\ drawdown = max_drawdown_pct(r.events, days, end)
  BY <1>5, <1>6 DEF DrawdownOf
<1> HIDE DEF drawdown, o
<1>11. o = Outcome(r.entry[Stock], r.turns, drawdown)
  BY DEF o
<1>12. /\ o \in OutcomeRow /\ OutcomeOk(o, T, market)
       /\ r.existing # NONE => r.existing \in OutcomeRow /\ Keeps(r.existing, o)
       /\ \A h \in Horizon :
             o.stock_return[h] = StockReturn(T, r.events, o.entry_price_date, o.price_date[h])
       /\ o.max_drawdown_pct = drawdown
       /\ {o.price_date[h] : h \in Scored(o.stock_return)} = DatesOf(r.turns)
  <2>1. Computed(r, drawdown, o)
    BY <1>1, <1>9, <1>11, OutcomeIsOk
  <2> QED BY <2>1 DEF Computed
<1>13. WriteOk(q, market)
  <2>1. o.max_drawdown_pct # NONE =>
          /\ days \subseteq Day /\ Max({o.price_date[h] : h \in Scored(o.stock_return)}) = end
          /\ end \in Int /\ \A d \in days : T <= d /\ d <= end
          /\ o.max_drawdown_pct = max_drawdown_pct(r.events, days, end)
    BY <1>6, <1>10, <1>12
  <2> QED BY <1>2, <1>8, <1>12, <2>1 DEF WriteOk
<1>14. StepOk(q, market)
  BY <1>1, <1>7, <1>8, <1>13 DEF StepOk, Pcs, AfterLookup
<1>15. \A f \in {"cmd", "run", "job", "todo", "existing"} : q[f] = r[f]
  BY <1>8
<1> QED BY <1>8, <1>14, <1>15 DEF q

\* A back-fill completes the total-return figures and leaves the rest alone.
LEMMA BackfillIsOk ==
    ASSUME NEW T, NEW M, NEW o \in OutcomeRow, OutcomeOk(o, T, M), NEW existing \in OutcomeRow,
           NEW computed \in OutcomeRow, Supported(computed, T, M), Keeps(existing, computed),
           NEW p, p = backfill_tri_returns(o, existing, computed)
    PROVE  p \in OutcomeRow /\ OutcomeOk(p, T, M) /\ Untouched(o, p)
<1> DEFINE write(f) == [h \in Horizon |-> IF <<f, h>> \in TriWritten(existing, computed)
                                         THEN computed[f][h] ELSE o[f][h]]
<1>1. p = [o EXCEPT !.benchmark_tri_return = write("benchmark_tri_return"),
                    !.excess_return_tri = write("excess_return_tri")]
  BY DEF backfill_tri_returns
<1>2. \A f \in TriField : write(f) \in [Horizon -> Figure]
  BY DEF TriField, OutcomeRow
<1>3. \A f \in TriField, h \in Horizon :
         /\ write(f)[h] \in {computed[f][h], o[f][h]}
         /\ o[f][h] # NONE => write(f)[h] # NONE
  BY DEF TriWritten, Keeps
<1> HIDE DEF write
<1>4. p \in OutcomeRow
  BY <1>1, <1>2 DEF OutcomeRow, TriField
<1>5. /\ p.entry_price_date = o.entry_price_date /\ p.price_date = o.price_date
      /\ p.stock_return = o.stock_return /\ p.benchmark_return = o.benchmark_return
      /\ p.excess_return = o.excess_return /\ p.max_drawdown_pct = o.max_drawdown_pct
      /\ p.outcome_status = o.outcome_status
      /\ p.benchmark_tri_return = write("benchmark_tri_return")
      /\ p.excess_return_tri = write("excess_return_tri")
  BY <1>1 DEF OutcomeRow
<1>6. DOMAIN o = {"entry_price_date", "price_date", "stock_return", "benchmark_return",
                  "excess_return", "benchmark_tri_return", "excess_return_tri",
                  "max_drawdown_pct", "outcome_status"}
  BY DEF OutcomeRow
<1>7. Untouched(o, p)
  BY <1>3, <1>5, <1>6 DEF Untouched, TriField
<1>8. InWindow(p, T)
  BY <1>5 DEF OutcomeOk, InWindow
<1>9. Supported(p, T, M)
  <2>1. ASSUME NEW h \in Horizon
        PROVE  /\ p.benchmark_tri_return[h] # NONE => Scorable(TRI_BENCHMARK_CODE, T, h, M)
               /\ p.excess_return_tri[h] # NONE =>
                     Scorable(TRI_BENCHMARK_CODE, T, h, M) /\ Scorable(Stock, T, h, M)
    <3>1. /\ p.benchmark_tri_return[h]
                \in {computed.benchmark_tri_return[h], o.benchmark_tri_return[h]}
          /\ p.excess_return_tri[h] \in {computed.excess_return_tri[h], o.excess_return_tri[h]}
      BY <1>3, <1>5 DEF TriField
    <3> QED BY <3>1 DEF OutcomeOk, Supported
  <2> QED BY <2>1 DEF Supported
<1> QED BY <1>4, <1>7, <1>8, <1>9 DEF OutcomeOk

-----------------------------------------------------------------------------
(* The jobs of a command.                                                  *)

LEMMA WithoutIsOk ==
    ASSUME NEW todo \in Seq(SUBSET Job), todo # <<>>, NEW job
    PROVE  Without(todo, job) \in Seq(SUBSET Job) /\ AllOf(Without(todo, job)) \subseteq AllOf(todo)
<1>1. CASE Head(todo) = {job}
  <2>1. Without(todo, job) = Tail(todo)
    BY <1>1 DEF Without
  <2>2. /\ Tail(todo) \in Seq(SUBSET Job) /\ Len(Tail(todo)) = Len(todo) - 1
        /\ \A n \in 1..Len(Tail(todo)) : Tail(todo)[n] = todo[n + 1]
    BY HeadTailProperties
  <2>3. DOMAIN Tail(todo) = 1..(Len(todo) - 1) /\ DOMAIN todo = 1..Len(todo) /\ Len(todo) \in Nat
    BY <2>2
  <2>4. \A n \in DOMAIN Tail(todo) : n + 1 \in DOMAIN todo /\ Tail(todo)[n] = todo[n + 1]
    BY <2>2, <2>3
  <2>5. AllOf(Tail(todo)) \subseteq AllOf(todo)
    BY <2>4 DEF AllOf
  <2> QED BY <2>1, <2>2, <2>5
<1>2. CASE Head(todo) # {job}
  <2> DEFINE t == [todo EXCEPT ![1] = @ \ {job}]
  <2>1. Without(todo, job) = t
    BY <1>2 DEF Without
  <2>2. Len(todo) \in Nat /\ DOMAIN todo = 1..Len(todo) /\ todo \in [1..Len(todo) -> SUBSET Job]
    OBVIOUS
  <2>3. t \in [1..Len(todo) -> SUBSET Job] /\ \A n \in 1..Len(todo) : t[n] \subseteq todo[n]
    BY <2>2
  <2> HIDE DEF t
  <2>4. t \in Seq(SUBSET Job)
    BY <2>2, <2>3, SeqDef
  <2>5. DOMAIN t = DOMAIN todo /\ \A n \in DOMAIN todo : t[n] \subseteq todo[n]
    BY <2>2, <2>3
  <2>6. AllOf(t) \subseteq AllOf(todo)
    BY <2>5 DEF AllOf
  <2> QED BY <2>1, <2>4, <2>6
<1> QED BY <1>1, <1>2

\* What a command takes up next: one of its jobs, at its first step, or the end.
Taken(r, q, M) ==
    /\ StepOk(q, M) /\ q.pc \in {"at", "prior", "load", "commit"}
    /\ q.pc = "load" => q.cmd = "backfill"
    /\ q.cmd = r.cmd /\ q.run = r.run
    /\ q.pc # "commit" => q.job \in AllOf(r.todo)
    /\ AllOf(q.todo) \subseteq AllOf(r.todo)

LEMMA TakeUpIsOk ==
    ASSUME NEW M, NEW r, r.cmd \in {"run", "replay", "backfill"}, r.run \in Run,
           r.todo \in Seq(SUBSET Job), NEW q \in TakeUp(r)
    PROVE  Taken(r, q, M)
<1>1. CASE r.todo = <<>>
  <2>1. q = [At(r, "commit") EXCEPT !.job = NONE]
    BY <1>1 DEF TakeUp
  <2>2. Shape(q)
    BY <2>1 DEF Shape, Fields, At, Idle
  <2>3. q.pc = "commit" /\ q.cmd = r.cmd /\ q.run = r.run /\ q.todo = r.todo
    BY <2>1 DEF At, Idle
  <2> HIDE DEF At
  <2>4. StepOk(q, M)
    BY <2>2, <2>3 DEF StepOk, Pcs
  <2> QED BY <2>3, <2>4 DEF Taken
<1>2. CASE r.todo # <<>>
  <2>1. PICK job \in Head(r.todo) :
            q = [At(r, FirstStep(r.cmd)) EXCEPT !.job = job, !.todo = Without(r.todo, job)]
    BY <1>2 DEF TakeUp, At, Idle
  <2>2. Shape(q)
    BY <2>1 DEF Shape, Fields, At, Idle
  <2>3. /\ q.pc = FirstStep(r.cmd) /\ q.cmd = r.cmd /\ q.run = r.run /\ q.job = job
        /\ q.todo = Without(r.todo, job)
    BY <2>1 DEF At, Idle
  <2>4. /\ FirstStep(r.cmd) \in {"at", "prior", "load"}
        /\ FirstStep(r.cmd) = "prior" => r.cmd # "run"
        /\ FirstStep(r.cmd) = "load" => r.cmd = "backfill"
    BY DEF FirstStep
  <2>5. q.todo \in Seq(SUBSET Job) /\ AllOf(q.todo) \subseteq AllOf(r.todo)
    BY <1>2, <2>3, WithoutIsOk
  <2>6. 1 \in DOMAIN r.todo /\ Head(r.todo) = r.todo[1] /\ Head(r.todo) \in SUBSET Job
    BY <1>2
  <2>7. job \in AllOf(r.todo) /\ job \in Job
    BY <2>6 DEF AllOf
  <2>8. StepOk(q, M)
    BY <2>2, <2>3, <2>4, <2>5, <2>7 DEF StepOk, Pcs, AfterLookup
  <2> QED BY <2>3, <2>4, <2>5, <2>7, <2>8 DEF Taken
<1> QED BY <1>1, <1>2

-----------------------------------------------------------------------------
(* The invariant is inductive.                                             *)

LEMMA RowFacts ==
    /\ \A k \in Key : k = <<k[1], k[2], k[3]>> /\ k[1] \in Run /\ k[2] \in DecisionDate
    /\ \A r, job : r.run \in Run /\ job \in Job => KeyOf(r, job) \in Key
    /\ \A s : JobKey(s) = KeyOf(sess[s], sess[s].job) /\ Date(s) = sess[s].job[1]
    /\ NONE \notin Row /\ NONE \notin OutcomeRow
  BY NoneAssumption DEF Key, KeyOf, Job, JobKey, Date

LEMMA SessionFacts ==
    ASSUME Inv, NEW s \in Sessions
    PROVE  /\ StepOk(sess[s], market) /\ PlacedOk(sess[s], draft[s], table)
           /\ DraftOk(sess[s], draft[s], table, market)
           /\ market \subseteq Series \X Day /\ runs \subseteq Run /\ started \in Nat
           /\ table \in [Key -> Row \cup {NONE}] /\ draft[s] \in [Key -> Row \cup {NONE}]
           /\ DOMAIN sess = Sessions
  BY DEF Inv, SessionOk, StoredOk

\* A step of one session, which may write its own draft.
LEMMA SessionSteps ==
    ASSUME Inv, NEW s \in Sessions, NEW q, NEW E \in [Key -> Row \cup {NONE}],
           sess' = [sess EXCEPT ![s] = q], draft' = [draft EXCEPT ![s] = E],
           UNCHANGED <<market, recorded, runs, table>>, started' \in Nat,
           StepOk(q, market), PlacedOk(q, E, table), DraftOk(q, E, table, market),
           \A t \in Sessions \ {s} : \A k \in Key : E[k] = NONE \/ draft[t][k] = NONE
    PROVE  Inv'
<1>1. StoredOk /\ CommittedOk(table, runs, market) /\ Exclusive /\ \A t \in Sessions : SessionOk(t)
  BY DEF Inv
<1>2. draft \in [Sessions -> [Key -> Row \cup {NONE}]] /\ sess = [t \in Sessions |-> sess[t]]
  BY <1>1 DEF StoredOk
<1>3. sess'[s] = q /\ \A t \in Sessions \ {s} : sess'[t] = sess[t]
  BY <1>2
<1>4. draft'[s] = E /\ \A t \in Sessions \ {s} : draft'[t] = draft[t]
  BY <1>2
<1>5. draft' \in [Sessions -> [Key -> Row \cup {NONE}]] /\ sess' = [t \in Sessions |-> sess'[t]]
  BY <1>2
<1>6. StoredOk'
  BY <1>1, <1>5 DEF StoredOk
<1>7. CommittedOk(table, runs, market)'
  BY <1>1
<1>8. Exclusive'
  BY <1>1, <1>4 DEF Exclusive
<1>9. ASSUME NEW t \in Sessions PROVE SessionOk(t)'
  <2>1. CASE t = s
    BY <1>3, <1>4, <2>1 DEF SessionOk
  <2>2. CASE t # s
    <3>1. SessionOk(t)
      BY <1>1
    <3> QED BY <1>3, <1>4, <2>2, <3>1 DEF SessionOk
  <2> QED BY <2>1, <2>2
<1> QED BY <1>6, <1>7, <1>8, <1>9 DEF Inv

\* A step of one session that writes nothing.
LEMMA SessionMoves ==
    ASSUME Inv, NEW s \in Sessions, NEW q, sess' = [sess EXCEPT ![s] = q],
           UNCHANGED <<market, recorded, runs, table, draft>>, started' \in Nat,
           StepOk(q, market), PlacedOk(q, draft[s], table), DraftOk(q, draft[s], table, market)
    PROVE  Inv'
<1>1. draft \in [Sessions -> [Key -> Row \cup {NONE}]] /\ Exclusive
  BY DEF Inv, StoredOk
<1>2. draft' = [draft EXCEPT ![s] = draft[s]] /\ draft[s] \in [Key -> Row \cup {NONE}]
  BY <1>1
<1>3. \A t \in Sessions \ {s} : \A k \in Key : draft[s][k] = NONE \/ draft[t][k] = NONE
  BY <1>1 DEF Exclusive
<1> QED BY <1>2, <1>3, SessionSteps

\* Where the job stays the same and no row waits for its outcome.
LEMMA DraftStays ==
    ASSUME NEW r, NEW q, NEW D, NEW K, NEW M, DraftOk(r, D, K, M), q.pc # "idle", q.run = r.run,
           \A k \in Key : D[k] # NONE => D[k].outcome # NONE
    PROVE  DraftOk(q, D, K, M)
  BY DEF DraftOk

\* Before the decision is looked up, and at the end, none does.
LEMMA NoneWaits ==
    ASSUME NEW r, NEW D, NEW K, NEW M, DraftOk(r, D, K, M), r.pc \notin AfterLookup
    PROVE  \A k \in Key : D[k] # NONE => D[k].outcome # NONE
  BY DEF DraftOk

\* Nothing is drafted and nothing is committed when the commands start.
THEOREM InitInv == Init => Inv
<1> SUFFICES ASSUME Init PROVE Inv
  OBVIOUS
<1>1. PICK w \in Worlds : market = w.market /\ recorded = w.recorded
  BY DEF Init
<1>2. /\ runs = {} /\ table = NoDraft /\ started = 0
      /\ draft = [s \in Sessions |-> NoDraft] /\ sess = [s \in Sessions |-> Idle]
  BY DEF Init
<1>3. w.market \in SUBSET (Series \X Day) /\ w.recorded \in [Event -> Int \cup {NONE}]
  BY WalkForwardAssumption
<1>4. NoDraft \in [Key -> Row \cup {NONE}] /\ \A k \in Key : NoDraft[k] = NONE
  BY DEF NoDraft
<1>5. \A s \in Sessions : draft[s] = NoDraft /\ sess[s] = Idle
  BY <1>2
<1>6. StoredOk
  <2>1. draft \in [Sessions -> [Key -> Row \cup {NONE}]]
    BY <1>2, <1>4
  <2>2. sess = [s \in Sessions |-> sess[s]]
    BY <1>2
  <2> QED BY <1>1, <1>2, <1>3, <1>4, <2>1, <2>2 DEF StoredOk
<1>7. CommittedOk(table, runs, market) /\ Exclusive
  BY <1>2, <1>4, <1>5 DEF CommittedOk, Exclusive
<1>8. Idle.pc = "idle" /\ Shape(Idle)
  BY DEF Idle, Shape, Fields
<1>9. StepOk(Idle, market) /\ PlacedOk(Idle, NoDraft, table) /\ DraftOk(Idle, NoDraft, table, market)
  BY <1>4, <1>8 DEF StepOk, Pcs, PlacedOk, DraftOk, AfterLookup, AfterLoad
<1> QED BY <1>5, <1>6, <1>7, <1>9 DEF Inv, SessionOk

\* What is stored meanwhile.
LEMMA StoredMeanwhile ==
    ASSUME Inv, Disturbed, UNCHANGED <<runs, table, started, draft>>,
           market \subseteq market', market' \subseteq Series \X Day,
           recorded' \in [Event -> Int \cup {NONE}]
    PROVE  Inv'
<1>1. StoredOk /\ CommittedOk(table, runs, market) /\ Exclusive /\ \A t \in Sessions : SessionOk(t)
  BY DEF Inv
<1>2. sess' = [t \in Sessions |-> sess'[t]]
  BY DEF Disturbed
<1>3. StoredOk'
  BY <1>1, <1>2 DEF StoredOk
<1>4. CommittedOk(table, runs, market)'
  BY <1>1, OutcomeStays DEF CommittedOk
<1>5. Exclusive'
  BY <1>1 DEF Exclusive
<1>6. ASSUME NEW t \in Sessions PROVE SessionOk(t)'
  <2> DEFINE r == sess[t]
             D == draft[t]
             q == [r EXCEPT !.quiet = FALSE]
  <2>1. StepOk(r, market) /\ PlacedOk(r, D, table) /\ DraftOk(r, D, table, market)
    BY <1>1 DEF SessionOk
  <2>2. StepOk(r, market') /\ DraftOk(r, D, table, market')
    BY <2>1, StepStays, OutcomeStays DEF DraftOk
  <2>3. StepOk(q, market') /\ PlacedOk(q, D, table) /\ DraftOk(q, D, table, market')
    BY <2>1, <2>2, QuietOrNot
  <2>4. sess'[t] = r \/ sess'[t] = q
    BY DEF Disturbed
  <2> HIDE DEF q
  <2> QED BY <2>1, <2>2, <2>3, <2>4 DEF SessionOk
<1> QED BY <1>3, <1>4, <1>5, <1>6 DEF Inv

LEMMA IngestPriceInv ==
    ASSUME Inv, NEW series \in Series, NEW day \in Day, IngestPrice(series, day)
    PROVE  Inv'
<1>1. market' = market \cup {<<series, day>>} /\ market \subseteq Series \X Day
  BY DEF IngestPrice, Inv, StoredOk
<1>2. recorded' \in [Event -> Int \cup {NONE}]
  BY DEF IngestPrice, Inv, StoredOk
<1> QED BY <1>1, <1>2, StoredMeanwhile DEF IngestPrice

LEMMA RecordEventInv ==
    ASSUME Inv, NEW i \in Event, RecordEvent(i)
    PROVE  Inv'
<1>1. recorded \in [Event -> Int \cup {NONE}] /\ market \subseteq Series \X Day
  BY DEF Inv, StoredOk
<1>2. recorded' \in [Event -> Int \cup {NONE}]
  BY <1>1, WalkForwardAssumption DEF RecordEvent
<1> QED BY <1>1, <1>2, StoredMeanwhile DEF RecordEvent

\* The first job of a command, and the next one: nothing is drafted that still
\* waits for its outcome.
DraftDone(r, D, K, M) ==
    \A k \in Key : D[k] # NONE =>
        /\ k[1] = r.run /\ D[k].outcome # NONE /\ OutcomeOk(D[k].outcome, k[2], M)
        /\ K[k] # NONE =>
              D[k].decision = K[k].decision /\ Untouched(K[k].outcome, D[k].outcome)
JobsThere(r, K) == r.cmd = "backfill" => \A job \in AllOf(r.todo) : K[KeyOf(r, job)] # NONE

LEMMA TakenUp ==
    ASSUME NEW r, NEW q \in TakeUp(r), NEW D, NEW K, NEW M,
           r.cmd \in {"run", "replay", "backfill"}, r.run \in Run, r.todo \in Seq(SUBSET Job),
           JobsThere(r, K), DraftDone(r, D, K, M)
    PROVE  StepOk(q, M) /\ PlacedOk(q, D, K) /\ DraftOk(q, D, K, M)
<1>1. Taken(r, q, M)
  BY TakeUpIsOk
<1>2. \A job : KeyOf(q, job) = KeyOf(r, job)
  BY <1>1 DEF Taken, KeyOf
<1>3. PlacedOk(q, D, K)
  BY <1>1, <1>2 DEF Taken, PlacedOk, JobsThere, AfterLookup, AfterLoad
<1>4. DraftOk(q, D, K, M)
  BY <1>1 DEF Taken, DraftOk, DraftDone
<1> QED BY <1>1, <1>3, <1>4 DEF Taken

LEMMA BeginInv ==
    ASSUME Inv, NEW s \in Sessions, NEW cmd \in {"run", "replay", "backfill"}, NEW run \in Run,
           NEW todo \in Seq(SUBSET Job), Begin(s, cmd, run, todo),
           cmd = "backfill" => \A job \in AllOf(todo) : table[<<run, job[1], job[2]>>] # NONE
    PROVE  Inv'
<1> DEFINE r == [Idle EXCEPT !.cmd = cmd, !.run = run, !.quiet = cmd = "run", !.todo = todo]
<1>1. PICK q \in TakeUp(r) : sess' = [sess EXCEPT ![s] = q]
  BY DEF Begin
<1>2. r.cmd = cmd /\ r.run = run /\ r.todo = todo
  BY DEF Idle
<1> HIDE DEF r
<1>3. sess[s].pc = "idle" /\ DraftOk(sess[s], draft[s], table, market) /\ started \in Nat
  BY SessionFacts DEF Begin
<1>4. \A k \in Key : draft[s][k] = NONE
  BY <1>3 DEF DraftOk
<1>5. JobsThere(r, table) /\ DraftDone(r, draft[s], table, market)
  BY <1>2, <1>4 DEF JobsThere, KeyOf, DraftDone
<1>6. StepOk(q, market) /\ PlacedOk(q, draft[s], table) /\ DraftOk(q, draft[s], table, market)
  BY <1>2, <1>5, TakenUp
<1>7. UNCHANGED <<market, recorded, runs, table, draft>> /\ started' \in Nat
  BY <1>3 DEF Begin
<1> QED BY <1>1, <1>6, <1>7, SessionMoves

LEMMA InOrderIsSeq ==
    ASSUME NEW D \in SUBSET DecisionDate, NEW dates \in InOrder(D)
    PROVE  /\ dates \in Seq(DecisionDate) /\ DOMAIN dates = 1..Cardinality(D)
           /\ Cardinality(D) \in Nat /\ \A n \in 1..Cardinality(D) : dates[n] \in DecisionDate
<1>1. Cardinality(D) \in Nat
  BY DateFacts
<1>2. dates \in [1..Cardinality(D) -> D]
  BY DEF InOrder
<1>3. \A n \in 1..Cardinality(D) : dates[n] \in DecisionDate
  BY <1>2
<1>4. dates \in Seq(DecisionDate)
  <2>1. dates \in [1..Cardinality(D) -> DecisionDate]
    BY <1>2
  <2> QED BY <1>1, <2>1, SeqDef
<1> QED BY <1>1, <1>2, <1>3, <1>4

LEMMA BothSourcesIsSeq ==
    ASSUME NEW dates \in Seq(DecisionDate)
    PROVE  BothSources(dates) \in Seq(SUBSET Job)
<1> DEFINE L == Len(dates)
           job(n) == <<dates[(n + 1) \div 2], IF n % 2 = 1 THEN "ACTUAL" ELSE "HOLD_BASELINE">>
<1>1. L \in Nat /\ 2 * L \in Nat /\ \A m \in 1..L : dates[m] \in DecisionDate
  OBVIOUS
<1>2. ASSUME NEW n \in 1..2 * L PROVE {job(n)} \in SUBSET Job
  <2>1. (n + 1) \div 2 \in 1..L
    <3> HIDE DEF L
    <3> QED BY <1>1
  <2>2. dates[(n + 1) \div 2] \in DecisionDate
    BY <1>1, <2>1
  <2> QED BY <2>2 DEF Job, Source
<1>3. BothSources(dates) = [n \in 1..2 * L |-> {job(n)}]
  BY DEF BothSources
<1> HIDE DEF L, job
<1>4. BothSources(dates) \in [1..2 * L -> SUBSET Job]
  BY <1>2, <1>3
<1> QED BY <1>1, <1>4, SeqDef

LEMMA DecidedAre ==
    ASSUME NEW r, NEW d \in DecisionDate, NEW job \in Decided(r, d, Source)
    PROVE  job \in Job /\ table[<<r, job[1], job[2]>>] # NONE
<1>1. PICK x \in Source : job = <<d, x>> /\ table[<<r, d, x>>] # NONE
  BY DEF Decided
<1> QED BY <1>1 DEF Job

LEMMA StartInv ==
    ASSUME Inv, NEW s \in Sessions, Start(s)
    PROVE  Inv'
<1>1. runs \subseteq Run /\ Unused \subseteq Run
  BY DEF Inv, StoredOk, Unused
<1>2. CASE run_walk_forward(s)
  <2>0. PICK r \in Unused, n \in 1..MaxPoints :
            \E dates \in [1..n -> Points] : Begin(s, "run", r, BothSources(dates))
    BY <1>2 DEF run_walk_forward
  <2>1. PICK dates \in [1..n -> Points] : Begin(s, "run", r, BothSources(dates))
    BY <2>0
  <2>2. n \in Nat
    BY WalkForwardAssumption
  <2>3. dates \in [1..n -> DecisionDate]
    BY DEF DecisionDate
  <2>4. dates \in Seq(DecisionDate)
    BY <2>2, <2>3, SeqDef
  <2> QED BY <1>1, <2>1, <2>4, BothSourcesIsSeq, BeginInv
<1>3. CASE run_bulk_walk_forward(s)
  <2>1. PICK r \in Unused, dates \in InOrder(generate_decision_points) :
            Begin(s, "run", r, BothSources(dates))
    BY <1>3 DEF run_bulk_walk_forward
  <2>2. generate_decision_points \in SUBSET DecisionDate
    BY DEF generate_decision_points, DecisionDate, Kind
  <2>3. dates \in Seq(DecisionDate)
    BY <2>2, InOrderIsSeq
  <2> QED BY <1>1, <2>1, <2>3, BothSourcesIsSeq, BeginInv
<1>4. CASE replay_deterministic_baseline(s)
  <2>0. PICK r \in runs : \E dates \in list_for_run(r, {"ACTUAL"}) :
            Begin(s, "replay", r, [n \in DOMAIN dates |-> {<<dates[n], "AGENT">>}])
    BY <1>4 DEF replay_deterministic_baseline
  <2>1. PICK dates \in list_for_run(r, {"ACTUAL"}) :
            Begin(s, "replay", r, [n \in DOMAIN dates |-> {<<dates[n], "AGENT">>}])
    BY <2>0
  <2> DEFINE D == {d \in DecisionDate : Decided(r, d, {"ACTUAL"}) # {}}
             todo == [n \in DOMAIN dates |-> {<<dates[n], "AGENT">>}]
  <2>2. dates \in InOrder(D) /\ D \in SUBSET DecisionDate
    BY DEF list_for_run
  <2> HIDE DEF D
  <2>3. /\ DOMAIN dates = 1..Cardinality(D) /\ Cardinality(D) \in Nat
        /\ \A n \in 1..Cardinality(D) : dates[n] \in DecisionDate
    BY <2>2, InOrderIsSeq
  <2>4. todo \in [1..Cardinality(D) -> SUBSET Job]
    BY <2>3 DEF Job, Source
  <2> HIDE DEF todo
  <2>5. todo \in Seq(SUBSET Job)
    BY <2>3, <2>4, SeqDef
  <2>6. Begin(s, "replay", r, todo)
    BY <2>1 DEF todo
  <2> QED BY <1>1, <2>5, <2>6, BeginInv
<1>5. CASE backfill_walk_forward_tri(s)
  <2>0. PICK r \in runs : \E dates \in list_for_run(r, Source) :
            Begin(s, "backfill", r, [n \in DOMAIN dates |-> Decided(r, dates[n], Source)])
    BY <1>5 DEF backfill_walk_forward_tri
  <2>1. PICK dates \in list_for_run(r, Source) :
            Begin(s, "backfill", r, [n \in DOMAIN dates |-> Decided(r, dates[n], Source)])
    BY <2>0
  <2> DEFINE D == {d \in DecisionDate : Decided(r, d, Source) # {}}
             todo == [n \in DOMAIN dates |-> Decided(r, dates[n], Source)]
  <2>2. dates \in InOrder(D) /\ D \in SUBSET DecisionDate
    BY DEF list_for_run
  <2> HIDE DEF D
  <2>3. /\ DOMAIN dates = 1..Cardinality(D) /\ Cardinality(D) \in Nat
        /\ \A n \in 1..Cardinality(D) : dates[n] \in DecisionDate
    BY <2>2, InOrderIsSeq
  <2>4. \A d \in DecisionDate : Decided(r, d, Source) \in SUBSET Job
    BY DecidedAre
  <2>5. todo \in [1..Cardinality(D) -> SUBSET Job]
    BY <2>3, <2>4
  <2>6. \A job \in AllOf(todo) : table[<<r, job[1], job[2]>>] # NONE
    <3>1. \A n \in DOMAIN todo : \A job \in todo[n] : table[<<r, job[1], job[2]>>] # NONE
      BY <2>3, DecidedAre
    <3> HIDE DEF todo
    <3> QED BY <3>1 DEF AllOf
  <2> HIDE DEF todo
  <2>7. todo \in Seq(SUBSET Job)
    BY <2>3, <2>5, SeqDef
  <2>8. Begin(s, "backfill", r, todo)
    BY <2>1 DEF todo
  <2> QED BY <1>1, <2>6, <2>7, <2>8, BeginInv
<1> QED BY <1>2, <1>3, <1>4, <1>5 DEF Start

\* What a session sees of a key: its draft, or what is committed.
LEMMA ViewFacts ==
    ASSUME Inv, NEW s \in Sessions, NEW k \in Key, View(s, k) # NONE
    PROVE  /\ View(s, k) \in Row
           /\ View(s, k).outcome # NONE => OutcomeOk(View(s, k).outcome, k[2], market)
           /\ draft[s][k] = NONE => View(s, k) = table[k] /\ View(s, k).outcome # NONE
<1>1. CommittedOk(table, runs, market)
  BY DEF Inv
<1>2. /\ DraftOk(sess[s], draft[s], table, market)
      /\ table \in [Key -> Row \cup {NONE}] /\ draft[s] \in [Key -> Row \cup {NONE}]
  BY SessionFacts
<1>3. CASE draft[s][k] # NONE
  BY <1>2, <1>3 DEF View, DraftOk
<1>4. CASE draft[s][k] = NONE
  BY <1>1, <1>2, <1>4 DEF View, CommittedOk
<1> QED BY <1>3, <1>4

LEMMA SnapshotAtInv ==
    ASSUME Inv, NEW s \in Sessions, SnapshotAt(s)
    PROVE  Inv'
<1> DEFINE r == sess[s]
           at == get_portfolio_as_of(Date(s), Date(s))
           q == [r EXCEPT !.pc = "prior", !.at = at]
<1>1. /\ StepOk(r, market) /\ PlacedOk(r, draft[s], table) /\ DraftOk(r, draft[s], table, market)
      /\ started \in Nat /\ r.pc = "at"
  BY SessionFacts DEF SnapshotAt
<1>2. sess' = [sess EXCEPT ![s] = q] /\ UNCHANGED <<market, recorded, runs, table, started, draft>>
  BY DEF SnapshotAt
<1>3. at \in Position
  BY ReplayIsPosition DEF get_portfolio_as_of
<1> HIDE DEF at
<1>4. Shape(q) /\ q.pc = "prior" /\ q.at = at
      /\ \A f \in {"cmd", "run", "job", "todo"} : q[f] = r[f]
  BY <1>1 DEF StepOk, Shape, Fields
<1> HIDE DEF q
<1>5. StepOk(q, market)
  BY <1>1, <1>3, <1>4 DEF StepOk, Pcs, AfterLookup
<1>6. PlacedOk(q, draft[s], table)
  BY <1>1, <1>4 DEF PlacedOk, KeyOf, AfterLookup, AfterLoad
<1>7. DraftOk(q, draft[s], table, market)
  BY <1>1, <1>4, NoneWaits, DraftStays DEF AfterLookup
<1> QED BY <1>1, <1>2, <1>5, <1>6, <1>7, SessionMoves

LEMMA SnapshotPriorInv ==
    ASSUME Inv, NEW s \in Sessions, SnapshotPrior(s)
    PROVE  Inv'
<1> DEFINE r == sess[s]
           prior == get_portfolio_as_of(Date(s) - 1, Date(s))
           at == IF r.cmd = "run" THEN r.at ELSE prior
           q == [r EXCEPT !.pc = "decide", !.prior = prior, !.at = at]
<1>1. /\ StepOk(r, market) /\ PlacedOk(r, draft[s], table) /\ DraftOk(r, draft[s], table, market)
      /\ started \in Nat /\ r.pc = "prior"
  BY SessionFacts DEF SnapshotPrior
<1>2. sess' = [sess EXCEPT ![s] = q] /\ UNCHANGED <<market, recorded, runs, table, started, draft>>
  BY DEF SnapshotPrior
<1>3. prior \in Position /\ at \in Position
  BY <1>1, ReplayIsPosition DEF get_portfolio_as_of, StepOk
<1> HIDE DEF prior, at
<1>4. Shape(q) /\ q.pc = "decide" /\ q.at = at /\ q.prior = prior
      /\ \A f \in {"cmd", "run", "job", "todo"} : q[f] = r[f]
  BY <1>1 DEF StepOk, Shape, Fields
<1> HIDE DEF q
<1>5. StepOk(q, market)
  BY <1>1, <1>3, <1>4 DEF StepOk, Pcs, AfterLookup
<1>6. PlacedOk(q, draft[s], table)
  BY <1>1, <1>4 DEF PlacedOk, KeyOf, AfterLookup, AfterLoad
<1>7. DraftOk(q, draft[s], table, market)
  BY <1>1, <1>4, NoneWaits, DraftStays DEF AfterLookup
<1> QED BY <1>1, <1>2, <1>5, <1>6, <1>7, SessionMoves

LEMMA DecideInv ==
    ASSUME Inv, NEW s \in Sessions, Decide(s)
    PROVE  Inv'
<1> DEFINE r == sess[s]
           trades == {i \in list_up_to(Date(s)) : Timeline[i].date = Date(s)}
           decision == freeze(r.job[2], r.at, r.prior, trades)
           q == IF View(s, JobKey(s)) # NONE THEN At(r, "load")
                ELSE [At(r, "insert") EXCEPT !.decision = decision]
<1>1. /\ StepOk(r, market) /\ PlacedOk(r, draft[s], table) /\ DraftOk(r, draft[s], table, market)
      /\ started \in Nat /\ r.pc = "decide"
  BY SessionFacts DEF Decide
<1>2. sess' = [sess EXCEPT ![s] = q] /\ UNCHANGED <<market, recorded, runs, table, started, draft>>
  BY DEF Decide
<1>3. decision \in Decision
  <2>1. trades \in SUBSET Event
    BY DEF list_up_to
  <2>2. r.job[2] \in Source /\ r.at \in Position /\ r.prior \in Position
    BY <1>1 DEF StepOk, Job
  <2> HIDE DEF trades
  <2> QED BY <2>1, <2>2, FrozenIsDecision
<1> HIDE DEF decision
<1>4. /\ Shape(q) /\ q.pc \in {"load", "insert"}
      /\ q.cmd = r.cmd /\ q.run = r.run /\ q.job = r.job /\ q.todo = r.todo
      /\ q.pc = "insert" => q.decision = decision
      /\ q.pc = "load" => View(s, JobKey(s)) # NONE
  <2> DEFINE a == At(r, "load")
             b == [At(r, "insert") EXCEPT !.decision = decision]
  <2>1. /\ Shape(a) /\ a.pc = "load"
        /\ a.cmd = r.cmd /\ a.run = r.run /\ a.job = r.job /\ a.todo = r.todo
    BY DEF Shape, Fields, At, Idle
  <2>2. /\ Shape(b) /\ b.pc = "insert" /\ b.decision = decision
        /\ b.cmd = r.cmd /\ b.run = r.run /\ b.job = r.job /\ b.todo = r.todo
    BY DEF Shape, Fields, At, Idle
  <2>3. q = IF View(s, JobKey(s)) # NONE THEN a ELSE b
    OBVIOUS
  <2> HIDE DEF a, b, q
  <2> QED BY <2>1, <2>2, <2>3
<1> HIDE DEF q
<1>5. StepOk(q, market)
  BY <1>1, <1>3, <1>4 DEF StepOk, Pcs, AfterLookup
<1>6. PlacedOk(q, draft[s], table)
  <2>1. JobKey(s) = KeyOf(q, q.job)
    BY <1>4 DEF JobKey, KeyOf
  <2>2. q.pc = "load" => draft[s][KeyOf(q, q.job)] # NONE \/ table[KeyOf(q, q.job)] # NONE
    BY <1>4, <2>1 DEF View
  <2> QED BY <1>1, <1>4, <2>2 DEF PlacedOk, KeyOf, AfterLookup, AfterLoad
<1>7. DraftOk(q, draft[s], table, market)
  BY <1>1, <1>4, NoneWaits, DraftStays DEF AfterLookup
<1> QED BY <1>1, <1>2, <1>5, <1>6, <1>7, SessionMoves

LEMMA RollbackInv ==
    ASSUME Inv, NEW s \in Sessions, Rollback(s)
    PROVE  Inv'
<1>1. started \in Nat
  BY SessionFacts
<1>2. NoDraft \in [Key -> Row \cup {NONE}] /\ \A k \in Key : NoDraft[k] = NONE
  BY DEF NoDraft
<1>3. Idle.pc = "idle" /\ Shape(Idle)
  BY DEF Idle, Shape, Fields
<1>4. StepOk(Idle, market) /\ PlacedOk(Idle, NoDraft, table) /\ DraftOk(Idle, NoDraft, table, market)
  BY <1>2, <1>3 DEF StepOk, Pcs, PlacedOk, DraftOk, AfterLookup, AfterLoad
<1>5. /\ sess' = [sess EXCEPT ![s] = Idle] /\ draft' = [draft EXCEPT ![s] = NoDraft]
      /\ UNCHANGED <<market, recorded, runs, table>> /\ started' \in Nat
  BY <1>1 DEF Rollback
<1> QED BY <1>2, <1>4, <1>5, SessionSteps

LEMMA InsertDecisionInv ==
    ASSUME Inv, NEW s \in Sessions, InsertDecision(s)
    PROVE  Inv'
<1> DEFINE r == sess[s]
           k == JobKey(s)
           row == [decision |-> r.decision, outcome |-> NONE]
           E == [draft[s] EXCEPT ![k] = row]
           q == At(r, "load")
<1>1. /\ StepOk(r, market) /\ PlacedOk(r, draft[s], table) /\ DraftOk(r, draft[s], table, market)
      /\ started \in Nat /\ r.pc = "insert" /\ table[k] = NONE
      /\ draft[s] \in [Key -> Row \cup {NONE}]
  BY SessionFacts DEF InsertDecision
<1>2. k \in Key /\ k = KeyOf(r, r.job) /\ k[1] = r.run
  BY <1>1, RowFacts DEF StepOk, KeyOf
<1>3. row \in Row /\ row.outcome = NONE /\ row # NONE
  BY <1>1, RowFacts DEF StepOk, Row
<1>4. /\ Shape(q) /\ q.pc = "load"
      /\ q.cmd = r.cmd /\ q.run = r.run /\ q.job = r.job /\ q.todo = r.todo
  BY DEF Shape, Fields, At, Idle
<1>5. sess' = [sess EXCEPT ![s] = q] /\ draft' = [draft EXCEPT ![s] = E]
      /\ UNCHANGED <<market, recorded, runs, table>> /\ started' \in Nat
  BY <1>1 DEF InsertDecision
<1> HIDE DEF q, row, k
<1>6. E \in [Key -> Row \cup {NONE}] /\ E[k] = row /\ \A j \in Key \ {k} : E[j] = draft[s][j]
  BY <1>1, <1>2, <1>3
<1> HIDE DEF E
<1>7. StepOk(q, market)
  BY <1>1, <1>4 DEF StepOk, Pcs, AfterLookup
<1>8. k = KeyOf(q, q.job) /\ \A job : KeyOf(q, job) = KeyOf(r, job)
  BY <1>2, <1>4 DEF KeyOf
<1>9. PlacedOk(q, E, table)
  BY <1>1, <1>3, <1>4, <1>6, <1>8 DEF PlacedOk, AfterLookup, AfterLoad
<1>10. DraftOk(q, E, table, market)
  <2>1. \A j \in Key : draft[s][j] # NONE => draft[s][j].outcome # NONE
    BY <1>1, NoneWaits DEF AfterLookup
  <2>2. ASSUME NEW j \in Key, E[j] # NONE
        PROVE  /\ q.pc # "idle" /\ j[1] = q.run
               /\ E[j].outcome # NONE => OutcomeOk(E[j].outcome, j[2], market)
               /\ E[j].outcome = NONE =>
                     /\ q.pc \in AfterLookup /\ j = KeyOf(q, q.job) /\ table[j] = NONE
                     /\ q.pc \in AfterLoad => q.existing = NONE
               /\ table[j] # NONE =>
                     E[j].decision = table[j].decision /\ Untouched(table[j].outcome, E[j].outcome)
    <3>1. CASE j = k
      BY <1>1, <1>2, <1>3, <1>4, <1>6, <1>8, <3>1 DEF AfterLookup, AfterLoad
    <3>2. CASE j # k
      <4>1. E[j] = draft[s][j]
        BY <1>6, <3>2
      <4> QED BY <1>1, <1>4, <2>1, <2>2, <4>1 DEF DraftOk
    <3> QED BY <3>1, <3>2
  <2> QED BY <2>2 DEF DraftOk
<1>11. ASSUME NEW t \in Sessions \ {s}, NEW j \in Key PROVE E[j] = NONE \/ draft[t][j] = NONE
  <2>1. draft[t][k] = NONE
    BY DEF InsertDecision, HeldBy, k
  <2>2. draft[s][j] = NONE \/ draft[t][j] = NONE
    BY DEF Inv, Exclusive
  <2> QED BY <1>6, <2>1, <2>2
<1> QED BY <1>5, <1>6, <1>7, <1>9, <1>10, <1>11, SessionSteps

LEMMA LoadEntryInv ==
    ASSUME Inv, NEW s \in Sessions, LoadEntry(s)
    PROVE  Inv'
<1> DEFINE r == sess[s]
           k == JobKey(s)
           existing == View(s, k).outcome
           q == [At(r, "horizon") EXCEPT
                    !.events = all_splits, !.existing = existing,
                    !.entry = [x \in Series |-> resolve_entry_price(x, r.job[1])]]
<1>1. /\ StepOk(r, market) /\ PlacedOk(r, draft[s], table) /\ DraftOk(r, draft[s], table, market)
      /\ started \in Nat /\ r.pc = "load" /\ market \subseteq Series \X Day
      /\ draft[s] \in [Key -> Row \cup {NONE}]
  BY SessionFacts DEF LoadEntry
<1>2. k \in Key /\ k = KeyOf(r, r.job) /\ k[2] = r.job[1]
  BY <1>1, RowFacts DEF StepOk, KeyOf
<1>3. sess' = [sess EXCEPT ![s] = q] /\ UNCHANGED <<market, recorded, runs, table, started, draft>>
  BY DEF LoadEntry, Date
<1>4. View(s, k) # NONE
  BY <1>1, <1>2 DEF PlacedOk, AfterLookup, View
<1>5. existing # NONE => existing \in OutcomeRow /\ Supported(existing, r.job[1], market)
  BY <1>2, <1>4, ViewFacts DEF OutcomeOk, Row
<1>6. existing = NONE => draft[s][k] # NONE /\ draft[s][k].outcome = NONE
  BY <1>2, <1>4, ViewFacts DEF View
<1> HIDE DEF existing
<1>7. StepOk(q, market)
  BY <1>1, <1>5, LoadIsOk
<1>8. /\ q.pc = "horizon" /\ q.existing = existing
      /\ q.cmd = r.cmd /\ q.run = r.run /\ q.job = r.job /\ q.todo = r.todo
  BY DEF At, Idle
<1> HIDE DEF q, k
<1>9. KeyOf(q, q.job) = k /\ \A job : KeyOf(q, job) = KeyOf(r, job)
  BY <1>2, <1>8 DEF KeyOf
<1>10. PlacedOk(q, draft[s], table)
  BY <1>1, <1>2, <1>6, <1>8, <1>9 DEF PlacedOk, AfterLookup, AfterLoad
<1>11. DraftOk(q, draft[s], table, market)
  <2>1. draft[s][k] # NONE => existing = draft[s][k].outcome
    BY DEF existing, View
  <2>2. ASSUME NEW j \in Key, draft[s][j] # NONE, draft[s][j].outcome = NONE
        PROVE  j = k /\ table[j] = NONE /\ existing = NONE
    BY <1>1, <1>2, <2>1, <2>2 DEF DraftOk
  <2> QED BY <1>1, <1>8, <1>9, <2>2 DEF DraftOk, AfterLookup, AfterLoad
<1> QED BY <1>1, <1>3, <1>7, <1>10, <1>11, SessionMoves

\* While a decision is scored, nothing else moves.
LEMMA ScoringMoves ==
    ASSUME Inv, NEW s \in Sessions, NEW q, sess' = [sess EXCEPT ![s] = q],
           UNCHANGED <<market, recorded, runs, table, started, draft>>,
           sess[s].pc \in AfterLoad, q.pc \in AfterLoad, StepOk(q, market),
           \A f \in {"cmd", "run", "job", "todo", "existing"} : q[f] = sess[s][f]
    PROVE  Inv'
<1> DEFINE r == sess[s]
<1>1. /\ PlacedOk(r, draft[s], table) /\ DraftOk(r, draft[s], table, market) /\ started \in Nat
  BY SessionFacts
<1>2. q.cmd = r.cmd /\ q.run = r.run /\ q.job = r.job /\ q.todo = r.todo /\ q.existing = r.existing
  OBVIOUS
<1>3. \A job : KeyOf(q, job) = KeyOf(r, job)
  BY <1>2 DEF KeyOf
<1>4. PlacedOk(q, draft[s], table)
  BY <1>1, <1>2, <1>3 DEF PlacedOk, AfterLookup, AfterLoad
<1>5. DraftOk(q, draft[s], table, market)
  BY <1>1, <1>2, <1>3 DEF DraftOk, AfterLookup, AfterLoad
<1> QED BY <1>1, <1>4, <1>5, SessionMoves

LEMMA ResolveHorizonInv ==
    ASSUME Inv, NEW s \in Sessions, ResolveHorizon(s)
    PROVE  Inv'
<1> DEFINE r == sess[s]
<1>1. sess' = [sess EXCEPT ![s] = NextTurn(r)]
      /\ UNCHANGED <<market, recorded, runs, table, started, draft>>
  BY DEF ResolveHorizon, NextTurn, TurnAt, DatesAt, Widest, Date
<1>2. StepOk(r, market) /\ r.pc = "horizon" /\ market \subseteq Series \X Day
  BY SessionFacts DEF ResolveHorizon
<1>3. /\ StepOk(NextTurn(r), market) /\ NextTurn(r).pc \in {"horizon", "drawdown"}
      /\ \A f \in {"cmd", "run", "job", "todo", "existing"} : NextTurn(r)[f] = r[f]
  BY <1>2, NextTurnIsOk
<1> QED BY <1>1, <1>2, <1>3, ScoringMoves DEF AfterLoad

LEMMA ComputeMaxDrawdownInv ==
    ASSUME Inv, NEW s \in Sessions, ComputeMaxDrawdown(s)
    PROVE  Inv'
<1> DEFINE r == sess[s]
<1>1. sess' = [sess EXCEPT ![s] = Finished(r)]
      /\ UNCHANGED <<market, recorded, runs, table, started, draft>>
  BY DEF ComputeMaxDrawdown, Finished, DaysTo, DrawdownOf, Date
<1>2. StepOk(r, market) /\ r.pc = "drawdown" /\ market \subseteq Series \X Day
  BY SessionFacts DEF ComputeMaxDrawdown
<1>3. /\ StepOk(Finished(r), market) /\ Finished(r).pc = "write"
      /\ \A f \in {"cmd", "run", "job", "todo", "existing"} : Finished(r)[f] = r[f]
  BY <1>2, FinishedIsOk
<1> QED BY <1>1, <1>2, <1>3, ScoringMoves DEF AfterLoad

\* What an outcome is written to: a row of the session's view.
ToWrite(s, r, k) ==
    /\ k \in Key /\ k[1] = r.run /\ k[2] = r.job[1] /\ k = KeyOf(r, r.job)
    /\ r.cmd \in {"run", "replay", "backfill"} /\ r.run \in Run
    /\ r.todo \in Seq(SUBSET Job) /\ JobsThere(r, table) /\ WriteOk(r, market)
    /\ View(s, k) # NONE /\ started \in Nat
    /\ r.existing = NONE => draft[s][k] # NONE /\ draft[s][k].outcome = NONE
    /\ \A j \in Key \ {k} : draft[s][j] # NONE => draft[s][j].outcome # NONE
    /\ draft[s][k] # NONE /\ draft[s][k].outcome = NONE => r.existing = NONE /\ table[k] = NONE

LEMMA WriteFacts ==
    ASSUME Inv, NEW s \in Sessions, sess[s].pc = "write"
    PROVE  ToWrite(s, sess[s], JobKey(s))
<1> DEFINE r == sess[s]
           k == JobKey(s)
<1>1. /\ StepOk(r, market) /\ PlacedOk(r, draft[s], table) /\ DraftOk(r, draft[s], table, market)
      /\ started \in Nat
  BY SessionFacts
<1>2. /\ r.job \in Job /\ r.cmd \in {"run", "replay", "backfill"} /\ r.run \in Run
      /\ r.todo \in Seq(SUBSET Job) /\ WriteOk(r, market)
  BY <1>1 DEF StepOk
<1>3. k \in Key /\ k[1] = r.run /\ k[2] = r.job[1] /\ k = KeyOf(r, r.job)
  BY <1>2, RowFacts DEF KeyOf
<1> HIDE DEF k
<1>4. JobsThere(r, table)
  BY <1>1 DEF PlacedOk, JobsThere
<1>5. View(s, k) # NONE
  BY <1>1, <1>3 DEF PlacedOk, AfterLookup, View
<1>6. r.existing = NONE => draft[s][k] # NONE /\ draft[s][k].outcome = NONE
  BY <1>1, <1>3 DEF PlacedOk, AfterLoad
<1>7. \A j \in Key \ {k} : draft[s][j] # NONE => draft[s][j].outcome # NONE
  BY <1>1, <1>3 DEF DraftOk
<1>8. draft[s][k] # NONE /\ draft[s][k].outcome = NONE => r.existing = NONE /\ table[k] = NONE
  BY <1>1, <1>3 DEF DraftOk, AfterLoad
<1> QED BY <1>1, <1>2, <1>3, <1>4, <1>5, <1>6, <1>7, <1>8 DEF k, ToWrite

\* A row of the draft of s gets its outcome, and the next job is taken up.
LEMMA RowIsWritten ==
    ASSUME Inv, NEW s \in Sessions, NEW k, ToWrite(s, sess[s], k), NEW p \in OutcomeRow,
           OutcomeOk(p, k[2], market), table[k] # NONE => Untouched(table[k].outcome, p),
           table[k] # NONE => View(s, k).decision = table[k].decision,
           \A t \in Sessions \ {s} : draft[t][k] = NONE, NEW row,
           row = [View(s, k) EXCEPT !.outcome = p],
           draft' = [draft EXCEPT ![s][k] = row], NextJob(s),
           UNCHANGED <<market, recorded, runs, table, started>>
    PROVE  Inv'
<1> DEFINE r == sess[s]
           E == [draft[s] EXCEPT ![k] = row]
<1>1. /\ DraftOk(r, draft[s], table, market) /\ draft[s] \in [Key -> Row \cup {NONE}]
      /\ table \in [Key -> Row \cup {NONE}]
  BY SessionFacts
<1>2. View(s, k) \in Row /\ k \in Key
  BY ViewFacts DEF ToWrite
<1>3. row \in Row /\ row.outcome = p /\ row.decision = View(s, k).decision
  BY <1>2 DEF Row
<1>4. row # NONE /\ p # NONE
  BY <1>3, RowFacts
<1>5. E \in [Key -> Row \cup {NONE}] /\ E[k] = row /\ \A j \in Key \ {k} : E[j] = draft[s][j]
  BY <1>1, <1>2, <1>3
<1>6. draft' = [draft EXCEPT ![s] = E]
  OBVIOUS
<1> HIDE DEF E
<1>7. DraftDone(r, E, table, market)
  <2>1. ASSUME NEW j \in Key, E[j] # NONE
        PROVE  /\ j[1] = r.run /\ E[j].outcome # NONE /\ OutcomeOk(E[j].outcome, j[2], market)
               /\ table[j] # NONE =>
                     E[j].decision = table[j].decision /\ Untouched(table[j].outcome, E[j].outcome)
    <3>1. CASE j = k
      BY <1>3, <1>4, <1>5, <3>1 DEF ToWrite
    <3>2. CASE j # k
      <4>1. E[j] = draft[s][j] /\ draft[s][j] # NONE
        BY <1>5, <2>1, <3>2
      <4>2. draft[s][j].outcome # NONE
        BY <3>2, <4>1 DEF ToWrite
      <4> QED BY <1>1, <4>1, <4>2 DEF DraftOk
    <3> QED BY <3>1, <3>2
  <2> QED BY <2>1 DEF DraftDone
<1>8. PICK q \in TakeUp(r) : sess' = [sess EXCEPT ![s] = q]
  BY DEF NextJob
<1>9. StepOk(q, market) /\ PlacedOk(q, E, table) /\ DraftOk(q, E, table, market)
  BY <1>7, TakenUp DEF ToWrite
<1>10. ASSUME NEW t \in Sessions \ {s}, NEW j \in Key PROVE E[j] = NONE \/ draft[t][j] = NONE
  <2>1. draft[s][j] = NONE \/ draft[t][j] = NONE
    BY DEF Inv, Exclusive
  <2> QED BY <1>5, <2>1
<1>11. UNCHANGED <<market, recorded, runs, table>> /\ started' \in Nat
  BY DEF ToWrite
<1> QED BY <1>5, <1>6, <1>8, <1>9, <1>10, <1>11, SessionSteps

LEMMA InsertOutcomeInv ==
    ASSUME Inv, NEW s \in Sessions, InsertOutcome(s)
    PROVE  Inv'
<1> DEFINE k == JobKey(s)
           row == [View(s, k) EXCEPT !.outcome = sess[s].outcome]
<1>1. ToWrite(s, sess[s], k) /\ sess[s].existing = NONE
  BY WriteFacts DEF InsertOutcome
<1>2. draft' = [draft EXCEPT ![s][k] = row] /\ NextJob(s)
      /\ UNCHANGED <<market, recorded, runs, table, started>>
  BY DEF InsertOutcome
<1> HIDE DEF k
<1>3. draft[s][k] # NONE /\ table[k] = NONE
  BY <1>1 DEF ToWrite
<1>4. sess[s].outcome \in OutcomeRow /\ OutcomeOk(sess[s].outcome, k[2], market)
  BY <1>1 DEF ToWrite, WriteOk
<1>5. \A t \in Sessions \ {s} : draft[t][k] = NONE
  BY <1>1, <1>3 DEF Inv, Exclusive, ToWrite
<1> QED BY <1>1, <1>2, <1>3, <1>4, <1>5, RowIsWritten

\* A back-fill writes onto the newest row there is, and only where it has a
\* figure of its own.
LEMMA BackfillOutcomeInv ==
    ASSUME Inv, NEW s \in Sessions, BackfillOutcome(s)
    PROVE  Inv'
<1> DEFINE r == sess[s]
           k == JobKey(s)
           p == backfill_tri_returns(View(s, k).outcome, r.existing, r.outcome)
           row == [View(s, k) EXCEPT !.outcome = p]
<1>1. ToWrite(s, r, k) /\ r.existing # NONE /\ NextJob(s)
      /\ UNCHANGED <<market, recorded, runs, table, started>>
  BY WriteFacts DEF BackfillOutcome, Backfills
<1>2. /\ Writes(s) => draft' = [draft EXCEPT ![s][k] = row]
      /\ Writes(s) => \A t \in Sessions \ {s} : draft[t][k] = NONE
      /\ ~Writes(s) => draft' = draft
  BY DEF BackfillOutcome, HeldBy
<1> HIDE DEF k
<1>3. /\ DraftOk(r, draft[s], table, market) /\ draft[s] \in [Key -> Row \cup {NONE}]
      /\ table \in [Key -> Row \cup {NONE}]
  BY SessionFacts
<1>4. \A j \in Key : draft[s][j] # NONE => draft[s][j].outcome # NONE
  BY <1>1 DEF ToWrite
<1>5. CASE Writes(s)
  <2>1. k \in Key /\ k[2] = r.job[1] /\ View(s, k) # NONE
    BY <1>1 DEF ToWrite
  <2>2. View(s, k) \in Row /\ View(s, k).outcome # NONE
    BY <1>4, <2>1, ViewFacts DEF View
  <2>3. View(s, k).outcome \in OutcomeRow /\ OutcomeOk(View(s, k).outcome, k[2], market)
    BY <2>1, <2>2, ViewFacts DEF Row
  <2>4. /\ r.outcome \in OutcomeRow /\ Supported(r.outcome, k[2], market)
        /\ r.existing \in OutcomeRow /\ Keeps(r.existing, r.outcome)
    BY <1>1, <2>1 DEF ToWrite, WriteOk, OutcomeOk
  <2>5. p \in OutcomeRow /\ OutcomeOk(p, k[2], market) /\ Untouched(View(s, k).outcome, p)
    BY <2>3, <2>4, BackfillIsOk
  <2> HIDE DEF p
  <2>6. table[k] # NONE => /\ View(s, k).decision = table[k].decision
                           /\ View(s, k) = table[k] \/ Untouched(table[k].outcome, View(s, k).outcome)
    BY <1>3, <2>1 DEF View, DraftOk
  <2>7. table[k] # NONE => Untouched(table[k].outcome, p)
    <3>1. SUFFICES ASSUME table[k] # NONE, Untouched(table[k].outcome, View(s, k).outcome)
                   PROVE  Untouched(table[k].outcome, p)
      BY <2>5, <2>6
    <3>2. table[k].outcome \in OutcomeRow
      BY <1>3, <2>1, <3>1 DEF Inv, CommittedOk, Row
    <3>3. DOMAIN table[k].outcome = DOMAIN View(s, k).outcome
      BY <2>3, <3>2 DEF OutcomeRow
    <3> HIDE DEF row
    <3> QED BY <2>5, <3>1, <3>3 DEF Untouched
  <2>8. /\ draft' = [draft EXCEPT ![s][k] = row] /\ row = [View(s, k) EXCEPT !.outcome = p]
        /\ \A t \in Sessions \ {s} : draft[t][k] = NONE
    BY <1>2, <1>5 DEF p
  <2>9. table[k] # NONE => View(s, k).decision = table[k].decision
    BY <2>6
  <2>10. NextJob(s) /\ UNCHANGED <<market, recorded, runs, table, started>>
    BY <1>1
  <2> HIDE DEF row
  <2> QED BY <1>1, <2>5, <2>7, <2>8, <2>9, <2>10, RowIsWritten
<1>6. CASE ~Writes(s)
  <2>1. DraftDone(r, draft[s], table, market)
    BY <1>3, <1>4 DEF DraftDone, DraftOk
  <2>2. PICK q \in TakeUp(r) : sess' = [sess EXCEPT ![s] = q]
    BY <1>1 DEF NextJob
  <2>3. StepOk(q, market) /\ PlacedOk(q, draft[s], table) /\ DraftOk(q, draft[s], table, market)
    BY <1>1, <2>1, TakenUp DEF ToWrite
  <2>4. UNCHANGED <<market, recorded, runs, table, draft>> /\ started' \in Nat
    BY <1>1, <1>2, <1>6 DEF ToWrite
  <2> QED BY <2>2, <2>3, <2>4, SessionMoves
<1> QED BY <1>5, <1>6

\* What is committed replaces what it continues: the other sessions hold none
\* of these keys, and a row they rely on is still there.
LEMMA CommitInv ==
    ASSUME Inv, NEW s \in Sessions, Commit(s)
    PROVE  Inv'
<1> DEFINE r == sess[s]
<1>1. /\ StoredOk /\ CommittedOk(table, runs, market) /\ Exclusive
      /\ \A t \in Sessions : SessionOk(t)
  BY DEF Inv
<1>2. /\ StepOk(r, market) /\ DraftOk(r, draft[s], table, market) /\ r.pc = "commit"
      /\ draft[s] \in [Key -> Row \cup {NONE}] /\ table \in [Key -> Row \cup {NONE}]
  BY SessionFacts DEF Commit
<1>3. /\ table' = [k \in Key |-> View(s, k)] /\ runs' = runs \cup {r.run}
      /\ draft' = [draft EXCEPT ![s] = NoDraft] /\ sess' = [sess EXCEPT ![s] = Idle]
      /\ UNCHANGED <<market, recorded, started>>
  BY DEF Commit
<1>4. /\ draft \in [Sessions -> [Key -> Row \cup {NONE}]] /\ sess = [t \in Sessions |-> sess[t]]
      /\ runs \subseteq Run
  BY <1>1 DEF StoredOk
<1>5. /\ sess'[s] = Idle /\ draft'[s] = NoDraft
      /\ \A t \in Sessions \ {s} : sess'[t] = sess[t] /\ draft'[t] = draft[t]
      /\ sess' = [t \in Sessions |-> sess'[t]]
  BY <1>3, <1>4
<1>6. NoDraft \in [Key -> Row \cup {NONE}] /\ \A k \in Key : NoDraft[k] = NONE
  BY DEF NoDraft
<1>7. \A k \in Key : View(s, k) \in Row \cup {NONE}
  BY <1>2 DEF View
<1>8. table' \in [Key -> Row \cup {NONE}] /\ draft' \in [Sessions -> [Key -> Row \cup {NONE}]]
  BY <1>3, <1>4, <1>6, <1>7
<1>9. runs' \subseteq Run
  BY <1>2, <1>3, <1>4 DEF StepOk
<1>10. StoredOk'
  BY <1>1, <1>3, <1>5, <1>8, <1>9 DEF StoredOk
<1>11. \A k \in Key : /\ table[k] # NONE => table'[k] # NONE
                      /\ draft[s][k] = NONE => table'[k] = table[k]
  BY <1>3 DEF View
<1>12. ASSUME NEW k \in Key, table'[k] # NONE
       PROVE  /\ k[1] \in runs' /\ table'[k].outcome # NONE
              /\ OutcomeOk(table'[k].outcome, k[2], market)
  <2>1. CASE draft[s][k] # NONE
    <3>1. table'[k] = draft[s][k]
      BY <1>3, <2>1 DEF View
    <3>2. draft[s][k].outcome # NONE
      BY <1>2, <2>1 DEF DraftOk, AfterLookup
    <3> QED BY <1>2, <1>3, <2>1, <3>1, <3>2 DEF DraftOk
  <2>2. CASE draft[s][k] = NONE
    BY <1>1, <1>3, <1>11, <1>12, <2>2 DEF CommittedOk
  <2> QED BY <2>1, <2>2
<1>13. CommittedOk(table', runs', market')
  BY <1>3, <1>12 DEF CommittedOk
<1>14. Exclusive'
  BY <1>1, <1>5, <1>6 DEF Exclusive
<1>15. ASSUME NEW t \in Sessions PROVE SessionOk(t)'
  <2>1. CASE t = s
    <3>1. Idle.pc = "idle" /\ Shape(Idle)
      BY DEF Idle, Shape, Fields
    <3>2. /\ StepOk(Idle, market) /\ PlacedOk(Idle, NoDraft, table')
          /\ DraftOk(Idle, NoDraft, table', market)
      BY <1>6, <3>1 DEF StepOk, Pcs, PlacedOk, DraftOk, AfterLookup, AfterLoad
    <3> QED BY <1>3, <1>5, <2>1, <3>2 DEF SessionOk
  <2>2. CASE t # s
    <3>1. /\ StepOk(sess[t], market) /\ PlacedOk(sess[t], draft[t], table)
          /\ DraftOk(sess[t], draft[t], table, market) /\ SessionOk(t)
      BY <1>1 DEF SessionOk
    <3>2. \A k \in Key : draft[t][k] # NONE => table'[k] = table[k]
      BY <1>1, <1>11, <2>2 DEF Exclusive
    <3>3. DraftOk(sess[t], draft[t], table', market)
      BY <3>1, <3>2 DEF DraftOk
    <3>4. /\ sess[t].pc # "idle" => sess[t].run \in Run
          /\ sess[t].pc # "idle" => sess[t].todo \in Seq(SUBSET Job)
          /\ sess[t].pc \notin {"idle", "commit"} => sess[t].job \in Job
      BY <3>1 DEF StepOk
    <3>5. sess[t].pc # "idle" => \A job \in AllOf(sess[t].todo) : KeyOf(sess[t], job) \in Key
      <4>1. SUFFICES ASSUME sess[t].todo \in Seq(SUBSET Job), sess[t].run \in Run,
                            NEW job \in AllOf(sess[t].todo)
                     PROVE  KeyOf(sess[t], job) \in Key
        BY <3>4
      <4>2. PICK n \in DOMAIN sess[t].todo : job \in sess[t].todo[n]
        BY DEF AllOf
      <4>3. job \in Job
        BY <4>1, <4>2
      <4> QED BY <4>1, <4>3, RowFacts
    <3>6. sess[t].pc \in AfterLookup => KeyOf(sess[t], sess[t].job) \in Key
      BY <3>4, RowFacts DEF AfterLookup
    <3>7. PlacedOk(sess[t], draft[t], table')
      BY <1>11, <3>1, <3>5, <3>6 DEF PlacedOk, AfterLookup, AfterLoad
    <3> QED BY <1>3, <1>5, <2>2, <3>1, <3>3, <3>7 DEF SessionOk
  <2> QED BY <2>1, <2>2
<1> QED BY <1>10, <1>13, <1>14, <1>15 DEF Inv

LEMMA ProceedInv ==
    ASSUME Inv, NEW s \in Sessions, Proceed(s) \/ Abort(s)
    PROVE  Inv'
  BY SnapshotAtInv, SnapshotPriorInv, DecideInv, InsertDecisionInv, LoadEntryInv,
     ResolveHorizonInv, ComputeMaxDrawdownInv, InsertOutcomeInv, BackfillOutcomeInv, CommitInv,
     RollbackInv DEF Proceed, UniqueViolation, DeadlockVictim, Abort

\* Every step of every command, and everything stored meanwhile, preserves the
\* invariant.
THEOREM NextInv == Inv /\ [Next]_vars => Inv'
<1> SUFFICES ASSUME Inv, [Next]_vars PROVE Inv'
  OBVIOUS
<1>1. CASE UNCHANGED vars
  BY <1>1 DEF vars, Inv, StoredOk, Exclusive, SessionOk
<1>2. CASE \E s \in Sessions : Start(s) \/ Proceed(s) \/ Abort(s)
  BY <1>2, StartInv, ProceedInv
<1>3. CASE \E series \in Series, day \in Day : IngestPrice(series, day)
  BY <1>3, IngestPriceInv
<1>4. CASE \E i \in Event : RecordEvent(i)
  BY <1>4, RecordEventInv
<1> QED BY <1>1, <1>2, <1>3, <1>4 DEF Next

\* The invariant holds of every behaviour of the walk-forward commands.
THEOREM AlwaysInv == Spec => []Inv
  BY InitInv, NextInv, PTL DEF Spec


-----------------------------------------------------------------------------
(* What the invariant says of what is committed.                           *)

\* Every row flushed and every row committed is a decision with no outcome or
\* with a whole one, whatever the commands of the walk-forward package read
\* between each other's commits.
THEOREM TypesHold == Spec => []TypeOK
<1>1. Inv => TypeOK
  <2> SUFFICES ASSUME Inv PROVE TypeOK
    OBVIOUS
  <2>1. StoredOk /\ \A s \in Sessions : StepOk(sess[s], market)
    BY DEF Inv, SessionOk
  <2> QED BY <2>1 DEF TypeOK, StoredOk, StepOk, Pcs, AfterLookup
<1> QED BY <1>1, AlwaysInv, PTL

\* Every committed decision is of a committed run and has an outcome, and what
\* score_outcome looked up lies on the right side of the decision: the entry
\* close is not later, each horizon's close is in its window, a return is
\* missing exactly where a close is, and the status counts the returns; also
\* for the rows a back-fill wrote onto.
THEOREM WhatIsCommittedIsInWindow == Spec => []OutcomesInWindow
<1>1. Inv => OutcomesInWindow
  <2> SUFFICES ASSUME Inv PROVE OutcomesInWindow
    OBVIOUS
  <2>1. CommittedOk(table, runs, market)
    BY DEF Inv
  <2>2. ASSUME NEW k \in Key, table[k] # NONE
        PROVE  k[1] \in runs /\ table[k].outcome # NONE /\ InWindow(table[k].outcome, k[2])
    BY <2>1, <2>2 DEF CommittedOk, OutcomeOk
  <2> QED BY <2>2 DEF OutcomesInWindow, InWindow
<1> QED BY <1>1, AlwaysInv, PTL

\* The returns and the drawdown score_outcome writes are those of the value of
\* the holding: cumulative_split_factor neither misses nor counts twice a split
\* recorded when the row was scored, on whichever side of the decision, of a
\* horizon's close or of the last day it falls.
THEOREM ReturnsAreOfTheHolding == Spec => []SplitNeutral
<1>1. Inv => SplitNeutral
  <2> SUFFICES ASSUME Inv, NEW s \in Sessions, sess[s].pc = "write"
               PROVE  LET r == sess[s]
                          o == r.outcome
                      IN  /\ FreshEntry(o, Date(s)) => \A h \in Scored(o.stock_return) : Neutral(r, h)
                          /\ o.max_drawdown_pct # NONE
                                  /\ TrueSplits(Date(s),
                                                Max({o.price_date[h] : h \in Scored(o.stock_return)}))
                                         \subseteq r.events =>
                                o.max_drawdown_pct =
                                    Min({0} \cup {Return(TrueValue(p[1]), TrueValue(p[2])) :
                                            p \in {q \in r.days \X r.days : q[1] < q[2]}})
    BY DEF SplitNeutral
  <2> DEFINE r == sess[s]
             o == r.outcome
             T == r.job[1]
             end == Max({o.price_date[h] : h \in Scored(o.stock_return)})
  <2>1. StepOk(r, market)
    BY SessionFacts
  <2>2. WriteOk(r, market) /\ r.job \in Job /\ Date(s) = T
    BY <2>1 DEF StepOk, Date
  <2>3. T \in Int
    BY <2>2, DateFacts DEF Job
  <2>4. r.events \subseteq {i \in Event : Kind(i) = "SPLIT"} /\ InWindow(o, T)
    BY <2>2 DEF WriteOk, OutcomeOk
  <2>5. \A h \in Horizon :
            o.stock_return[h] = StockReturn(T, r.events, o.entry_price_date, o.price_date[h])
    BY <2>2 DEF WriteOk
  <2>6. ASSUME FreshEntry(o, T), NEW h \in Scored(o.stock_return),
               TrueSplits(o.entry_price_date, o.price_date[h]) \subseteq r.events
        PROVE  o.stock_return[h]
                   = Return(TrueValue(o.entry_price_date), TrueValue(o.price_date[h]))
    <3>1. h \in Horizon /\ o.stock_return[h] # NONE
      BY DEF Scored
    <3>2. /\ o.entry_price_date \in Day /\ o.entry_price_date <= T
          /\ o.price_date[h] \in Day
          /\ o.price_date[h] \in T + Months[h] .. T + Months[h] + Lookahead
      BY <2>4, <3>1 DEF InWindow
    <3>3. T <= o.price_date[h]
      BY <2>3, <3>1, <3>2, HorizonFacts
    <3>4. TrueSplits(o.entry_price_date, T) = {}
      BY <2>6 DEF FreshEntry
    <3> HIDE DEF o, T, r
    <3> QED BY <2>3, <2>4, <2>5, <2>6, <3>1, <3>2, <3>3, <3>4, StockReturnIsGain
  <2>7. FreshEntry(o, T) => \A h \in Scored(o.stock_return) : Neutral(r, h)
    BY <2>6 DEF Neutral
  <2>8. ASSUME o.max_drawdown_pct # NONE, TrueSplits(T, end) \subseteq r.events
        PROVE  o.max_drawdown_pct =
                   Min({0} \cup {Return(TrueValue(p[1]), TrueValue(p[2])) :
                           p \in {q \in r.days \X r.days : q[1] < q[2]}})
    <3>1. /\ r.days \subseteq Day /\ end \in Int
          /\ \A d \in r.days : T <= d /\ d <= end
          /\ o.max_drawdown_pct = max_drawdown_pct(r.events, r.days, end)
      BY <2>2, <2>8 DEF WriteOk
    <3> HIDE DEF end, o, T, r
    <3> QED BY <2>3, <2>4, <2>8, <3>1, DrawdownIsOfTheHolding
  <2> QED BY <2>2, <2>7, <2>8
<1> QED BY <1>1, AlwaysInv, PTL

\* "Immutable once created": no command, re-run, replay, back-fill, failure or
\* deadlock changes a decision once committed, or anything of its outcome but
\* the total-return figures, of which none is lost.
THEOREM CommittedStands == Spec => Frozen
<1> DEFINE Stands == \A k \in Key : table[k] # NONE =>
               /\ table'[k] # NONE
               /\ table'[k].decision = table[k].decision
               /\ Untouched(table[k].outcome, table'[k].outcome)
<1>1. ASSUME UNCHANGED table PROVE Stands
  BY <1>1 DEF Untouched
<1>2. ASSUME Inv, NEW s \in Sessions, Commit(s) PROVE Stands
  <2>1. DraftOk(sess[s], draft[s], table, market)
    BY <1>2, SessionFacts
  <2>2. ASSUME NEW k \in Key, table[k] # NONE
        PROVE  /\ table'[k] # NONE
               /\ table'[k].decision = table[k].decision
               /\ Untouched(table[k].outcome, table'[k].outcome)
    <3>1. table'[k] = View(s, k)
      BY <1>2 DEF Commit
    <3>2. CASE draft[s][k] = NONE
      BY <2>2, <3>1, <3>2 DEF View, Untouched
    <3>3. CASE draft[s][k] # NONE
      BY <2>1, <2>2, <3>1, <3>3 DEF View, DraftOk
    <3> QED BY <3>2, <3>3
  <2> QED BY <2>2
<1>3. Inv /\ Next => Stands
  <2>1. ASSUME NEW s \in Sessions, Start(s) PROVE UNCHANGED table
    BY <2>1 DEF Start, run_walk_forward, run_bulk_walk_forward, replay_deterministic_baseline,
                backfill_walk_forward_tri, Begin
  <2>2. ASSUME NEW s \in Sessions, Proceed(s) \/ Abort(s), ~Commit(s) PROVE UNCHANGED table
    BY <2>2 DEF Proceed, Abort, SnapshotAt, SnapshotPrior, Decide, InsertDecision, UniqueViolation,
                LoadEntry, ResolveHorizon, ComputeMaxDrawdown, InsertOutcome, BackfillOutcome,
                DeadlockVictim, Rollback
  <2>3. ASSUME NEW series \in Series, NEW day \in Day, IngestPrice(series, day)
        PROVE  UNCHANGED table
    BY <2>3 DEF IngestPrice
  <2>4. ASSUME NEW i \in Event, RecordEvent(i) PROVE UNCHANGED table
    BY <2>4 DEF RecordEvent
  <2> HIDE DEF Stands
  <2> QED BY <1>1, <1>2, <2>1, <2>2, <2>3, <2>4 DEF Next
<1>4. Inv /\ [Next]_vars => [Stands]_vars
  BY <1>3
<1> QED BY <1>4, AlwaysInv, PTL DEF Spec, Frozen

-----------------------------------------------------------------------------
(* What a run leaves to compare.  While nothing is stored, whatever it reads *)
(* is a function of the date, so both decisions of a date are made of, and   *)
(* scored with, the same closes and events; and a quiet run has read what it *)
(* would read now.                                                           *)

TradesOn(T) == {i \in list_up_to(T) : Timeline[i].date = T}
DecisionOn(T, source) ==
    freeze(source, get_portfolio_as_of(T, T), get_portfolio_as_of(T - 1, T), TradesOn(T))

EntryOn(T) == [x \in Series |-> resolve_entry_price(x, T)]
TurnOn(T, h) ==
    ScoreHorizon(T, all_splits, EntryOn(T),
                 [x \in Series |-> resolve_horizon_price(x, T + Months[h])])
TurnsOn(T) == [h \in Horizon |-> TurnOn(T, h)]
LastOn(T) == IF DatesOf(TurnsOn(T)) = {} THEN NONE ELSE Max(DatesOf(TurnsOn(T)))
OutcomeOn(T) ==
    Outcome(EntryOn(T)[Stock], TurnsOn(T),
            DrawdownOf(all_splits, DaysTo(T, LastOn(T)), LastOn(T)))

\* All of it, for every date.
Readings ==
    [at      |-> [T \in DecisionDate |-> get_portfolio_as_of(T, T)],
     prior   |-> [T \in DecisionDate |-> get_portfolio_as_of(T - 1, T)],
     trades  |-> [T \in DecisionDate |-> TradesOn(T)],
     splits  |-> all_splits,
     entry   |-> [T \in DecisionDate |-> EntryOn(T)],
     turns   |-> [T \in DecisionDate |-> TurnsOn(T)],
     outcome |-> [T \in DecisionDate |-> OutcomeOn(T)]]

\* The jobs a run has done, is doing or has still to do.
Done(D) == {<<k[2], k[3]>> : k \in {j \in Key : D[j] # NONE}}
Involved(r, D) == Done(D) \cup AllOf(r.todo) \cup (IF r.pc = "commit" THEN {} ELSE {r.job})

\* A run has its number for itself until it commits, and works on both
\* decisions of a date or on none.
RunOk(r, D, R) ==
    r.pc # "idle" /\ r.cmd = "run" =>
        /\ r.run \notin R
        /\ \A T \in DecisionDate : <<T, "ACTUAL">> \in Involved(r, D) <=>
                                   <<T, "HOLD_BASELINE">> \in Involved(r, D)
        /\ r.pc = "commit" => r.todo = <<>>
        /\ r.pc \in AfterLookup => D[KeyOf(r, r.job)] # NONE

\* What a quiet run has read, and what it has drafted: W are the readings.
ReadOk(r, W) ==
    LET T == r.job[1]
    IN  /\ r.pc \in {"prior", "decide"} => r.at = W.at[T]
        /\ r.pc = "decide" => r.prior = W.prior[T]
        /\ r.pc = "insert" => r.decision = freeze(r.job[2], W.at[T], W.prior[T], W.trades[T])
        /\ r.pc \in AfterLoad => r.existing \in {NONE, W.outcome[T]}
        /\ r.pc \in {"horizon", "drawdown"} =>
              /\ r.events = W.splits /\ r.entry = W.entry[T]
              /\ \A h \in 1..Len(r.turns) : r.turns[h] = W.turns[T][h]
        /\ r.pc = "write" => r.outcome = W.outcome[T]
DraftedOk(D, W) ==
    \A k \in Key : D[k] # NONE =>
        /\ D[k].decision = freeze(k[3], W.at[k[2]], W.prior[k[2]], W.trades[k[2]])
        /\ D[k].outcome \in {NONE, W.outcome[k[2]]}
QuietOk(r, D, W) ==
    r.pc # "idle" /\ r.cmd = "run" /\ r.quiet => ReadOk(r, W) /\ DraftedOk(D, W)

Alone ==
    \A s, t \in Sessions :
        s # t /\ sess[s].pc # "idle" /\ sess[s].cmd = "run" /\ sess[t].pc # "idle"
            => sess[s].run # sess[t].run

PairInv ==
    /\ Alone
    /\ \A s \in Sessions : RunOk(sess[s], draft[s], runs) /\ QuietOk(sess[s], draft[s], Readings)

-----------------------------------------------------------------------------
(* The two decisions of a date.                                            *)

LEMMA NoTradesNoMove ==
    ASSUME NEW T \in Int, TradesOn(T) = {}
    PROVE  get_portfolio_as_of(T, T) = get_portfolio_as_of(T - 1, T)
<1>1. \A i \in Event : Timeline[i].date \in Int
  BY EventFacts
<1>2. list_up_to(T) = list_up_to(T - 1)
  BY <1>1 DEF TradesOn, list_up_to
<1> QED BY <1>2 DEF get_portfolio_as_of

\* The trades of a day are the last events of a replay up to that day, if no split
\* announced for later is applied.
LEMMA DayMoves ==
    ASSUME NEW T \in Int, ~get_portfolio_as_of(T, T).warned, NoneAnnounced(T)
    PROVE  get_portfolio_as_of(T, T).quantity
               = get_portfolio_as_of(T - 1, T).quantity + Net(TradesOn(T))
<1> DEFINE events == list_up_to(T) \cup splits_as_of(T) \cup opening_adjustments
           X == TradesOn(T)
<1>1. \A i \in Event : /\ Timeline[i].date \in Int /\ i \in Int
                      /\ Kind(i) \in {"OPENING", "SPLIT", "BUY", "SELL"}
  BY EventType DEF Kind
<1>2. events \in SUBSET Event /\ X \in SUBSET events
      /\ \A i \in X : Kind(i) \in {"BUY", "SELL"} /\ Timeline[i].date = T
  BY DEF list_up_to, splits_as_of, opening_adjustments, TradesOn
<1>3. events \ X = list_up_to(T - 1) \cup splits_as_of(T) \cup opening_adjustments
  BY <1>1 DEF list_up_to, splits_as_of, opening_adjustments, TradesOn
<1>4. /\ get_portfolio_as_of(T, T) = replay_trades(events)
      /\ get_portfolio_as_of(T - 1, T) = replay_trades(events \ X)
  BY <1>3 DEF get_portfolio_as_of
<1>5. ~replay_trades(events).warned
  BY <1>4
<1>6. \A i \in events : Kind(i) # "OPENING"
  <2> HIDE DEF events
  <2> QED BY <1>2, <1>5, OpeningsWarn
<1>7. ASSUME NEW j \in events \ X
      PROVE  Timeline[j].date < T \/ (Timeline[j].date = T /\ Kind(j) = "SPLIT")
  <2>1. CASE j \in list_up_to(T)
    BY <1>1, <1>2, <1>7, <2>1 DEF list_up_to, TradesOn
  <2>2. CASE j \in splits_as_of(T)
    <3>1. Timeline[j].date <= T /\ Kind(j) = "SPLIT" /\ j \in Event
      BY <2>2 DEF NoneAnnounced, splits_as_of
    <3> QED BY <1>1, <3>1
  <2>3. CASE j \in opening_adjustments
    BY <1>6, <2>3 DEF opening_adjustments
  <2> QED BY <1>7, <2>1, <2>2, <2>3
<1>8. ASSUME NEW i \in X, NEW j \in events \ X PROVE j < i
  <2>1. i \in Event /\ j \in Event /\ i # j /\ Kind(i) \in {"BUY", "SELL"}
        /\ Timeline[i].date = T
    BY <1>2
  <2>2. Priority(Kind(i)) = 2
    BY <2>1 DEF Priority
  <2>3. Timeline[j].date < T \/ (Timeline[j].date = T /\ Priority(Kind(j)) = 1)
    BY <1>7 DEF Priority
  <2>4. ~(i < j)
    BY <1>1, <2>1, <2>2, <2>3, TimelineAssumption DEF Kind
  <2> QED BY <1>1, <2>1, <2>4
<1> HIDE DEF events, X
<1>9. replay_trades(events).quantity = replay_trades(events \ X).quantity + Net(X)
  BY <1>2, <1>5, <1>8, LastTradesAdd
<1> QED BY <1>4, <1>9 DEF X

\* An action names the difference in quantity, and the impact in money of a pair
\* nobody warned about is that of the trades of the day.
LEMMA DecisionsCompare ==
    ASSUME NEW T \in Int, NEW actual, NEW hold, actual.decision = DecisionOn(T, "ACTUAL"),
           hold.decision = DecisionOn(T, "HOLD_BASELINE"), actual.outcome = hold.outcome
    PROVE  Comparable(actual, hold, T)
<1> DEFINE at == get_portfolio_as_of(T, T)
           prior == get_portfolio_as_of(T - 1, T)
           a == actual.decision
           q == <<hold.decision.quantity_held, a.quantity_held>>
<1>1. at \in Position /\ prior \in Position
  BY ReplayIsPosition DEF get_portfolio_as_of
<1>2. TradesOn(T) = {} => at = prior
  BY NoTradesNoMove
<1>3. ~at.warned /\ NoneAnnounced(T) => at.quantity = prior.quantity + Net(TradesOn(T))
  BY DayMoves
<1>4. TradesOn(T) \in SUBSET Event
  BY DEF TradesOn, list_up_to
<1>5. a = ActualDecision(at, prior, TradesOn(T)) /\ hold.decision = HoldDecision(at, prior)
  BY DEF DecisionOn, freeze
<1> HIDE DEF at, prior
<1>6. /\ a.action = classify_actual_action(prior.quantity, at.quantity, TradesOn(T))
      /\ a.quantity_held = at.quantity /\ a.evidence = TradesOn(T)
      /\ a.data_quality_status = _symbol_data_quality(at)
      /\ hold.decision.quantity_held = prior.quantity
  BY <1>5 DEF ActualDecision, HoldDecision
<1>7. at.quantity \in Nat /\ prior.quantity \in Nat
  BY <1>1 DEF Position
<1>8. /\ a.action = "BUY"    <=> 0 = q[1] /\ q[1] < q[2]
      /\ a.action = "ADD"    <=> 0 < q[1] /\ q[1] < q[2]
      /\ a.action = "REDUCE" <=> 0 < q[2] /\ q[2] < q[1]
      /\ a.action = "EXIT"   <=> 0 = q[2] /\ q[2] < q[1]
  <2>1. q[1] = prior.quantity /\ q[2] = at.quantity
    BY <1>6
  <2> DEFINE b == prior.quantity
             c == at.quantity
             t == TradesOn(T)
  <2>2. b \in Nat /\ c \in Nat /\ (t = {} => b = c)
    BY <1>2, <1>7
  <2>3. a.action = classify_actual_action(b, c, t) /\ q[1] = b /\ q[2] = c
    BY <1>6, <2>1
  <2> HIDE DEF a, b, c, t, q
  <2>4. CASE t = {}
    <3>1. a.action = "HOLD"
      BY <2>3, <2>4 DEF classify_actual_action
    <3> QED BY <2>2, <2>3, <2>4, <3>1
  <2>5. CASE t # {}
    BY <2>2, <2>3, <2>5 DEF classify_actual_action
  <2> QED BY <2>4, <2>5
<1>9. ASSUME _exclusion_reason(actual) = NONE, NoneAnnounced(T),
             NEW h \in Scored(actual.outcome.stock_return)
      PROVE  decision_dollar_impact(actual, hold, h) =
                 Net(a.evidence) * Price[Stock][actual.outcome.entry_price_date]
                     * actual.outcome.stock_return[h]
  <2>1. a.data_quality_status = "CLEAN"
    BY <1>9, NoneAssumption DEF _exclusion_reason
  <2>2. ~at.warned
    BY <1>6, <2>1 DEF _symbol_data_quality
  <2>3. at.quantity - prior.quantity = Net(TradesOn(T))
    BY <1>3, <1>4, <1>7, <1>9, <2>2, NetIsInt
  <2>4. a.quantity_held - hold.decision.quantity_held = Net(a.evidence)
    BY <1>6, <2>3
  <2> QED BY <2>4 DEF decision_dollar_impact
<1> HIDE DEF q
<1>10. q = <<hold.decision.quantity_held, actual.decision.quantity_held>>
  BY DEF q
<1> QED BY <1>8, <1>9, <1>10 DEF Comparable

-----------------------------------------------------------------------------
(* Every step keeps the pairs.                                             *)

\* While nothing is stored, the readings stay.
LEMMA ReadingsStay ==
    ASSUME UNCHANGED <<market, recorded>>
    PROVE  Readings' = Readings
<1>1. \A T : list_up_to(T)' = list_up_to(T) /\ splits_as_of(T)' = splits_as_of(T)
  BY DEF list_up_to, splits_as_of
<1>2. opening_adjustments' = opening_adjustments /\ all_splits' = all_splits
  BY DEF opening_adjustments, all_splits
<1>3. \A T, c : get_portfolio_as_of(T, c)' = get_portfolio_as_of(T, c)
  BY <1>1, <1>2 DEF get_portfolio_as_of
<1>4. \A T : TradesOn(T)' = TradesOn(T)
  BY <1>1 DEF TradesOn
<1>5. \A x, T : resolve_entry_price(x, T)' = resolve_entry_price(x, T)
  BY DEF resolve_entry_price
<1>6. \A x, a, b : Stored(x, a, b)' = Stored(x, a, b)
  BY DEF Stored
<1>7. \A x, T : resolve_horizon_price(x, T)' = resolve_horizon_price(x, T)
  BY <1>6 DEF resolve_horizon_price
<1>8. \A T : EntryOn(T)' = EntryOn(T)
  BY <1>5 DEF EntryOn
<1>9. \A T, h : TurnOn(T, h)' = TurnOn(T, h)
  BY <1>2, <1>7, <1>8 DEF TurnOn
<1>10. \A T : TurnsOn(T)' = TurnsOn(T)
  BY <1>9 DEF TurnsOn
<1>11. \A T : LastOn(T)' = LastOn(T)
  BY <1>10 DEF LastOn
<1>12. \A T, e : DaysTo(T, e)' = DaysTo(T, e)
  BY <1>6 DEF DaysTo
<1>13. \A T : OutcomeOn(T)' = OutcomeOn(T)
  BY <1>2, <1>8, <1>10, <1>11, <1>12 DEF OutcomeOn
<1> QED BY <1>2, <1>3, <1>4, <1>8, <1>10, <1>13 DEF Readings

\* A step of one session: of the command it runs, or back to idle.
LEMMA PairsMove ==
    ASSUME Inv, PairInv, NEW s \in Sessions, NEW q, NEW E,
           sess' = [sess EXCEPT ![s] = q], draft' = [draft EXCEPT ![s] = E],
           UNCHANGED <<market, recorded, runs>>,
           q.pc # "idle" =>
              \A t \in Sessions \ {s} : sess[t].pc # "idle" /\ "run" \in {q.cmd, sess[t].cmd}
                                            => sess[t].run # q.run,
           RunOk(q, E, runs), QuietOk(q, E, Readings)
    PROVE  PairInv'
<1>1. /\ draft \in [Sessions -> [Key -> Row \cup {NONE}]] /\ sess = [t \in Sessions |-> sess[t]]
  BY DEF Inv, StoredOk
<1>2. /\ sess'[s] = q /\ draft'[s] = E
      /\ \A t \in Sessions \ {s} : sess'[t] = sess[t] /\ draft'[t] = draft[t]
  BY <1>1
<1>3. Readings' = Readings /\ runs' = runs
  BY ReadingsStay
<1>4. Alone'
  BY <1>2 DEF PairInv, Alone
<1>5. ASSUME NEW t \in Sessions
      PROVE  RunOk(sess'[t], draft'[t], runs') /\ QuietOk(sess'[t], draft'[t], Readings')
  BY <1>2, <1>3 DEF PairInv
<1> QED BY <1>4, <1>5 DEF PairInv

\* What a session that runs alone sees of its keys is its own.
LEMMA PairFacts ==
    ASSUME Inv, PairInv, NEW s \in Sessions
    PROVE  /\ RunOk(sess[s], draft[s], runs) /\ QuietOk(sess[s], draft[s], Readings)
           /\ StepOk(sess[s], market) /\ draft[s] \in [Key -> Row \cup {NONE}]
           /\ DraftOk(sess[s], draft[s], table, market) /\ PlacedOk(sess[s], draft[s], table)
           /\ market \subseteq Series \X Day
           /\ sess[s].pc # "idle" /\ sess[s].cmd = "run" =>
                 \A k \in Key : k[1] = sess[s].run => table[k] = NONE
           /\ sess[s].pc # "idle" =>
                 \A t \in Sessions \ {s} :
                    sess[t].pc # "idle" /\ "run" \in {sess[s].cmd, sess[t].cmd}
                        => sess[t].run # sess[s].run
<1>1. CommittedOk(table, runs, market)
  BY DEF Inv
<1>2. RunOk(sess[s], draft[s], runs) /\ QuietOk(sess[s], draft[s], Readings) /\ Alone
  BY DEF PairInv
<1>3. sess[s].pc # "idle" /\ sess[s].cmd = "run" =>
          \A k \in Key : k[1] = sess[s].run => table[k] = NONE
  BY <1>1, <1>2 DEF RunOk, CommittedOk
<1>4. sess[s].pc # "idle" =>
                 \A t \in Sessions \ {s} :
                    sess[t].pc # "idle" /\ "run" \in {sess[s].cmd, sess[t].cmd}
                        => sess[t].run # sess[s].run
  BY <1>2 DEF Alone
<1> QED BY <1>2, <1>3, <1>4, SessionFacts

\* A step within the work on a job: what is drafted stays.
LEMMA WithinJob ==
    ASSUME NEW r, NEW q, NEW D, NEW R, RunOk(r, D, R), r.pc \notin {"idle", "commit"},
           q.pc # "commit", q.cmd = r.cmd, q.run = r.run, q.job = r.job, q.todo = r.todo,
           q.pc \in AfterLookup /\ q.cmd = "run" => D[KeyOf(r, r.job)] # NONE
    PROVE  RunOk(q, D, R)
<1>1. Involved(q, D) = Involved(r, D) /\ KeyOf(q, q.job) = KeyOf(r, r.job)
  BY DEF Involved, KeyOf
<1> QED BY <1>1 DEF RunOk

\* The readings of a date.
LEMMA ReadingsOf ==
    ASSUME NEW T \in DecisionDate
    PROVE  /\ Readings.at[T] = get_portfolio_as_of(T, T)
           /\ Readings.prior[T] = get_portfolio_as_of(T - 1, T)
           /\ Readings.trades[T] = TradesOn(T) /\ Readings.splits = all_splits
           /\ Readings.entry[T] = EntryOn(T) /\ Readings.turns[T] = TurnsOn(T)
           /\ Readings.outcome[T] = OutcomeOn(T)
  BY DEF Readings

\* A step of a session within the work on a job.
LEMMA PairsWithin ==
    ASSUME Inv, PairInv, NEW s \in Sessions, NEW q, sess' = [sess EXCEPT ![s] = q],
           UNCHANGED <<market, recorded, runs, draft>>,
           sess[s].pc \notin {"idle", "commit"}, q.pc \notin {"idle", "commit"},
           \A f \in {"cmd", "run", "job", "todo", "quiet"} : q[f] = sess[s][f],
           q.pc \in AfterLookup /\ q.cmd = "run" => draft[s][JobKey(s)] # NONE,
           q.cmd = "run" /\ q.quiet => ReadOk(q, Readings)
    PROVE  PairInv'
<1> DEFINE r == sess[s]
<1>1. /\ RunOk(r, draft[s], runs) /\ QuietOk(r, draft[s], Readings)
      /\ \A t \in Sessions \ {s} :
            sess[t].pc # "idle" /\ "run" \in {r.cmd, sess[t].cmd} => sess[t].run # r.run
  BY PairFacts
<1>2. q.cmd = r.cmd /\ q.run = r.run /\ q.job = r.job /\ q.todo = r.todo /\ q.quiet = r.quiet
  OBVIOUS
<1>3. RunOk(q, draft[s], runs)
  BY <1>1, <1>2, WithinJob, RowFacts
<1>4. QuietOk(q, draft[s], Readings)
  BY <1>1, <1>2 DEF QuietOk
<1>5. draft' = [draft EXCEPT ![s] = draft[s]]
  BY DEF Inv, StoredOk
<1>6. q.pc # "idle" =>
          \A t \in Sessions \ {s} : sess[t].pc # "idle" /\ "run" \in {q.cmd, sess[t].cmd}
                                        => sess[t].run # q.run
  BY <1>1, <1>2
<1> QED BY <1>3, <1>4, <1>5, <1>6, PairsMove

LEMMA SnapshotAtPairs ==
    ASSUME Inv, PairInv, NEW s \in Sessions, SnapshotAt(s)
    PROVE  PairInv'
<1> DEFINE r == sess[s]
           T == r.job[1]
           at == get_portfolio_as_of(T, T)
           q == [r EXCEPT !.pc = "prior", !.at = at]
<1>1. StepOk(r, market) /\ r.pc = "at"
  BY SessionFacts DEF SnapshotAt
<1>2. sess' = [sess EXCEPT ![s] = q] /\ UNCHANGED <<market, recorded, runs, draft>>
  BY DEF SnapshotAt, Date
<1>3. T \in DecisionDate
  BY <1>1 DEF StepOk, Job
<1>4. at = Readings.at[T]
  BY <1>3, ReadingsOf
<1> HIDE DEF at
<1>5. Shape(q) /\ q.pc = "prior" /\ q.at = at
      /\ \A f \in {"cmd", "run", "job", "todo", "quiet"} : q[f] = r[f]
  BY <1>1 DEF StepOk, Shape, Fields
<1> HIDE DEF q
<1>6. ReadOk(q, Readings)
  BY <1>4, <1>5 DEF ReadOk, AfterLoad
<1> QED BY <1>1, <1>2, <1>5, <1>6, PairsWithin DEF AfterLookup

LEMMA SnapshotPriorPairs ==
    ASSUME Inv, PairInv, NEW s \in Sessions, SnapshotPrior(s)
    PROVE  PairInv'
<1> DEFINE r == sess[s]
           T == r.job[1]
           prior == get_portfolio_as_of(T - 1, T)
           at == IF r.cmd = "run" THEN r.at ELSE prior
           q == [r EXCEPT !.pc = "decide", !.prior = prior, !.at = at]
<1>1. StepOk(r, market) /\ r.pc = "prior" /\ QuietOk(r, draft[s], Readings)
  BY PairFacts DEF SnapshotPrior
<1>2. sess' = [sess EXCEPT ![s] = q] /\ UNCHANGED <<market, recorded, runs, draft>>
  BY DEF SnapshotPrior, Date
<1>3. T \in DecisionDate
  BY <1>1 DEF StepOk, Job
<1>4. prior = Readings.prior[T]
  BY <1>3, ReadingsOf
<1>5. r.cmd = "run" /\ r.quiet => at = Readings.at[T]
  BY <1>1 DEF QuietOk, ReadOk
<1> HIDE DEF at, prior
<1>6. Shape(q) /\ q.pc = "decide" /\ q.at = at /\ q.prior = prior
      /\ \A f \in {"cmd", "run", "job", "todo", "quiet"} : q[f] = r[f]
  BY <1>1 DEF StepOk, Shape, Fields
<1> HIDE DEF q
<1>7. q.cmd = "run" /\ q.quiet => ReadOk(q, Readings)
  BY <1>4, <1>5, <1>6 DEF ReadOk, AfterLoad
<1> QED BY <1>1, <1>2, <1>6, <1>7, PairsWithin DEF AfterLookup

LEMMA DecidePairs ==
    ASSUME Inv, PairInv, NEW s \in Sessions, Decide(s)
    PROVE  PairInv'
<1> DEFINE r == sess[s]
           T == r.job[1]
           decision == freeze(r.job[2], r.at, r.prior, TradesOn(T))
           q == IF View(s, JobKey(s)) # NONE THEN At(r, "load")
                ELSE [At(r, "insert") EXCEPT !.decision = decision]
<1>1. /\ StepOk(r, market) /\ r.pc = "decide" /\ QuietOk(r, draft[s], Readings)
      /\ r.cmd = "run" => \A k \in Key : k[1] = r.run => table[k] = NONE
  BY PairFacts DEF Decide
<1>2. sess' = [sess EXCEPT ![s] = q] /\ UNCHANGED <<market, recorded, runs, draft>>
  BY DEF Decide, Date, TradesOn
<1>3. T \in DecisionDate /\ JobKey(s) \in Key /\ JobKey(s)[1] = r.run
  BY <1>1, RowFacts DEF StepOk, Job, KeyOf
<1>4. r.cmd = "run" /\ r.quiet =>
          decision = freeze(r.job[2], Readings.at[T], Readings.prior[T], Readings.trades[T])
  BY <1>1, <1>3, ReadingsOf DEF QuietOk, ReadOk
<1> HIDE DEF decision
<1>5. /\ q.pc \in {"load", "insert"}
      /\ \A f \in {"cmd", "run", "job", "todo", "quiet"} : q[f] = r[f]
      /\ q.pc = "insert" => q.decision = decision
      /\ q.pc = "load" => View(s, JobKey(s)) # NONE
  <2> DEFINE a == At(r, "load")
             b == [At(r, "insert") EXCEPT !.decision = decision]
  <2>1. a.pc = "load" /\ \A f \in {"cmd", "run", "job", "todo", "quiet"} : a[f] = r[f]
    BY DEF At, Idle
  <2>2. /\ b.pc = "insert" /\ b.decision = decision
        /\ \A f \in {"cmd", "run", "job", "todo", "quiet"} : b[f] = r[f]
    BY DEF At, Idle
  <2>3. q = IF View(s, JobKey(s)) # NONE THEN a ELSE b
    OBVIOUS
  <2> HIDE DEF a, b, q
  <2> QED BY <2>1, <2>2, <2>3
<1> HIDE DEF q
<1>6. q.cmd = "run" /\ q.quiet => ReadOk(q, Readings)
  BY <1>4, <1>5 DEF ReadOk, AfterLoad
<1>7. q.pc \in AfterLookup /\ q.cmd = "run" => draft[s][JobKey(s)] # NONE
  BY <1>1, <1>3, <1>5 DEF AfterLookup, View
<1> QED BY <1>1, <1>2, <1>5, <1>6, <1>7, PairsWithin

LEMMA LoadEntryPairs ==
    ASSUME Inv, PairInv, NEW s \in Sessions, LoadEntry(s)
    PROVE  PairInv'
<1> DEFINE r == sess[s]
           T == r.job[1]
           k == JobKey(s)
           existing == View(s, k).outcome
           q == [At(r, "horizon") EXCEPT !.events = all_splits, !.existing = existing,
                                         !.entry = EntryOn(T)]
<1>1. /\ StepOk(r, market) /\ r.pc = "load" /\ QuietOk(r, draft[s], Readings)
      /\ RunOk(r, draft[s], runs)
  BY PairFacts DEF LoadEntry
<1>2. sess' = [sess EXCEPT ![s] = q] /\ UNCHANGED <<market, recorded, runs, draft>>
  BY DEF LoadEntry, Date, EntryOn
<1>3. T \in DecisionDate /\ k \in Key /\ k = KeyOf(r, r.job) /\ k[2] = T
  BY <1>1, RowFacts DEF StepOk, Job, KeyOf
<1>4. r.cmd = "run" => draft[s][k] # NONE
  BY <1>1, <1>3 DEF RunOk, AfterLookup
<1>5. r.cmd = "run" /\ r.quiet => existing \in {NONE, Readings.outcome[T]}
  BY <1>1, <1>3, <1>4 DEF QuietOk, DraftedOk, View
<1> HIDE DEF existing, k
<1>6. /\ q.pc = "horizon" /\ q.existing = existing /\ q.events = all_splits
      /\ q.entry = EntryOn(T) /\ q.turns = <<>>
      /\ \A f \in {"cmd", "run", "job", "todo", "quiet"} : q[f] = r[f]
  BY DEF At, Idle
<1> HIDE DEF q
<1>7. q.cmd = "run" /\ q.quiet => ReadOk(q, Readings)
  <2>1. Readings.splits = all_splits /\ Readings.entry[T] = EntryOn(T)
    BY <1>3, ReadingsOf
  <2>2. Len(q.turns) = 0 /\ 1..Len(q.turns) = {}
    BY <1>6
  <2> QED BY <1>5, <1>6, <2>1, <2>2 DEF ReadOk
<1> QED BY <1>1, <1>2, <1>4, <1>6, <1>7, PairsWithin DEF k

LEMMA ResolveHorizonPairs ==
    ASSUME Inv, PairInv, NEW s \in Sessions, ResolveHorizon(s)
    PROVE  PairInv'
<1> DEFINE r == sess[s]
           T == r.job[1]
           h == Len(r.turns) + 1
           q == NextTurn(r)
<1>1. /\ StepOk(r, market) /\ r.pc = "horizon" /\ QuietOk(r, draft[s], Readings)
      /\ RunOk(r, draft[s], runs)
  BY PairFacts DEF ResolveHorizon
<1>2. sess' = [sess EXCEPT ![s] = q] /\ UNCHANGED <<market, recorded, runs, draft>>
  BY DEF ResolveHorizon, NextTurn, TurnAt, DatesAt, Widest, Date
<1>3. T \in DecisionDate /\ JobKey(s) = KeyOf(r, r.job)
  BY <1>1, RowFacts DEF StepOk, Job
<1>4. r.cmd = "run" => draft[s][JobKey(s)] # NONE
  BY <1>1, <1>3 DEF RunOk, AfterLookup
<1>5. r.turns \in Seq(Turn) /\ Len(r.turns) < Len(Months) /\ Shape(r)
  BY <1>1 DEF StepOk, TurnsOk
<1>6. /\ q.pc \in {"horizon", "drawdown"} /\ q.turns = Append(r.turns, TurnAt(r, h))
      /\ \A f \in {"cmd", "run", "job", "todo", "quiet", "existing", "events", "entry"} :
            q[f] = r[f]
  BY <1>5 DEF NextTurn, Shape, Fields
<1> HIDE DEF q
<1>7. ASSUME q.cmd = "run", q.quiet PROVE ReadOk(q, Readings)
  <2>1. ReadOk(r, Readings) /\ r.cmd = "run"
    BY <1>1, <1>6, <1>7 DEF QuietOk
  <2>2. /\ r.existing \in {NONE, Readings.outcome[T]} /\ r.events = Readings.splits
        /\ r.entry = Readings.entry[T]
        /\ \A j \in 1..Len(r.turns) : r.turns[j] = Readings.turns[T][j]
    BY <1>1, <2>1 DEF ReadOk, AfterLoad
  <2>3. TurnAt(r, h) = TurnOn(T, h)
    BY <1>3, <2>2, ReadingsOf DEF TurnAt, TurnOn, DatesAt
  <2>4. h \in Horizon /\ Readings.turns[T] = TurnsOn(T)
    <3>1. Horizon = 1..Len(Months) /\ Len(Months) \in Nat /\ Len(r.turns) \in Nat
      BY <1>5, WalkForwardAssumption DEF Horizon
    <3> QED BY <1>3, <1>5, <3>1, ReadingsOf
  <2>5. TurnAt(r, h) = Readings.turns[T][h]
    BY <2>3, <2>4 DEF TurnsOn
  <2> DEFINE t == TurnAt(r, h)
  <2> HIDE DEF t
  <2>6. q.turns = Append(r.turns, t) /\ t = Readings.turns[T][h]
    BY <1>6, <2>5 DEF t
  <2>7. /\ Len(q.turns) = h /\ q.turns[h] = t /\ h \in Nat
        /\ \A j \in 1..Len(r.turns) : q.turns[j] = r.turns[j]
    BY <1>5, <2>6
  <2>8. ASSUME NEW j \in 1..Len(q.turns) PROVE q.turns[j] = Readings.turns[T][j]
    <3>1. Len(r.turns) \in Nat /\ j \in 1..h
      BY <1>5, <2>7
    <3>2. CASE j = h
      BY <2>6, <2>7, <3>2
    <3>3. CASE j # h
      <4>1. j \in 1..Len(r.turns)
        BY <3>1, <3>3
      <4> QED BY <2>2, <2>7, <4>1
    <3> QED BY <3>2, <3>3
  <2>9. q.job = r.job /\ q.existing = r.existing /\ q.events = r.events /\ q.entry = r.entry
    BY <1>6
  <2> HIDE DEF h
  <2> QED BY <1>6, <2>2, <2>8, <2>9 DEF ReadOk, AfterLoad
<1>8. \A f \in {"cmd", "run", "job", "todo", "quiet"} : q[f] = r[f]
  BY <1>6
<1> QED BY <1>1, <1>2, <1>4, <1>6, <1>7, <1>8, PairsWithin

\* The job of a drafted key is done.
LEMMA DoneWith ==
    ASSUME NEW D, NEW E, NEW k \in Key, E[k] # NONE, \A j \in Key \ {k} : E[j] = D[j]
    PROVE  Done(E) = Done(D) \cup {<<k[2], k[3]>>}
  BY DEF Done

LEMMA InsertDecisionPairs ==
    ASSUME Inv, PairInv, NEW s \in Sessions, InsertDecision(s)
    PROVE  PairInv'
<1> DEFINE r == sess[s]
           k == JobKey(s)
           row == [decision |-> r.decision, outcome |-> NONE]
           E == [draft[s] EXCEPT ![k] = row]
           q == At(r, "load")
<1>1. /\ StepOk(r, market) /\ r.pc = "insert" /\ QuietOk(r, draft[s], Readings)
      /\ RunOk(r, draft[s], runs) /\ draft[s] \in [Key -> Row \cup {NONE}]
      /\ \A t \in Sessions \ {s} :
            sess[t].pc # "idle" /\ "run" \in {r.cmd, sess[t].cmd} => sess[t].run # r.run
  BY PairFacts DEF InsertDecision
<1>2. /\ k \in Key /\ k = KeyOf(r, r.job) /\ r.job \in Job
      /\ k[2] = r.job[1] /\ k[3] = r.job[2] /\ r.job = <<k[2], k[3]>>
  BY <1>1, RowFacts DEF StepOk, KeyOf, Job
<1>3. row \in Row /\ row.outcome = NONE /\ row.decision = r.decision /\ row # NONE
  BY <1>1, RowFacts DEF StepOk, Row
<1>4. /\ q.pc = "load" /\ q.cmd = r.cmd /\ q.run = r.run /\ q.job = r.job /\ q.todo = r.todo
      /\ q.quiet = r.quiet
  BY DEF At, Idle
<1>5. sess' = [sess EXCEPT ![s] = q] /\ draft' = [draft EXCEPT ![s] = E]
      /\ UNCHANGED <<market, recorded, runs>>
  BY DEF InsertDecision
<1> HIDE DEF q, row, k
<1>6. E[k] = row /\ \A j \in Key \ {k} : E[j] = draft[s][j]
  BY <1>1, <1>2, <1>3
<1> HIDE DEF E
<1>7. RunOk(q, E, runs)
  <2>1. Done(E) = Done(draft[s]) \cup {r.job}
    <3> DEFINE D == draft[s]
    <3>1. E[k] # NONE /\ \A j \in Key \ {k} : E[j] = D[j]
      BY <1>3, <1>6
    <3> HIDE DEF D
    <3>2. Done(E) = Done(D) \cup {<<k[2], k[3]>>}
      BY <1>2, <3>1, DoneWith
    <3> QED BY <1>2, <3>2 DEF D
  <2>2. Involved(q, E) = Involved(r, draft[s])
    BY <1>1, <1>4, <2>1 DEF Involved
  <2>3. KeyOf(q, q.job) = k
    BY <1>2, <1>4 DEF KeyOf
  <2>4. r.cmd = "run" =>
            r.run \notin runs /\ \A T \in DecisionDate :
                <<T, "ACTUAL">> \in Involved(q, E) <=> <<T, "HOLD_BASELINE">> \in Involved(q, E)
    BY <1>1, <2>2 DEF RunOk
  <2>5. q.pc # "commit" /\ E[KeyOf(q, q.job)] # NONE /\ q.cmd = r.cmd /\ q.run = r.run
    BY <1>3, <1>4, <1>6, <2>3
  <2> QED BY <2>4, <2>5 DEF RunOk
<1>8. QuietOk(q, E, Readings)
  <2> SUFFICES ASSUME q.cmd = "run", q.quiet PROVE ReadOk(q, Readings) /\ DraftedOk(E, Readings)
    BY DEF QuietOk
  <2>1. ReadOk(r, Readings) /\ DraftedOk(draft[s], Readings)
    BY <1>1, <1>4 DEF QuietOk
  <2>2. ReadOk(q, Readings)
    BY <1>4 DEF ReadOk, AfterLoad
  <2>3. row.decision = freeze(k[3], Readings.at[k[2]], Readings.prior[k[2]], Readings.trades[k[2]])
    BY <1>1, <1>2, <1>3, <2>1 DEF ReadOk
  <2>4. ASSUME NEW j \in Key, E[j] # NONE
        PROVE  /\ E[j].decision
                     = freeze(j[3], Readings.at[j[2]], Readings.prior[j[2]], Readings.trades[j[2]])
               /\ E[j].outcome \in {NONE, Readings.outcome[j[2]]}
    <3>1. CASE j = k
      BY <1>3, <1>6, <2>3, <3>1
    <3>2. CASE j # k
      BY <1>6, <2>1, <2>4, <3>2 DEF DraftedOk
    <3> QED BY <3>1, <3>2
  <2>5. DraftedOk(E, Readings)
    BY <2>4 DEF DraftedOk
  <2> QED BY <2>2, <2>5
<1>9. q.pc # "idle" =>
          \A t \in Sessions \ {s} : sess[t].pc # "idle" /\ "run" \in {q.cmd, sess[t].cmd}
                                        => sess[t].run # q.run
  BY <1>1, <1>4
<1> QED BY <1>5, <1>7, <1>8, <1>9, PairsMove

LEMMA ComputeMaxDrawdownPairs ==
    ASSUME Inv, PairInv, NEW s \in Sessions, ComputeMaxDrawdown(s)
    PROVE  PairInv'
<1> DEFINE r == sess[s]
           T == r.job[1]
           q == Finished(r)
           end == r.widest_end_date
           o == Outcome(r.entry[Stock], r.turns, DrawdownOf(r.events, DaysTo(T, end), end))
<1>1. /\ StepOk(r, market) /\ r.pc = "drawdown" /\ QuietOk(r, draft[s], Readings)
      /\ RunOk(r, draft[s], runs)
  BY PairFacts DEF ComputeMaxDrawdown
<1>2. sess' = [sess EXCEPT ![s] = q] /\ UNCHANGED <<market, recorded, runs, draft>>
  BY DEF ComputeMaxDrawdown, Finished, DaysTo, DrawdownOf, Date
<1>3. T \in DecisionDate /\ JobKey(s) = KeyOf(r, r.job)
  BY <1>1, RowFacts DEF StepOk, Job
<1>4. r.cmd = "run" => draft[s][JobKey(s)] # NONE
  BY <1>1, <1>3 DEF RunOk, AfterLookup
<1>5. /\ q.pc = "write" /\ q.existing = r.existing /\ q.outcome = o
      /\ \A f \in {"cmd", "run", "job", "todo", "quiet"} : q[f] = r[f]
  BY DEF Finished, At, Idle
<1>6. end = IF DatesOf(r.turns) = {} THEN NONE ELSE Max(DatesOf(r.turns))
  BY <1>1, LastOfTurns
<1> HIDE DEF q, end
<1>7. ASSUME q.cmd = "run", q.quiet PROVE ReadOk(q, Readings)
  <2>1. /\ r.existing \in {NONE, Readings.outcome[T]} /\ r.events = Readings.splits
        /\ r.entry = Readings.entry[T]
        /\ \A j \in 1..Len(r.turns) : r.turns[j] = Readings.turns[T][j]
    BY <1>1, <1>5, <1>7 DEF QuietOk, ReadOk, AfterLoad
  <2>2. r.turns \in Seq(Turn) /\ Len(r.turns) = Len(Months)
    BY <1>1 DEF StepOk, TurnsOk
  <2>3. r.turns = TurnsOn(T)
    <3>1. Horizon = 1..Len(Months) /\ Readings.turns[T] = TurnsOn(T)
      BY <1>3, ReadingsOf, WalkForwardAssumption DEF Horizon
    <3>2. r.turns = [h \in 1..Len(r.turns) |-> r.turns[h]]
      BY <2>2
    <3>3. \A h \in 1..Len(r.turns) : r.turns[h] = TurnsOn(T)[h]
      BY <2>1, <3>1
    <3>4. TurnsOn(T) = [h \in Horizon |-> TurnsOn(T)[h]]
      BY DEF TurnsOn
    <3> QED BY <2>2, <3>1, <3>2, <3>3, <3>4
  <2>4. end = LastOn(T)
    BY <1>6, <2>3 DEF LastOn
  <2>5. r.events = all_splits /\ r.entry = EntryOn(T) /\ Readings.outcome[T] = OutcomeOn(T)
    BY <1>3, <2>1, ReadingsOf
  <2>6. o = OutcomeOn(T)
    BY <2>3, <2>4, <2>5 DEF OutcomeOn
  <2> HIDE DEF o
  <2>7. q.outcome = Readings.outcome[T] /\ q.job = r.job
    BY <1>5, <2>5, <2>6
  <2> QED BY <1>5, <2>1, <2>7 DEF ReadOk, AfterLoad
<1> QED BY <1>1, <1>2, <1>4, <1>5, <1>7, PairsWithin

\* Every date has both of its decisions among the jobs, or none.
Both(jobs) ==
    \A T \in DecisionDate : <<T, "ACTUAL">> \in jobs <=> <<T, "HOLD_BASELINE">> \in jobs

\* Taking up a job takes it from those to come.
LEMMA WithoutOne ==
    ASSUME NEW todo \in Seq(SUBSET Job), todo # <<>>, NEW job \in Head(todo)
    PROVE  AllOf(todo) = AllOf(Without(todo, job)) \cup {job}
<1>1. Len(todo) \in Nat \ {0} /\ DOMAIN todo = 1..Len(todo) /\ Head(todo) = todo[1]
  OBVIOUS
<1>2. job \in AllOf(todo) /\ AllOf(Without(todo, job)) \subseteq AllOf(todo)
  BY <1>1, WithoutIsOk DEF AllOf
<1>3. CASE Head(todo) = {job}
  <2>1. Without(todo, job) = Tail(todo)
    BY <1>3 DEF Without
  <2>2. \A n \in 2..Len(todo) : n - 1 \in DOMAIN Tail(todo) /\ Tail(todo)[n - 1] = todo[n]
    <3>1. Len(Tail(todo)) = Len(todo) - 1 /\ \A n \in 1..Len(Tail(todo)) : Tail(todo)[n] = todo[n + 1]
      BY HeadTailProperties
    <3>2. DOMAIN Tail(todo) = 1..(Len(todo) - 1)
      BY <3>1
    <3> QED BY <1>1, <3>1, <3>2
  <2>3. ASSUME NEW x \in AllOf(todo), x # job PROVE x \in AllOf(Tail(todo))
    <3>1. PICK n \in DOMAIN todo : x \in todo[n]
      BY <2>3 DEF AllOf
    <3>2. n \in 2..Len(todo)
      BY <1>1, <1>3, <2>3, <3>1
    <3> QED BY <2>2, <3>1, <3>2 DEF AllOf
  <2> QED BY <1>2, <2>1, <2>3
<1>4. CASE Head(todo) # {job}
  <2> DEFINE t == [todo EXCEPT ![1] = @ \ {job}]
  <2>1. Without(todo, job) = t
    BY <1>4 DEF Without
  <2>2. DOMAIN t = DOMAIN todo /\ \A n \in DOMAIN todo : \A x \in todo[n] : x # job => x \in t[n]
    BY <1>1
  <2> HIDE DEF t
  <2>3. ASSUME NEW x \in AllOf(todo), x # job PROVE x \in AllOf(t)
    BY <2>2, <2>3 DEF AllOf
  <2> QED BY <1>2, <2>1, <2>3
<1> QED BY <1>3, <1>4

\* Before a session takes up its next job: what it has drafted and what it has to
\* do are both decisions of each date, or none.
PairsSoFar(r, D, R, W) ==
    r.cmd = "run" => /\ r.run \notin R /\ Both(Done(D) \cup AllOf(r.todo))
                     /\ r.quiet => DraftedOk(D, W)

LEMMA TakenUpPairs ==
    ASSUME NEW r, r.cmd \in {"run", "replay", "backfill"}, r.run \in Run,
           r.todo \in Seq(SUBSET Job), NEW q \in TakeUp(r), NEW D, NEW R, NEW W,
           PairsSoFar(r, D, R, W)
    PROVE  /\ q.pc # "idle" /\ q.cmd = r.cmd /\ q.run = r.run
           /\ RunOk(q, D, R) /\ QuietOk(q, D, W)
<1>1. CASE r.todo = <<>>
  <2>1. q = [At(r, "commit") EXCEPT !.job = NONE]
    BY <1>1 DEF TakeUp
  <2>2. /\ q.pc = "commit" /\ q.cmd = r.cmd /\ q.run = r.run /\ q.todo = r.todo
        /\ q.quiet = r.quiet
    BY <2>1 DEF At, Idle
  <2>3. Involved(q, D) = Done(D) \cup AllOf(r.todo)
    BY <2>2 DEF Involved
  <2>4. RunOk(q, D, R)
    BY <1>1, <2>2, <2>3 DEF RunOk, PairsSoFar, Both, AfterLookup
  <2>5. QuietOk(q, D, W)
    BY <2>2 DEF QuietOk, PairsSoFar, ReadOk, AfterLoad
  <2> QED BY <2>2, <2>4, <2>5
<1>2. CASE r.todo # <<>>
  <2>1. PICK job \in Head(r.todo) :
            q = [At(r, FirstStep(r.cmd)) EXCEPT !.job = job, !.todo = Without(r.todo, job)]
    BY <1>2 DEF TakeUp, At, Idle
  <2>2. /\ q.pc = FirstStep(r.cmd) /\ q.cmd = r.cmd /\ q.run = r.run /\ q.quiet = r.quiet
        /\ q.job = job /\ q.todo = Without(r.todo, job)
    BY <2>1 DEF At, Idle
  <2>3. q.pc \in {"at", "prior", "load"} /\ (r.cmd = "run" => q.pc = "at")
    BY <2>2 DEF FirstStep
  <2>4. AllOf(r.todo) = AllOf(q.todo) \cup {q.job}
    BY <1>2, <2>1, <2>2, WithoutOne
  <2>5. Involved(q, D) = Done(D) \cup AllOf(r.todo)
    BY <2>3, <2>4 DEF Involved
  <2>6. RunOk(q, D, R)
    BY <2>2, <2>3, <2>5 DEF RunOk, PairsSoFar, Both, AfterLookup
  <2>7. QuietOk(q, D, W)
    BY <2>2, <2>3 DEF QuietOk, PairsSoFar, ReadOk, AfterLoad
  <2> QED BY <2>2, <2>3, <2>6, <2>7
<1> QED BY <1>1, <1>2

\* A decision has its outcome, and the next job is taken up.
LEMMA NextJobPairs ==
    ASSUME Inv, PairInv, NEW s \in Sessions, sess[s].pc = "write", NextJob(s), NEW E,
           draft' = [draft EXCEPT ![s] = E], UNCHANGED <<market, recorded, runs>>,
           sess[s].cmd = "run" => Done(E) = Done(draft[s]),
           sess[s].cmd = "run" /\ sess[s].quiet => DraftedOk(E, Readings)
    PROVE  PairInv'
<1> DEFINE r == sess[s]
<1>1. /\ StepOk(r, market) /\ RunOk(r, draft[s], runs)
      /\ \A t \in Sessions \ {s} :
            sess[t].pc # "idle" /\ "run" \in {r.cmd, sess[t].cmd} => sess[t].run # r.run
  BY PairFacts
<1>2. /\ r.job \in Job /\ r.cmd \in {"run", "replay", "backfill"} /\ r.run \in Run
      /\ r.todo \in Seq(SUBSET Job)
  BY <1>1 DEF StepOk
<1>3. PICK q \in TakeUp(r) : sess' = [sess EXCEPT ![s] = q]
  BY DEF NextJob
<1>4. PairsSoFar(r, E, runs, Readings)
  <2> SUFFICES ASSUME r.cmd = "run" PROVE r.run \notin runs /\ Both(Done(E) \cup AllOf(r.todo))
    BY DEF PairsSoFar
  <2>1. draft[s][KeyOf(r, r.job)] # NONE /\ r.run \notin runs /\ Both(Involved(r, draft[s]))
    BY <1>1 DEF RunOk, AfterLookup, Both
  <2> DEFINE job == r.job
  <2>0. job \in Job /\ KeyOf(r, job) \in Key
    BY <1>2, RowFacts
  <2> HIDE DEF job
  <2>2. PICK k \in Key : k = KeyOf(r, r.job) /\ r.job = <<k[2], k[3]>>
    <3>1. job = <<KeyOf(r, job)[2], KeyOf(r, job)[3]>>
      BY <2>0 DEF Job, KeyOf
    <3> QED BY <2>0, <3>1 DEF job
  <2>3. r.job \in Done(draft[s])
    <3>1. draft[s][k] # NONE
      BY <2>1, <2>2
    <3> QED BY <2>2, <3>1 DEF Done
  <2>4. Involved(r, draft[s]) = Done(E) \cup AllOf(r.todo)
    BY <2>3 DEF Involved
  <2> QED BY <2>1, <2>4
<1>5. /\ q.pc # "idle" /\ q.cmd = r.cmd /\ q.run = r.run
      /\ RunOk(q, E, runs) /\ QuietOk(q, E, Readings)
  BY <1>2, <1>4, TakenUpPairs
<1>6. q.pc # "idle" =>
          \A t \in Sessions \ {s} : sess[t].pc # "idle" /\ "run" \in {q.cmd, sess[t].cmd}
                                        => sess[t].run # q.run
  BY <1>1, <1>5
<1> QED BY <1>3, <1>5, <1>6, PairsMove

\* A row of the draft gets an outcome: the one that is read now, in a quiet run.
LEMMA RowWrittenPairs ==
    ASSUME Inv, PairInv, NEW s \in Sessions, sess[s].pc = "write", NextJob(s),
           NEW k, k = JobKey(s), NEW row, row \in Row,
           draft' = [draft EXCEPT ![s][k] = row], UNCHANGED <<market, recorded, runs>>,
           row.decision = View(s, k).decision,
           sess[s].cmd = "run" /\ sess[s].quiet => row.outcome = Readings.outcome[sess[s].job[1]]
    PROVE  PairInv'
<1> DEFINE r == sess[s]
           D == draft[s]
           E == [D EXCEPT ![k] = row]
<1>1. /\ RunOk(r, D, runs) /\ QuietOk(r, D, Readings) /\ D \in [Key -> Row \cup {NONE}]
      /\ ToWrite(s, r, k)
  BY PairFacts, WriteFacts
<1>2. k \in Key /\ k[2] = r.job[1] /\ k = KeyOf(r, r.job) /\ row # NONE
  BY <1>1, RowFacts DEF ToWrite
<1>3. draft' = [draft EXCEPT ![s] = E]
  OBVIOUS
<1>4. E[k] = row /\ \A j \in Key \ {k} : E[j] = D[j]
  BY <1>1, <1>2
<1>5. r.cmd = "run" => D[k] # NONE
  BY <1>1, <1>2 DEF RunOk, AfterLookup
<1> HIDE DEF E
<1>6. r.cmd = "run" => Done(E) = Done(D)
  <2> SUFFICES ASSUME r.cmd = "run" PROVE Done(E) = Done(D)
    OBVIOUS
  <2>1. \A j \in Key : E[j] # NONE <=> D[j] # NONE
    BY <1>2, <1>4, <1>5
  <2> HIDE DEF D
  <2> QED BY <2>1 DEF Done
<1>7. ASSUME r.cmd = "run", r.quiet PROVE DraftedOk(E, Readings)
  <2>1. DraftedOk(D, Readings) /\ D[k] # NONE /\ View(s, k) = D[k]
    BY <1>1, <1>5, <1>7 DEF QuietOk, View
  <2> HIDE DEF D
  <2>2. ASSUME NEW j \in Key, E[j] # NONE
        PROVE  /\ E[j].decision
                     = freeze(j[3], Readings.at[j[2]], Readings.prior[j[2]], Readings.trades[j[2]])
               /\ E[j].outcome \in {NONE, Readings.outcome[j[2]]}
    <3>1. CASE j = k
      BY <1>2, <1>4, <1>7, <2>1, <3>1 DEF DraftedOk
    <3>2. CASE j # k
      BY <1>4, <2>1, <2>2, <3>2 DEF DraftedOk
    <3> QED BY <3>1, <3>2
  <2> QED BY <2>2 DEF DraftedOk
<1> QED BY <1>3, <1>6, <1>7, NextJobPairs

LEMMA InsertOutcomePairs ==
    ASSUME Inv, PairInv, NEW s \in Sessions, InsertOutcome(s)
    PROVE  PairInv'
<1> DEFINE r == sess[s]
           k == JobKey(s)
           row == [View(s, k) EXCEPT !.outcome = r.outcome]
<1>1. /\ ToWrite(s, r, k) /\ QuietOk(r, draft[s], Readings) /\ r.pc = "write"
      /\ draft' = [draft EXCEPT ![s][k] = row] /\ NextJob(s)
      /\ UNCHANGED <<market, recorded, runs>>
  BY WriteFacts, PairFacts DEF InsertOutcome
<1>2. View(s, k) \in Row /\ r.outcome \in OutcomeRow
  BY <1>1, ViewFacts DEF ToWrite, WriteOk
<1>3. row \in Row /\ row.decision = View(s, k).decision /\ row.outcome = r.outcome
  BY <1>2 DEF Row
<1>4. r.cmd = "run" /\ r.quiet => r.outcome = Readings.outcome[r.job[1]]
  BY <1>1 DEF QuietOk, ReadOk
<1> HIDE DEF k, row
<1> QED BY <1>1, <1>3, <1>4, RowWrittenPairs DEF k

\* Where everything is as it was, a back-fill writes what there is.
LEMMA BackfillOfItself ==
    ASSUME NEW o \in OutcomeRow
    PROVE  backfill_tri_returns(o, o, o) = o
<1>1. o.benchmark_tri_return \in [Horizon -> Figure] /\ o.excess_return_tri \in [Horizon -> Figure]
  BY DEF OutcomeRow
<1>2. \A f \in TriField :
          [h \in Horizon |-> IF <<f, h>> \in TriWritten(o, o) THEN o[f][h] ELSE o[f][h]] = o[f]
  BY <1>1 DEF TriField
<1>3. backfill_tri_returns(o, o, o) =
          [o EXCEPT !.benchmark_tri_return = o.benchmark_tri_return,
                    !.excess_return_tri = o.excess_return_tri]
  BY <1>2 DEF backfill_tri_returns, TriField
<1> QED BY <1>3 DEF OutcomeRow

LEMMA BackfillOutcomePairs ==
    ASSUME Inv, PairInv, NEW s \in Sessions, BackfillOutcome(s)
    PROVE  PairInv'
<1> DEFINE r == sess[s]
           k == JobKey(s)
           T == r.job[1]
           p == backfill_tri_returns(View(s, k).outcome, r.existing, r.outcome)
           row == [View(s, k) EXCEPT !.outcome = p]
<1>1. /\ ToWrite(s, r, k) /\ QuietOk(r, draft[s], Readings) /\ RunOk(r, draft[s], runs)
      /\ r.pc = "write" /\ r.existing # NONE /\ NextJob(s)
      /\ UNCHANGED <<market, recorded, runs>>
      /\ draft \in [Sessions -> [Key -> Row \cup {NONE}]]
  BY WriteFacts, PairFacts DEF BackfillOutcome, Backfills, Inv, StoredOk
<1>2. /\ Writes(s) => draft' = [draft EXCEPT ![s][k] = row]
      /\ ~Writes(s) => draft' = draft
  BY DEF BackfillOutcome
<1>3. CASE Writes(s)
  <2>1. /\ k \in Key /\ k[2] = T /\ k = KeyOf(r, r.job) /\ View(s, k) # NONE
        /\ \A j \in Key : draft[s][j] # NONE => draft[s][j].outcome # NONE
    BY <1>1 DEF ToWrite
  <2>2. View(s, k) \in Row /\ View(s, k).outcome # NONE
    BY <2>1, ViewFacts DEF View
  <2>3. View(s, k).outcome \in OutcomeRow /\ OutcomeOk(View(s, k).outcome, k[2], market)
    BY <2>1, <2>2, ViewFacts DEF Row
  <2>4. /\ r.outcome \in OutcomeRow /\ Supported(r.outcome, k[2], market)
        /\ r.existing \in OutcomeRow /\ Keeps(r.existing, r.outcome)
    BY <1>1, <2>1 DEF ToWrite, WriteOk, OutcomeOk
  <2>5. p \in OutcomeRow
    BY <2>3, <2>4, BackfillIsOk
  <2>6. ASSUME r.cmd = "run", r.quiet PROVE p = Readings.outcome[T]
    <3>1. draft[s][k] # NONE /\ View(s, k) = draft[s][k]
      BY <1>1, <2>1, <2>6 DEF RunOk, AfterLookup, View
    <3>2. View(s, k).outcome = Readings.outcome[T]
      BY <1>1, <2>1, <2>2, <2>6, <3>1 DEF QuietOk, DraftedOk
    <3>3. r.existing = Readings.outcome[T] /\ r.outcome = Readings.outcome[T]
      BY <1>1, <2>6 DEF QuietOk, ReadOk, AfterLoad
    <3> QED BY <2>4, <3>2, <3>3, BackfillOfItself
  <2> HIDE DEF p
  <2>7. row \in Row /\ row.decision = View(s, k).decision /\ row.outcome = p
    BY <2>2, <2>5 DEF Row
  <2>8. draft' = [draft EXCEPT ![s][k] = row]
    BY <1>2, <1>3
  <2> HIDE DEF k, row
  <2> QED BY <1>1, <2>6, <2>7, <2>8, RowWrittenPairs DEF k
<1>4. CASE ~Writes(s)
  <2>1. draft' = [draft EXCEPT ![s] = draft[s]]
    BY <1>1, <1>2, <1>4
  <2>2. r.cmd = "run" /\ r.quiet => DraftedOk(draft[s], Readings)
    BY <1>1 DEF QuietOk
  <2> QED BY <1>1, <2>1, <2>2, NextJobPairs
<1> QED BY <1>3, <1>4

\* A session that is idle has nothing to compare.
LEMMA NothingYet ==
    \A r, D, R, W : r.pc = "idle" => RunOk(r, D, R) /\ QuietOk(r, D, W)
  BY DEF RunOk, QuietOk

\* A command begins with all its jobs before it; a run begins with both of each
\* date, under a number of its own.
LEMMA BeginPairs ==
    ASSUME Inv, PairInv, NEW s \in Sessions, NEW cmd \in {"run", "replay", "backfill"},
           NEW run \in Run, NEW todo \in Seq(SUBSET Job), Begin(s, cmd, run, todo),
           cmd = "run" => run \in Unused /\ Both(AllOf(todo)),
           cmd # "run" => run \in runs
    PROVE  PairInv'
<1> DEFINE r == [Idle EXCEPT !.cmd = cmd, !.run = run, !.quiet = cmd = "run", !.todo = todo]
           D == draft[s]
<1>1. PICK q \in TakeUp(r) : sess' = [sess EXCEPT ![s] = q]
  BY DEF Begin
<1>2. r.cmd = cmd /\ r.run = run /\ r.todo = todo
  BY DEF Idle
<1> HIDE DEF r
<1>3. sess[s].pc = "idle" /\ DraftOk(sess[s], D, table, market)
  BY SessionFacts DEF Begin
<1>4. \A k \in Key : D[k] = NONE
  BY <1>3 DEF DraftOk
<1>5. /\ draft' = [draft EXCEPT ![s] = D] /\ UNCHANGED <<market, recorded, runs>>
  BY DEF Begin, Inv, StoredOk
<1> HIDE DEF D
<1>6. PairsSoFar(r, D, runs, Readings)
  <2>1. Done(D) = {}
    BY <1>4 DEF Done
  <2>2. DraftedOk(D, Readings)
    BY <1>4 DEF DraftedOk
  <2>3. cmd = "run" => run \notin runs /\ Both(Done(D) \cup AllOf(todo))
    BY <2>1 DEF Unused
  <2> QED BY <1>2, <2>2, <2>3 DEF PairsSoFar
<1>7. /\ q.pc # "idle" /\ q.cmd = cmd /\ q.run = run
      /\ RunOk(q, D, runs) /\ QuietOk(q, D, Readings)
  BY <1>2, <1>6, TakenUpPairs
<1>8. ASSUME NEW t \in Sessions \ {s}, sess[t].pc # "idle", "run" \in {cmd, sess[t].cmd}
      PROVE  sess[t].run # run
  <2>1. CASE cmd = "run"
    BY <1>8, <2>1 DEF Unused
  <2>2. CASE cmd # "run"
    <3>1. RunOk(sess[t], draft[t], runs)
      BY DEF PairInv
    <3> QED BY <1>8, <2>2, <3>1 DEF RunOk
  <2> QED BY <2>1, <2>2
<1> QED BY <1>1, <1>5, <1>7, <1>8, PairsMove

LEMMA BothSourcesAreBoth ==
    ASSUME NEW dates \in Seq(DecisionDate)
    PROVE  Both(AllOf(BothSources(dates)))
<1> DEFINE L == Len(dates)
           source(n) == IF n % 2 = 1 THEN "ACTUAL" ELSE "HOLD_BASELINE"
           f == BothSources(dates)
<1>1. L \in Nat /\ f = [n \in 1..2 * L |-> {<<dates[(n + 1) \div 2], source(n)>>}]
  BY DEF BothSources
<1> HIDE DEF L, f
<1>2. DOMAIN f = 1..2 * L /\ \A n \in 1..2 * L : f[n] = {<<dates[(n + 1) \div 2], source(n)>>}
  BY <1>1
<1>3. \A T, x : <<T, x>> \in AllOf(f)
                    <=> \E n \in 1..2 * L : T = dates[(n + 1) \div 2] /\ x = source(n)
  BY <1>2 DEF AllOf
<1>4. ASSUME NEW T, NEW n \in 1..2 * L, T = dates[(n + 1) \div 2], source(n) = "ACTUAL"
      PROVE  \E m \in 1..2 * L : T = dates[(m + 1) \div 2] /\ source(m) = "HOLD_BASELINE"
  <2>1. n % 2 = 1 /\ n \in Nat
    BY <1>1, <1>4
  <2>2. n + 1 \in 1..2 * L /\ (n + 1) % 2 = 0 /\ (n + 1 + 1) \div 2 = (n + 1) \div 2
    BY <1>1, <2>1
  <2> QED BY <1>4, <2>2
<1>5. ASSUME NEW T, NEW n \in 1..2 * L, T = dates[(n + 1) \div 2], source(n) = "HOLD_BASELINE"
      PROVE  \E m \in 1..2 * L : T = dates[(m + 1) \div 2] /\ source(m) = "ACTUAL"
  <2>1. n % 2 = 0 /\ n \in Nat
    BY <1>1, <1>5
  <2>2. n - 1 \in 1..2 * L /\ (n - 1) % 2 = 1 /\ (n - 1 + 1) \div 2 = (n + 1) \div 2
    BY <1>1, <2>1
  <2> QED BY <1>5, <2>2
<1> HIDE DEF source
<1>6. \A T : <<T, "ACTUAL">> \in AllOf(f) <=> <<T, "HOLD_BASELINE">> \in AllOf(f)
  BY <1>3, <1>4, <1>5
<1> QED BY <1>6 DEF f, Both

LEMMA StartPairs ==
    ASSUME Inv, PairInv, NEW s \in Sessions, Start(s)
    PROVE  PairInv'
<1>1. runs \subseteq Run /\ Unused \subseteq Run
  BY DEF Inv, StoredOk, Unused
<1>2. ASSUME NEW r \in Unused, NEW dates \in Seq(DecisionDate),
             Begin(s, "run", r, BothSources(dates))
      PROVE  PairInv'
  <2> DEFINE todo == BothSources(dates)
  <2>1. todo \in Seq(SUBSET Job) /\ Both(AllOf(todo)) /\ r \in Run
    BY <1>1, BothSourcesIsSeq, BothSourcesAreBoth
  <2> HIDE DEF todo
  <2> QED BY <1>2, <2>1, BeginPairs DEF todo
<1>3. CASE run_walk_forward(s)
  <2>0. PICK r \in Unused, n \in 1..MaxPoints :
            \E dates \in [1..n -> Points] : Begin(s, "run", r, BothSources(dates))
    BY <1>3 DEF run_walk_forward
  <2>1. PICK dates \in [1..n -> Points] : Begin(s, "run", r, BothSources(dates))
    BY <2>0
  <2>2. n \in Nat
    BY WalkForwardAssumption
  <2>3. dates \in [1..n -> DecisionDate]
    BY DEF DecisionDate
  <2>4. dates \in Seq(DecisionDate)
    BY <2>2, <2>3, SeqDef
  <2> QED BY <1>2, <2>1, <2>4
<1>4. CASE run_bulk_walk_forward(s)
  <2>1. PICK r \in Unused, dates \in InOrder(generate_decision_points) :
            Begin(s, "run", r, BothSources(dates))
    BY <1>4 DEF run_bulk_walk_forward
  <2>2. generate_decision_points \in SUBSET DecisionDate
    BY DEF generate_decision_points, DecisionDate, Kind
  <2>3. dates \in Seq(DecisionDate)
    BY <2>2, InOrderIsSeq
  <2> QED BY <1>2, <2>1, <2>3
<1>5. CASE replay_deterministic_baseline(s)
  <2>0. PICK r \in runs : \E dates \in list_for_run(r, {"ACTUAL"}) :
            Begin(s, "replay", r, [n \in DOMAIN dates |-> {<<dates[n], "AGENT">>}])
    BY <1>5 DEF replay_deterministic_baseline
  <2>1. PICK dates \in list_for_run(r, {"ACTUAL"}) :
            Begin(s, "replay", r, [n \in DOMAIN dates |-> {<<dates[n], "AGENT">>}])
    BY <2>0
  <2> DEFINE D == {d \in DecisionDate : Decided(r, d, {"ACTUAL"}) # {}}
             todo == [n \in DOMAIN dates |-> {<<dates[n], "AGENT">>}]
  <2>2. dates \in InOrder(D) /\ D \in SUBSET DecisionDate
    BY DEF list_for_run
  <2> HIDE DEF D
  <2>3. /\ DOMAIN dates = 1..Cardinality(D) /\ Cardinality(D) \in Nat
        /\ \A n \in 1..Cardinality(D) : dates[n] \in DecisionDate
    BY <2>2, InOrderIsSeq
  <2>4. todo \in [1..Cardinality(D) -> SUBSET Job]
    BY <2>3 DEF Job, Source
  <2> HIDE DEF todo
  <2>5. todo \in Seq(SUBSET Job)
    BY <2>3, <2>4, SeqDef
  <2>6. Begin(s, "replay", r, todo)
    BY <2>1 DEF todo
  <2> QED BY <1>1, <2>5, <2>6, BeginPairs
<1>6. CASE backfill_walk_forward_tri(s)
  <2>0. PICK r \in runs : \E dates \in list_for_run(r, Source) :
            Begin(s, "backfill", r, [n \in DOMAIN dates |-> Decided(r, dates[n], Source)])
    BY <1>6 DEF backfill_walk_forward_tri
  <2>1. PICK dates \in list_for_run(r, Source) :
            Begin(s, "backfill", r, [n \in DOMAIN dates |-> Decided(r, dates[n], Source)])
    BY <2>0
  <2> DEFINE D == {d \in DecisionDate : Decided(r, d, Source) # {}}
             todo == [n \in DOMAIN dates |-> Decided(r, dates[n], Source)]
  <2>2. dates \in InOrder(D) /\ D \in SUBSET DecisionDate
    BY DEF list_for_run
  <2> HIDE DEF D
  <2>3. /\ DOMAIN dates = 1..Cardinality(D) /\ Cardinality(D) \in Nat
        /\ \A n \in 1..Cardinality(D) : dates[n] \in DecisionDate
    BY <2>2, InOrderIsSeq
  <2>4. \A d \in DecisionDate : Decided(r, d, Source) \in SUBSET Job
    BY DecidedAre
  <2>5. todo \in [1..Cardinality(D) -> SUBSET Job]
    BY <2>3, <2>4
  <2> HIDE DEF todo
  <2>6. todo \in Seq(SUBSET Job)
    BY <2>3, <2>5, SeqDef
  <2>7. Begin(s, "backfill", r, todo)
    BY <2>1 DEF todo
  <2> QED BY <1>1, <2>6, <2>7, BeginPairs
<1> QED BY <1>3, <1>4, <1>5, <1>6 DEF Start

LEMMA RollbackPairs ==
    ASSUME Inv, PairInv, NEW s \in Sessions, Rollback(s)
    PROVE  PairInv'
<1>1. Idle.pc = "idle"
  BY DEF Idle
<1>2. RunOk(Idle, NoDraft, runs) /\ QuietOk(Idle, NoDraft, Readings)
  BY <1>1, NothingYet
<1>3. sess' = [sess EXCEPT ![s] = Idle] /\ draft' = [draft EXCEPT ![s] = NoDraft]
      /\ UNCHANGED <<market, recorded, runs>>
  BY DEF Rollback
<1> QED BY <1>1, <1>2, <1>3, PairsMove

\* The number of a committed run is nobody else's.
LEMMA CommitPairs ==
    ASSUME Inv, PairInv, NEW s \in Sessions, Commit(s)
    PROVE  PairInv'
<1>1. /\ draft \in [Sessions -> [Key -> Row \cup {NONE}]] /\ sess = [t \in Sessions |-> sess[t]]
  BY DEF Inv, StoredOk
<1>2. /\ sess'[s] = Idle /\ draft'[s] = NoDraft /\ sess[s].pc = "commit"
      /\ \A t \in Sessions \ {s} : sess'[t] = sess[t] /\ draft'[t] = draft[t]
      /\ runs' = runs \cup {sess[s].run} /\ UNCHANGED <<market, recorded>>
  BY <1>1 DEF Commit
<1>3. Idle.pc = "idle"
  BY DEF Idle
<1>4. Readings' = Readings
  BY <1>2, ReadingsStay
<1>5. Alone'
  BY <1>2, <1>3 DEF PairInv, Alone
<1>6. ASSUME NEW t \in Sessions
      PROVE  RunOk(sess'[t], draft'[t], runs') /\ QuietOk(sess'[t], draft'[t], Readings')
  <2>1. CASE t = s
    BY <1>2, <1>3, <2>1, NothingYet
  <2>2. CASE t # s
    <3>1. /\ RunOk(sess[t], draft[t], runs) /\ QuietOk(sess[t], draft[t], Readings)
          /\ sess[t].pc # "idle" /\ sess[t].cmd = "run" => sess[t].run # sess[s].run
      BY <1>2, <2>2 DEF PairInv, Alone
    <3>2. RunOk(sess[t], draft[t], runs')
      BY <1>2, <3>1 DEF RunOk
    <3> QED BY <1>2, <1>4, <2>2, <3>1, <3>2
  <2> QED BY <2>1, <2>2
<1> QED BY <1>5, <1>6 DEF PairInv

\* What is stored meanwhile leaves no run quiet.
LEMMA StoredMeanwhilePairs ==
    ASSUME Inv, PairInv, Disturbed, UNCHANGED <<runs, draft>>
    PROVE  PairInv'
<1>1. ASSUME NEW t \in Sessions
      PROVE  /\ sess'[t].pc = sess[t].pc /\ sess'[t].cmd = sess[t].cmd
             /\ sess'[t].run = sess[t].run
             /\ RunOk(sess'[t], draft'[t], runs') /\ QuietOk(sess'[t], draft'[t], Readings')
  <2> DEFINE r == sess[t]
             q == [r EXCEPT !.quiet = FALSE]
  <2>1. Shape(r) /\ RunOk(r, draft[t], runs)
    BY SessionFacts DEF StepOk, PairInv
  <2>2. sess'[t] = IF r.pc # "idle" /\ r.cmd = "run" THEN q ELSE r
    BY DEF Disturbed
  <2>3. q.quiet = FALSE /\ \A f \in {"pc", "cmd", "run", "job", "todo"} : q[f] = r[f]
    BY <2>1 DEF Shape, Fields
  <2> HIDE DEF q
  <2>4. q.pc = r.pc /\ q.cmd = r.cmd /\ q.run = r.run /\ q.job = r.job /\ q.todo = r.todo
    BY <2>3
  <2>5. Involved(q, draft[t]) = Involved(r, draft[t]) /\ KeyOf(q, q.job) = KeyOf(r, r.job)
    BY <2>4 DEF Involved, KeyOf
  <2>6. RunOk(q, draft[t], runs)
    BY <2>1, <2>4, <2>5 DEF RunOk
  <2>7. CASE r.pc # "idle" /\ r.cmd = "run"
    <3>1. QuietOk(q, draft[t], Readings')
      BY <2>3 DEF QuietOk
    <3> QED BY <2>2, <2>4, <2>6, <2>7, <3>1
  <2>8. CASE ~(r.pc # "idle" /\ r.cmd = "run")
    <3>1. QuietOk(r, draft[t], Readings')
      BY <2>8 DEF QuietOk
    <3> QED BY <2>1, <2>2, <2>8, <3>1
  <2> QED BY <2>7, <2>8
<1>2. Alone'
  BY <1>1 DEF PairInv, Alone
<1> QED BY <1>1, <1>2 DEF PairInv

\* Nothing has begun.
THEOREM InitPairs == Init => PairInv
<1> SUFFICES ASSUME Init PROVE PairInv
  OBVIOUS
<1>1. \A s \in Sessions : sess[s] = Idle
  BY DEF Init
<1>2. Idle.pc = "idle"
  BY DEF Idle
<1> QED BY <1>1, <1>2, NothingYet DEF PairInv, Alone

\* Every step of every command, and everything stored meanwhile, keeps the pairs.
THEOREM NextPairs == Inv /\ PairInv /\ [Next]_vars => PairInv'
<1> SUFFICES ASSUME Inv, PairInv, [Next]_vars PROVE PairInv'
  OBVIOUS
<1>1. CASE UNCHANGED vars
  <2>1. UNCHANGED <<market, recorded, runs, draft, sess>>
    BY <1>1 DEF vars
  <2>2. Readings' = Readings
    BY <2>1, ReadingsStay
  <2> QED BY <2>1, <2>2 DEF PairInv, Alone
<1>2. CASE \E s \in Sessions : Start(s) \/ Proceed(s) \/ Abort(s)
  BY <1>2, StartPairs, SnapshotAtPairs, SnapshotPriorPairs, DecidePairs, InsertDecisionPairs,
     LoadEntryPairs, ResolveHorizonPairs, ComputeMaxDrawdownPairs, InsertOutcomePairs,
     BackfillOutcomePairs, CommitPairs, RollbackPairs
     DEF Proceed, UniqueViolation, DeadlockVictim, Abort
<1>3. CASE \E series \in Series, day \in Day : IngestPrice(series, day)
  BY <1>3, StoredMeanwhilePairs DEF IngestPrice
<1>4. CASE \E i \in Event : RecordEvent(i)
  BY <1>4, StoredMeanwhilePairs DEF RecordEvent
<1> QED BY <1>1, <1>2, <1>3, <1>4 DEF Next

\* A walk-forward run during which nothing was ingested leaves, for every date,
\* both decisions or none, scored alike; its ACTUAL action names the change in
\* quantity, and decision_dollar_impact is the trades' own, unless a replay
\* warned or a split was announced for later.
THEOREM PairsCompare == Spec => []PairsComparable
<1>1. Inv /\ PairInv => PairsComparable
  <2> SUFFICES ASSUME Inv, PairInv, NEW s \in Sessions, sess[s].pc = "commit",
                      sess[s].cmd = "run", sess[s].quiet, NEW T \in DecisionDate
               PROVE  LET actual == draft[s][<<sess[s].run, T, "ACTUAL">>]
                          hold == draft[s][<<sess[s].run, T, "HOLD_BASELINE">>]
                      IN  /\ actual = NONE <=> hold = NONE
                          /\ actual # NONE => Comparable(actual, hold, T)
    BY DEF PairsComparable
  <2> DEFINE r == sess[s]
             D == draft[s]
             key(x) == <<r.run, T, x>>
  <2>1. /\ RunOk(r, D, runs) /\ DraftedOk(D, Readings) /\ StepOk(r, market)
        /\ DraftOk(r, D, table, market)
    BY PairFacts DEF QuietOk
  <2>2. key("ACTUAL") \in Key /\ key("HOLD_BASELINE") \in Key
    BY <2>1 DEF StepOk, Key, Source
  <2>3. \A x : <<T, x>> \in Done(D) <=> key(x) \in Key /\ D[key(x)] # NONE
    <3>1. \A k \in Key : D[k] # NONE => k = <<r.run, k[2], k[3]>>
      BY <2>1, RowFacts DEF DraftOk
    <3> QED BY <3>1 DEF Done
  <2>4. Involved(r, D) = Done(D)
    <3>1. r.todo = <<>> /\ AllOf(r.todo) = {}
      BY <2>1 DEF RunOk, AllOf
    <3> QED BY <3>1 DEF Involved
  <2>5. D[key("ACTUAL")] = NONE <=> D[key("HOLD_BASELINE")] = NONE
    BY <2>1, <2>2, <2>3, <2>4 DEF RunOk
  <2>6. ASSUME D[key("ACTUAL")] # NONE
        PROVE  Comparable(D[key("ACTUAL")], D[key("HOLD_BASELINE")], T)
    <3>1. ASSUME NEW x \in {"ACTUAL", "HOLD_BASELINE"}
          PROVE  D[key(x)].decision = DecisionOn(T, x) /\ D[key(x)].outcome = Readings.outcome[T]
      <4> DEFINE k == key(x)
      <4>1. k \in Key /\ k[2] = T /\ k[3] = x /\ D[k] # NONE
        BY <2>2, <2>5, <2>6
      <4> HIDE DEF k, D
      <4>2. /\ D[k].decision = freeze(x, Readings.at[T], Readings.prior[T], Readings.trades[T])
            /\ D[k].outcome \in {NONE, Readings.outcome[T]}
        BY <2>1, <4>1 DEF DraftedOk
      <4>3. D[k].outcome # NONE
        BY <2>1, <4>1 DEF DraftOk, AfterLookup
      <4>4. D[k].decision = DecisionOn(T, x)
        BY <4>2, ReadingsOf DEF DecisionOn
      <4> QED BY <4>2, <4>3, <4>4 DEF k
    <3>2. T \in Int
      BY DateFacts
    <3> HIDE DEF D, key
    <3>3. /\ D[key("ACTUAL")].decision = DecisionOn(T, "ACTUAL")
          /\ D[key("HOLD_BASELINE")].decision = DecisionOn(T, "HOLD_BASELINE")
          /\ D[key("ACTUAL")].outcome = D[key("HOLD_BASELINE")].outcome
      BY <3>1
    <3> QED BY <3>2, <3>3, DecisionsCompare
  <2> QED BY <2>5, <2>6
<1>2. Spec => [](Inv /\ PairInv)
  BY InitInv, NextInv, InitPairs, NextPairs, PTL DEF Spec
<1> QED BY <1>1, <1>2, PTL

=============================================================================

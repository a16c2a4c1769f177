------------------------- MODULE UserListing_proof -------------------------
(* Theorems about UserListing: walks are exact for any number of users and  *)
(* any page sizes.                                                          *)
EXTENDS UserListing, FiniteSetTheorems, WellFoundedInduction, TLAPS

-----------------------------------------------------------------------------
(* Ids are bounded numbers: a set of them has a least and a greatest.      *)
LEMMA Least ==
  ASSUME NEW S \in SUBSET Nat, S # {}
  PROVE  \E x \in S : \A y \in S : x <= y
<1> DEFINE Less == {pair \in Nat \X Nat : pair[1] < pair[2]}
<1>1. IsWellFoundedOn(Less, Nat)
  BY NatLessThanWellFounded DEF OpToRel
<1> HIDE DEF Less
<1>2. PICK x \in S : \A y \in S : ~ (<<y, x>> \in Less)
  BY <1>1, WFMin
<1>3. \A y \in S : <<y, x>> \in Less <=> y < x
  BY DEF Less
<1>4. \A y \in S : x <= y
  <2> TAKE y \in S
  <2>1. ~ (y < x)
    BY <1>2, <1>3
  <2>2. x \in Nat /\ y \in Nat
    OBVIOUS
  <2> QED
    BY <2>1, <2>2
<1> QED
  BY <1>4

LEMMA Greatest ==
  ASSUME NEW S \in SUBSET Ids, S # {}
  PROVE  \E x \in S : \A y \in S : y <= x
<1> DEFINE Mirror == {MaxId - x : x \in S}
<1>1. Mirror \subseteq Nat /\ Mirror # {}
  BY ListingAssumption DEF Ids
<1>2. PICK m \in Mirror : \A y \in Mirror : m <= y
  BY <1>1, Least
<1>3. PICK x \in S : m = MaxId - x
  BY <1>2
<1>4. ASSUME NEW y \in S
      PROVE  y <= x
  <2>1. MaxId - x <= MaxId - y
    BY <1>2, <1>3
  <2> QED
    BY <2>1, ListingAssumption DEF Ids
<1> QED
  BY <1>3, <1>4

LEMMA IdsAreNumbers == \A id \in Ids : id \in Nat /\ id > 0
BY ListingAssumption DEF Ids

LEMMA FiniteIds ==
  ASSUME NEW S \in SUBSET Ids
  PROVE  IsFiniteSet(S) /\ Cardinality(S) \in Nat
<1>1. IsFiniteSet(Ids)
  BY ListingAssumption, FS_Interval DEF Ids
<1> QED
  BY <1>1, FS_Subset, FS_CardinalityType

LEMMA FewerIds ==
  ASSUME NEW S \in SUBSET Ids, NEW T \in SUBSET S
  PROVE  Cardinality(T) <= Cardinality(S)
BY FiniteIds, FS_Subset

-----------------------------------------------------------------------------
LEMMA ByIdIsLess == \A a, b \in Ids : <<a, b>> \in ById <=> a < b
BY DEF ById

(* The first n rows in id order are an initial piece of the result, all of *)
(* it if they are fewer than n.                                            *)
LEMMA FirstRowsById ==
  ASSUME NEW S \in SUBSET Ids, NEW n \in Nat
  PROVE  /\ FirstRows(S, n, ById) \subseteq S
         /\ \A x \in FirstRows(S, n, ById), y \in S :
              y <= x => y \in FirstRows(S, n, ById)
         /\ Cardinality(FirstRows(S, n, ById)) < n => FirstRows(S, n, ById) = S
         /\ n > 0 /\ S # {} => FirstRows(S, n, ById) # {}
<1> DEFINE F == FirstRows(S, n, ById)
           Under(x) == {y \in S : y < x}
<1>1. F = {x \in S : Cardinality(Under(x)) < n}
  <2>1. \A x \in S : Ahead(S, x, ById) = Under(x)
    BY ByIdIsLess DEF Ahead
  <2> QED
    BY <2>1 DEF FirstRows
<1>2. \A x \in S : Under(x) \subseteq S /\ Cardinality(Under(x)) \in Nat
  BY FiniteIds
<1> HIDE DEF F
<1>3. ASSUME NEW x \in F, NEW y \in S, y <= x
      PROVE  y \in F
  <2>1. Under(y) \subseteq Under(x) /\ Under(x) \subseteq Ids
    BY <1>1, <1>3, IdsAreNumbers
  <2>2. Cardinality(Under(y)) <= Cardinality(Under(x))
    BY <2>1, FewerIds
  <2> QED
    BY <1>1, <1>2, <1>3, <2>2
<1>4. ASSUME Cardinality(F) < n
      PROVE  F = S
  <2> SUFFICES ASSUME S \ F # {}
               PROVE  FALSE
    BY <1>1
  <2>1. PICK x \in S \ F : \A y \in S \ F : x <= y
    BY Least, IdsAreNumbers
  <2>2. Under(x) \in SUBSET F /\ F \in SUBSET Ids
    <3>1. ASSUME NEW y \in S, y < x
          PROVE  y \in F
      <4>1. x \in Nat /\ y \in Nat
        BY <2>1, IdsAreNumbers
      <4> QED
        BY <2>1, <3>1, <4>1
    <3> QED
      BY <1>1, <3>1
  <2>3. Cardinality(Under(x)) <= Cardinality(F) /\ Cardinality(F) \in Nat
    BY <2>2, FewerIds, FiniteIds
  <2> QED
    BY <1>1, <1>2, <1>4, <2>1, <2>3
<1>5. ASSUME n > 0, S # {}
      PROVE  F # {}
  <2>1. PICK x \in S : \A y \in S : x <= y
    BY <1>5, Least, IdsAreNumbers
  <2>2. Under(x) = {}
    BY <2>1, IdsAreNumbers
  <2>3. Cardinality(Under(x)) = 0
    BY <2>2, FS_EmptySet
  <2> QED
    BY <1>1, <1>5, <2>3
<1> QED
  BY <1>1, <1>3, <1>4, <1>5 DEF F

(* What buildCursorPage makes of a fetch: with a next page, exactly the    *)
(* matching users up to nextCursor; without one, all that match.           *)
LEMMA PageIsExact ==
  ASSUME NEW limit \in 1..MaxLimit
  PROVE  LET fetched == Fetched(limit)
             data == PageData(fetched, limit, ById)
             next == NextCursor(fetched, limit, ById)
         IN  /\ HasNextPage(fetched, limit) =>
                  next \in Matching /\ data = {id \in Matching : id <= next}
             /\ ~HasNextPage(fetched, limit) => data = Matching /\ next = NoCursor
<1> DEFINE fetched == Fetched(limit)
           data == PageData(fetched, limit, ById)
           next == NextCursor(fetched, limit, ById)
<1>1. limit \in Nat /\ limit > 0 /\ limit + 1 \in Nat /\ Matching \in SUBSET Ids
  BY ListingAssumption DEF Matching
<1>2. /\ fetched \subseteq Matching
      /\ \A x \in fetched, y \in Matching : y <= x => y \in fetched
      /\ Cardinality(fetched) < limit + 1 => fetched = Matching
  BY <1>1, FirstRowsById DEF Fetched
<1>3. fetched \in SUBSET Ids /\ Cardinality(fetched) \in Nat
  BY <1>1, <1>2, FiniteIds
<1> HIDE DEF fetched
<1>4. CASE HasNextPage(fetched, limit)
  <2>1. data = FirstRows(fetched, limit, ById)
    BY <1>4 DEF PageData
  <2>2. fetched # {}
    BY <1>1, <1>4, FS_EmptySet DEF HasNextPage
  <2>3. /\ data \subseteq fetched
        /\ \A x \in data, y \in fetched : y <= x => y \in data
        /\ data # {}
    BY <1>1, <1>3, <2>1, <2>2, FirstRowsById
  <2> HIDE DEF data
  <2>4. PICK top \in data : \A y \in data : y <= top
    BY <1>3, <2>3, Greatest
  <2>5. \E row \in data : \A other \in data : <<row, other>> \notin ById
    BY <1>3, <2>3, <2>4, IdsAreNumbers, ByIdIsLess
  <2>6. next = LastRow(data, ById)
    BY <1>4 DEF NextCursor, data
  <2>7. next \in data /\ \A other \in data : ~(next < other)
    BY <1>3, <2>3, <2>5, <2>6, ByIdIsLess DEF LastRow
  <2>8. data = {id \in Matching : id <= next}
    BY <1>1, <1>2, <1>3, <2>3, <2>7, IdsAreNumbers
  <2> QED
    BY <1>2, <1>4, <2>3, <2>7, <2>8 DEF data, fetched
<1>5. CASE ~HasNextPage(fetched, limit)
  <2>1. fetched = Matching
    BY <1>1, <1>2, <1>3, <1>5 DEF HasNextPage
  <2> QED
    BY <1>5, <2>1 DEF PageData, NextCursor, fetched
<1> QED
  BY <1>4, <1>5 DEF fetched

-----------------------------------------------------------------------------
(* While the walk is open, the cursor parts the users: whoever was listed  *)
(* is not beyond it, and whoever was there throughout and is not beyond it *)
(* has been listed.                                                        *)
ListedBehind == walk = "open" => \A id \in Ids : listed[id] > 0 => id <= cursor
BehindListed == walk = "open" => \A id \in steady : id <= cursor => listed[id] >= 1

IInv == TypeOK /\ ListedBehind /\ BehindListed /\ NobodyTwice /\ NobodyMissed

LEMMA InitIInv == Init => IInv
BY ListingAssumption
   DEF Init, IInv, TypeOK, ListedBehind, BehindListed, NobodyTwice, NobodyMissed,
       NoCursor, Ids

LEMMA StepIInv == IInv /\ [Next]_vars => IInv'
<1> SUFFICES ASSUME IInv, [Next]_vars
             PROVE  IInv'
  OBVIOUS
<1> USE DEF IInv, TypeOK, ListedBehind, BehindListed, NobodyTwice, NobodyMissed
<1>1. ASSUME NEW id \in Ids, SignUp(id)
      PROVE  IInv'
  BY <1>1 DEF SignUp
<1>2. ASSUME NEW id \in Ids, SoftDelete(id)
      PROVE  IInv'
  BY <1>2 DEF SoftDelete
<1>3. ASSUME NEW limit \in 1..MaxLimit, FindAll(limit)
      PROVE  IInv'
  <2> DEFINE fetched == Fetched(limit)
             data == PageData(fetched, limit, ById)
             next == NextCursor(fetched, limit, ById)
  <2>1. /\ walk = "open" /\ user' = user /\ steady' = steady
        /\ listed' = [id \in Ids |-> IF id \in data THEN listed[id] + 1 ELSE listed[id]]
        /\ cursor' = next
        /\ walk' = IF HasNextPage(fetched, limit) THEN "open" ELSE "ended"
    BY <1>3 DEF FindAll
  <2>2. /\ HasNextPage(fetched, limit) =>
             next \in Matching /\ data = {id \in Matching : id <= next}
        /\ ~HasNextPage(fetched, limit) => data = Matching /\ next = NoCursor
    BY PageIsExact
  <2> HIDE DEF fetched, data, next
  <2>3. \A id \in Matching : id \in Ids /\ id > cursor /\ listed[id] = 0
    BY <2>1 DEF Matching, Ids, NoCursor
  <2>4. \A id \in steady : id \in Ids /\ (id > cursor => id \in Matching)
    BY DEF Matching
  <2>5. CASE HasNextPage(fetched, limit)
    <3>1. TypeOK'
      BY <2>1, <2>2, <2>3, <2>5
    <3>2. ListedBehind' /\ NobodyTwice'
      BY <2>1, <2>2, <2>3, <2>5 DEF Ids, NoCursor
    <3>3. BehindListed'
      BY <2>1, <2>2, <2>3, <2>4, <2>5 DEF Ids, NoCursor
    <3>4. NobodyMissed'
      BY <2>1, <2>5
    <3> QED
      BY <3>1, <3>2, <3>3, <3>4
  <2>6. CASE ~HasNextPage(fetched, limit)
    <3>1. TypeOK'
      BY <2>1, <2>2, <2>6
    <3>2. NobodyTwice'
      BY <2>1, <2>2, <2>3, <2>6 DEF Ids
    <3>3. NobodyMissed'
      BY <2>1, <2>2, <2>3, <2>4, <2>6 DEF Ids, NoCursor
    <3>4. ListedBehind' /\ BehindListed'
      BY <2>1, <2>6
    <3> QED
      BY <3>1, <3>2, <3>3, <3>4
  <2> QED
    BY <2>5, <2>6
<1>4. CASE UNCHANGED vars
  BY <1>4 DEF vars
<1> QED
  BY <1>1, <1>2, <1>3, <1>4 DEF Next

LEMMA Inductive == Spec => []IInv
BY InitIInv, StepIInv, PTL DEF Spec

(* Every variable keeps its type.                                          *)
THEOREM TypeCorrect == Spec => []TypeOK
<1>1. IInv => TypeOK
  BY DEF IInv
<1> QED
  BY <1>1, Inductive, PTL

(* No user is on two pages of a walk.                                      *)
THEOREM ListedOnce == Spec => []NobodyTwice
<1>1. IInv => NobodyTwice
  BY DEF IInv
<1> QED
  BY <1>1, Inductive, PTL

(* A finished walk has shown every user that was there throughout.         *)
THEOREM WalkIsComplete == Spec => []NobodyMissed
<1>1. IInv => NobodyMissed
  BY DEF IInv
<1> QED
  BY <1>1, Inductive, PTL
=============================================================================

---------------------------- MODULE TicketProofs ----------------------------
(***************************************************************************)
(* The accounting of the monolith's tickets, for any number of buyers,     *)
(* baskets, stocks, edits, deletions, draws and failures: nothing is       *)
(* oversold, no ticket is lost, an answer of success has bought the whole  *)
(* basket, a drawn winner had a ticket, a final order stands, and the      *)
(* cached sales summary only ever stays behind.                            *)
(*                                                                         *)
(* What is sold, held and available are sums over lines, checkouts and     *)
(* orders (Totals), so the laws of Total come first. The induction says    *)
(* that the tables are in order (Whole: an identity names one order, its   *)
(* lines are those of its basket, what a checkout has reserved is a        *)
(* beginning of its basket, who was drawn had a ticket) and that the three *)
(* sums of a gift stay together its stock (Accounted). For the summary no  *)
(* line may take tickets away (LinesAdd), and what a dashboard has read so *)
(* far is not ahead of the store, nor of what it reads next (Behind).      *)
(***************************************************************************)
EXTENDS StoreProofs, SalesSummary, FiniteSetTheorems

-----------------------------------------------------------------------------
(* The laws of Total for families of natural numbers with finitely many    *)
(* units: it is a natural number, zero of nothing, adds up over disjoint   *)
(* parts, grows with its members and does not depend on the index set.     *)
(* Each of them is a law of the cardinality of the family's units.         *)

\* A family whose total is the number of its units.
Counts(w) == (\A i \in DOMAIN w : w[i] \in Nat) /\ IsFiniteSet(Units(w))

\* The member at an index, if it is one.
Member(w, i) == IF i \in DOMAIN w THEN w[i] ELSE 0

\* What a unit is.
LEMMA UnitsAre ==
  ASSUME NEW w
  PROVE  \A x : x \in Units(w) <=> \E i \in DOMAIN w : \E n \in 1..w[i] : x = <<i, n>>
<1>1. ASSUME NEW i \in DOMAIN w, NEW x
      PROVE  x \in {i} \X (1..w[i]) <=> \E n \in 1..w[i] : x = <<i, n>>
  OBVIOUS
<1> QED
  BY <1>1 DEF Units

\* Without a positive member there are no units.
LEMMA NoUnits ==
  ASSUME NEW w, \A i \in DOMAIN w : w[i] \in Int /\ w[i] <= 0
  PROVE  Units(w) = {}
<1>1. ASSUME NEW i \in DOMAIN w
      PROVE  1..w[i] = {}
  OBVIOUS
<1> QED
  BY <1>1, UnitsAre

\* The total of a family of natural numbers is the number of its units.
LEMMA TotalCounts ==
  ASSUME NEW w, Counts(w)
  PROVE  Total(w) = Cardinality(Units(w)) /\ Total(w) \in Nat
<1>1. Units([i \in DOMAIN w |-> -w[i]]) = {}
  <2> DEFINE v == [i \in DOMAIN w |-> -w[i]]
  <2>1. \A i \in DOMAIN v : v[i] \in Int /\ v[i] <= 0
    BY DEF Counts
  <2> HIDE DEF v
  <2>2. Units(v) = {}
    BY <2>1, NoUnits
  <2> QED
    BY <2>2 DEF v
<1>2. Cardinality(Units(w)) \in Nat
  BY FS_CardinalityType DEF Counts
<1>3. Cardinality({}) = 0
  BY FS_EmptySet
<1> QED
  BY <1>1, <1>2, <1>3 DEF Total

\* A family over a finite set has finitely many units.
LEMMA FiniteUnits ==
  ASSUME NEW w, IsFiniteSet(DOMAIN w), \A i \in DOMAIN w : w[i] \in Int
  PROVE  IsFiniteSet(Units(w))
<1> DEFINE f == [i \in DOMAIN w |-> {i} \X (1..w[i])]
           R == {{i} \X (1..w[i]) : i \in DOMAIN w}
<1>1. f \in Surjection(DOMAIN w, R)
  BY DEF Surjection
<1>2. IsFiniteSet(R)
  <2> HIDE DEF f, R
  <2> QED
    BY <1>1, FS_Surjection
<1>3. ASSUME NEW i \in DOMAIN w
      PROVE  IsFiniteSet({i} \X (1..w[i]))
  <2>1. IsFiniteSet({i})
    BY FS_Singleton
  <2>2. IsFiniteSet(1..w[i])
    BY FS_Interval
  <2> QED
    BY <2>1, <2>2, FS_Product
<1>4. \A T \in R : IsFiniteSet(T)
  BY <1>3
<1>5. IsFiniteSet(UNION R)
  <2> HIDE DEF f, R
  <2> QED
    BY <1>2, <1>4, FS_UNION
<1> QED
  BY <1>5 DEF Units

LEMMA FiniteCounts ==
  ASSUME NEW w, IsFiniteSet(DOMAIN w), \A i \in DOMAIN w : w[i] \in Nat
  PROVE  Counts(w)
BY FiniteUnits DEF Counts

\* A total of integers is an integer.
LEMMA TotalIsInt ==
  ASSUME NEW w, IsFiniteSet(DOMAIN w), \A i \in DOMAIN w : w[i] \in Int
  PROVE  Total(w) \in Int
<1> DEFINE v == [i \in DOMAIN w |-> -w[i]]
<1>1. DOMAIN v = DOMAIN w /\ \A i \in DOMAIN v : v[i] \in Int
  OBVIOUS
<1> HIDE DEF v
<1>2. IsFiniteSet(Units(v)) /\ IsFiniteSet(Units(w))
  BY <1>1, FiniteUnits
<1>3. Cardinality(Units(v)) \in Nat /\ Cardinality(Units(w)) \in Nat
  BY <1>2, FS_CardinalityType
<1> QED
  BY <1>3 DEF Total, v

\* The total of nothing is zero.
LEMMA TotalOfZeros ==
  ASSUME NEW w, \A i \in DOMAIN w : w[i] = 0
  PROVE  Counts(w) /\ Total(w) = 0
<1>1. Units(w) = {}
  BY NoUnits
<1>2. IsFiniteSet({}) /\ Cardinality({}) = 0
  BY FS_EmptySet
<1>3. Counts(w)
  BY <1>1, <1>2 DEF Counts
<1> QED
  BY <1>1, <1>2, <1>3, TotalCounts

\* A positive total has a positive member.
LEMMA PositiveTotal ==
  ASSUME NEW w, IsFiniteSet(DOMAIN w), \A i \in DOMAIN w : w[i] \in Int, Total(w) > 0
  PROVE  \E i \in DOMAIN w : w[i] > 0
<1> SUFFICES ASSUME \A i \in DOMAIN w : w[i] <= 0
             PROVE  FALSE
  OBVIOUS
<1> DEFINE v == [i \in DOMAIN w |-> -w[i]]
<1>1. DOMAIN v = DOMAIN w /\ \A i \in DOMAIN v : v[i] \in Int
  OBVIOUS
<1> HIDE DEF v
<1>2. Cardinality(Units(v)) \in Nat
  BY <1>1, FiniteUnits, FS_CardinalityType
<1>3. Cardinality(Units(w)) = 0
  BY NoUnits, FS_EmptySet
<1> QED
  BY <1>2, <1>3 DEF Total, v

\* The total of a family that consists of two parts is the sum of theirs.
LEMMA TotalOfParts ==
  ASSUME NEW u, NEW v, NEW w, DOMAIN w = DOMAIN u \cup DOMAIN v, DOMAIN u \cap DOMAIN v = {},
         \A i \in DOMAIN u : w[i] = u[i], \A i \in DOMAIN v : w[i] = v[i],
         Counts(u), Counts(v)
  PROVE  Counts(w) /\ Total(w) = Total(u) + Total(v)
<1>1. Units(w) = Units(u) \cup Units(v)
  BY UnitsAre
<1>2. Units(u) \cap Units(v) = {}
  BY UnitsAre
<1>3. IsFiniteSet(Units(u)) /\ IsFiniteSet(Units(v))
  BY DEF Counts
<1>4. /\ IsFiniteSet(Units(w))
      /\ Cardinality(Units(w)) = Cardinality(Units(u)) + Cardinality(Units(v)) - Cardinality({})
  BY <1>1, <1>2, <1>3, FS_Union
<1>5. Counts(w)
  BY <1>4 DEF Counts
<1>6. Cardinality({}) = 0
  BY FS_EmptySet
<1> QED
  BY <1>4, <1>5, <1>6, TotalCounts

\* A smaller family has a smaller total.
LEMMA TotalGrows ==
  ASSUME NEW v, NEW w, Counts(w), DOMAIN v \subseteq DOMAIN w,
         \A i \in DOMAIN v : v[i] \in Nat /\ v[i] <= w[i]
  PROVE  Counts(v) /\ Total(v) <= Total(w)
<1>1. Units(v) \subseteq Units(w)
  <2>1. \A i \in DOMAIN v : w[i] \in Nat /\ 1..v[i] \subseteq 1..w[i]
    BY DEF Counts
  <2> QED
    BY <2>1, UnitsAre
<1>2. IsFiniteSet(Units(v)) /\ Cardinality(Units(v)) <= Cardinality(Units(w))
  BY <1>1, FS_Subset DEF Counts
<1>3. Counts(v)
  BY <1>2 DEF Counts
<1> QED
  BY <1>2, <1>3, TotalCounts

\* One index more.
LEMMA TotalOfOne ==
  ASSUME NEW j, NEW n \in Nat, NEW w, DOMAIN w = {j}, w[j] = n
  PROVE  Counts(w) /\ Total(w) = n
<1>1. Units(w) = {j} \X (1..n)
  <2>1. Units(w) = UNION {{j} \X (1..n)}
    BY DEF Units
  <2> QED
    BY <2>1
<1>2. IsFiniteSet({j}) /\ Cardinality({j}) = 1
  BY FS_Singleton
<1>3. IsFiniteSet(1..n) /\ Cardinality(1..n) = n
  BY FS_Interval
<1>4. IsFiniteSet(Units(w)) /\ Cardinality(Units(w)) = 1 * n
  BY <1>1, <1>2, <1>3, FS_Product
<1>5. Counts(w)
  BY <1>4 DEF Counts
<1> QED
  BY <1>4, <1>5, TotalCounts

\* A family without one of its members.
LEMMA TotalWithout ==
  ASSUME NEW w, Counts(w), NEW j, NEW v, DOMAIN v = DOMAIN w \ {j}, \A i \in DOMAIN v : v[i] = w[i]
  PROVE  /\ Counts(v) /\ Member(w, j) \in Nat
         /\ Total(w) = Total(v) + Member(w, j)
<1>1. Counts(v) /\ Total(v) <= Total(w)
  BY TotalGrows DEF Counts
<1>2. CASE j \in DOMAIN w
  <2> DEFINE u == [i \in {j} |-> w[j]]
  <2>1. DOMAIN u = {j} /\ u[j] = w[j] /\ w[j] \in Nat
    BY <1>2 DEF Counts
  <2> HIDE DEF u
  <2>2. Counts(u) /\ Total(u) = w[j]
    BY <2>1, TotalOfOne
  <2>3. /\ DOMAIN w = DOMAIN v \cup DOMAIN u /\ DOMAIN v \cap DOMAIN u = {}
        /\ \A i \in DOMAIN u : w[i] = u[i]
        /\ \A i \in DOMAIN v : w[i] = v[i]
    BY <1>2, <2>1
  <2>4. Total(w) = Total(v) + Total(u)
    BY <1>1, <2>2, <2>3, TotalOfParts
  <2> QED
    BY <1>1, <1>2, <2>1, <2>2, <2>4 DEF Member
<1>3. CASE j \notin DOMAIN w
  <2>1. Total(w) <= Total(v)
    BY <1>1, <1>3, TotalGrows DEF Counts
  <2> QED
    BY <1>1, <1>3, <2>1, TotalCounts DEF Member
<1> QED
  BY <1>2, <1>3

\* Two families that differ in one member only.
LEMMA TotalChanges ==
  ASSUME NEW v, NEW w, Counts(v), NEW j,
         DOMAIN v \ {j} = DOMAIN w \ {j}, \A i \in DOMAIN v \ {j} : w[i] = v[i],
         Member(w, j) \in Nat
  PROVE  Counts(w) /\ Total(w) = Total(v) - Member(v, j) + Member(w, j)
<1> DEFINE u == [i \in DOMAIN v \ {j} |-> v[i]]
<1>1. DOMAIN u = DOMAIN v \ {j} /\ \A i \in DOMAIN u : u[i] = v[i] /\ u[i] = w[i]
  OBVIOUS
<1> HIDE DEF u
<1>2. Counts(u) /\ Member(v, j) \in Nat /\ Total(v) = Total(u) + Member(v, j)
  BY <1>1, TotalWithout
<1>3. Counts(w)
  <2>1. CASE j \in DOMAIN w
    <3> DEFINE o == [i \in {j} |-> w[j]]
    <3>1. DOMAIN o = {j} /\ o[j] = w[j] /\ w[j] \in Nat
      BY <2>1 DEF Member
    <3> HIDE DEF o
    <3>2. Counts(o)
      BY <3>1, TotalOfOne
    <3>3. /\ DOMAIN w = DOMAIN u \cup DOMAIN o /\ DOMAIN u \cap DOMAIN o = {}
          /\ \A i \in DOMAIN u : w[i] = u[i]
          /\ \A i \in DOMAIN o : w[i] = o[i]
      BY <1>1, <2>1, <3>1
    <3> QED
      BY <1>2, <3>2, <3>3, TotalOfParts
  <2>2. CASE j \notin DOMAIN w
    <3>1. DOMAIN w = DOMAIN u
      BY <1>1, <2>2
    <3> QED
      BY <1>1, <1>2, <3>1, TotalGrows DEF Counts
  <2> QED
    BY <2>1, <2>2
<1>4. Total(w) = Total(u) + Member(w, j)
  BY <1>1, <1>3, TotalWithout
<1> QED
  BY <1>2, <1>3, <1>4, TotalCounts

\* Renaming the indices changes nothing.
LEMMA TotalOfRenamed ==
  ASSUME NEW v, NEW w, Counts(v), NEW f \in Bijection(DOMAIN v, DOMAIN w),
         \A i \in DOMAIN v : w[f[i]] = v[i]
  PROVE  Counts(w) /\ Total(w) = Total(v)
<1> DEFINE g == [x \in Units(v) |-> <<f[x[1]], x[2]>>]
<1>1. /\ \A i \in DOMAIN v : f[i] \in DOMAIN w
      /\ \A i, k \in DOMAIN v : f[i] = f[k] => i = k
      /\ \A j \in DOMAIN w : \E i \in DOMAIN v : f[i] = j
  BY DEF Bijection, Injection, Surjection, IsInjective
<1>2. \A x \in Units(v) : x = <<x[1], x[2]>> /\ x[1] \in DOMAIN v /\ x[2] \in 1..v[x[1]]
  BY UnitsAre
<1>3. \A x \in Units(v) : g[x] \in Units(w)
  BY <1>1, <1>2, UnitsAre
<1>4. \A x, y \in Units(v) : g[x] = g[y] => x = y
  BY <1>1, <1>2
<1>5. \A y \in Units(w) : \E x \in Units(v) : g[x] = y
  <2> TAKE y \in Units(w)
  <2>1. PICK j \in DOMAIN w : \E n \in 1..w[j] : y = <<j, n>>
    BY UnitsAre
  <2>2. PICK n \in 1..w[j] : y = <<j, n>>
    BY <2>1
  <2>3. PICK i \in DOMAIN v : f[i] = j
    BY <1>1
  <2>4. <<i, n>> \in Units(v)
    BY <2>2, <2>3, UnitsAre
  <2>5. g[<<i, n>>] = y
    BY <2>2, <2>3, <2>4
  <2> QED
    BY <2>4, <2>5
<1>6. g \in Bijection(Units(v), Units(w))
  BY <1>3, <1>4, <1>5 DEF Bijection, Injection, Surjection, IsInjective
<1> HIDE DEF g
<1>7. IsFiniteSet(Units(w)) /\ Cardinality(Units(w)) = Cardinality(Units(v))
  BY <1>6, FS_Bijection DEF Counts, ExistsBijection
<1>8. Counts(w)
  BY <1>1, <1>7 DEF Counts
<1> QED
  BY <1>7, <1>8, TotalCounts

\* Sequences of one length with the same elements are one.
LEMMA SameSequence ==
  ASSUME NEW S, NEW s \in Seq(S), NEW t \in Seq(S), Len(s) = Len(t),
         \A i \in 1..Len(s) : s[i] = t[i]
  PROVE  s = t
<1>1. PICK n \in Nat : n = Len(s)
  OBVIOUS
<1>2. s \in [1..n -> S] /\ t \in [1..n -> S]
  BY <1>1
<1> QED
  BY <1>1, <1>2

-----------------------------------------------------------------------------
(* The lines of a basket, and their number of tickets of a gift.           *)

\* The family that LinesFor sums up.
LineFamily(g, items) == [i \in {j \in DOMAIN items : items[j].gift = g} |-> items[i].qty]

\* A line asks for one ticket or more.
LEMMA LinesAskTickets == \A l \in Line : l.gift \in Gifts /\ l.qty \in Nat /\ l.qty > 0
<1>1. \A n \in 1..MaxLine : n \in Nat /\ n > 0
  BY DEF MaxLine
<1> QED
  BY <1>1 DEF Line

\* A number of lines asks for a number of tickets.
LEMMA LinesCount ==
  ASSUME NEW g, NEW items \in Seq(Line)
  PROVE  Counts(LineFamily(g, items)) /\ LinesFor(g, items) \in Nat
<1> DEFINE w == LineFamily(g, items)
<1>1. /\ DOMAIN w \subseteq 1..Len(items)
      /\ \A i \in DOMAIN w : w[i] \in Nat
  <2>1. \A i \in DOMAIN items : items[i] \in Line
    OBVIOUS
  <2> QED
    BY <2>1, LinesAskTickets DEF LineFamily
<1> HIDE DEF w
<1>2. IsFiniteSet(DOMAIN w)
  <2>1. IsFiniteSet(1..Len(items))
    BY FS_Interval
  <2> QED
    BY <1>1, <2>1, FS_Subset
<1>3. Counts(w)
  BY <1>1, <1>2, FiniteCounts
<1>4. Total(w) \in Nat
  BY <1>3, TotalCounts
<1> QED
  BY <1>3, <1>4 DEF w, LinesFor, LineFamily

LEMMA NoLines ==
  ASSUME NEW g, NEW items \in Seq(Line), Len(items) = 0
  PROVE  LinesFor(g, items) = 0
<1> DEFINE w == LineFamily(g, items)
<1>1. DOMAIN w = {}
  BY DEF LineFamily
<1> HIDE DEF w
<1>2. Total(w) = 0
  BY <1>1, TotalOfZeros
<1> QED
  BY <1>2 DEF w, LinesFor, LineFamily

\* What one line asks for.
Asks(g, l) == IF l.gift = g THEN l.qty ELSE 0

\* One line more.
LEMMA LinesAppended ==
  ASSUME NEW g, NEW items \in Seq(Line), NEW l \in Line
  PROVE  LinesFor(g, Append(items, l)) = LinesFor(g, items) + Asks(g, l)
<1> DEFINE n == Len(items) + 1
           more == Append(items, l)
           v == LineFamily(g, items)
           w == LineFamily(g, more)
<1>1. /\ more \in Seq(Line) /\ n \in Nat /\ DOMAIN items = 1..(n - 1) /\ DOMAIN more = 1..n
      /\ \A i \in 1..(n - 1) : more[i] = items[i]
      /\ more[n] = l
  OBVIOUS
<1>2. Counts(v) /\ Counts(w)
  BY <1>1, LinesCount
<1>3. /\ DOMAIN v = DOMAIN w \ {n}
      /\ \A i \in DOMAIN v : v[i] = w[i]
      /\ Member(w, n) = Asks(g, l)
  BY <1>1 DEF LineFamily, Member, Asks
<1> HIDE DEF v, w
<1>4. Total(w) = Total(v) + Member(w, n)
  BY <1>2, <1>3, TotalWithout
<1> QED
  BY <1>3, <1>4 DEF v, w, LinesFor, LineFamily

\* The first line taken away.
LEMMA LinesTailed ==
  ASSUME NEW g, NEW items \in Seq(Line), Len(items) > 0
  PROVE  LinesFor(g, items) = LinesFor(g, Tail(items)) + Asks(g, Head(items))
<1> DEFINE rest == Tail(items)
           v == LineFamily(g, rest)
           w == LineFamily(g, items)
           u == [i \in DOMAIN w \ {1} |-> w[i]]
           f == [i \in DOMAIN v |-> i + 1]
<1>1. /\ rest \in Seq(Line) /\ Len(items) \in Nat /\ DOMAIN items = 1..Len(items)
      /\ DOMAIN rest = 1..(Len(items) - 1) /\ Head(items) = items[1]
      /\ \A i \in 1..(Len(items) - 1) : rest[i] = items[i + 1]
  OBVIOUS
<1>2. Counts(v) /\ Counts(w)
  BY <1>1, LinesCount
<1>3. Member(w, 1) = Asks(g, Head(items))
  BY <1>1 DEF LineFamily, Member, Asks
<1>4. /\ DOMAIN v = {i \in 1..(Len(items) - 1) : items[i + 1].gift = g}
      /\ DOMAIN u = {i \in 2..Len(items) : items[i].gift = g}
      /\ \A i \in DOMAIN v : v[i] = items[i + 1].qty
      /\ \A i \in DOMAIN u : u[i] = items[i].qty
  BY <1>1 DEF LineFamily
<1>5. f \in Bijection(DOMAIN v, DOMAIN u)
  <2>1. f \in [DOMAIN v -> DOMAIN u]
    BY <1>1, <1>4
  <2>2. \A i, k \in DOMAIN v : f[i] = f[k] => i = k
    BY <1>1, <1>4
  <2>3. ASSUME NEW j \in DOMAIN u
        PROVE  \E i \in DOMAIN v : f[i] = j
    <3>1. j \in 2..Len(items) /\ items[j].gift = g
      BY <1>4
    <3>2. j - 1 \in 1..(Len(items) - 1) /\ (j - 1) + 1 = j
      BY <1>1, <3>1
    <3>3. j - 1 \in DOMAIN v
      BY <1>4, <3>1, <3>2
    <3>4. f[j - 1] = j
      BY <3>2, <3>3
    <3> QED
      BY <3>3, <3>4
  <2> QED
    BY <2>1, <2>2, <2>3 DEF Bijection, Injection, Surjection, IsInjective
<1>6. \A i \in DOMAIN v : u[f[i]] = v[i]
  BY <1>1, <1>4
<1>7. DOMAIN u = DOMAIN w \ {1} /\ \A i \in DOMAIN u : u[i] = w[i]
  OBVIOUS
<1> HIDE DEF u, v, w, f
<1>8. Total(u) = Total(v)
  BY <1>2, <1>5, <1>6, TotalOfRenamed
<1>9. Total(w) = Total(u) + Member(w, 1)
  BY <1>2, <1>7, TotalWithout
<1> QED
  BY <1>3, <1>8, <1>9 DEF v, w, LinesFor, LineFamily

-----------------------------------------------------------------------------
(* The rows a basket becomes.                                              *)

\* The rows of some lines under the identity id, and those that follow it.
RowsOf(items, id) ==
  {[id |-> id + i, order |-> id, gift |-> items[i].gift, qty |-> items[i].qty,
    origin |-> "checkout"] : i \in DOMAIN items}

\* The rows hold as many tickets as the lines asked for, and there are finitely many.
LEMMA RowsHoldLines ==
  ASSUME NEW items \in Seq(Line), NEW id \in Nat
  PROVE  /\ IsFiniteSet(RowsOf(items, id))
         /\ \A t \in RowsOf(items, id) :
              t.qty \in Nat /\ t.order = id /\ t.id > id /\ t.origin = "checkout"
         /\ \A g : Quantity({t \in RowsOf(items, id) : t.gift = g}) = LinesFor(g, items)
<1> DEFINE r(i) == [id |-> id + i, order |-> id, gift |-> items[i].gift, qty |-> items[i].qty,
                    origin |-> "checkout"]
           R == RowsOf(items, id)
<1>1. /\ Len(items) \in Nat /\ DOMAIN items = 1..Len(items)
      /\ \A i \in DOMAIN items : items[i] \in Line /\ items[i].qty \in Nat
  <2>1. \A i \in DOMAIN items : items[i] \in Line
    OBVIOUS
  <2> QED
    BY <2>1, LinesAskTickets
<1>2. R = {r(i) : i \in DOMAIN items}
  BY DEF RowsOf
<1>3. \A i \in DOMAIN items :
        /\ r(i).id = id + i /\ r(i).order = id /\ r(i).qty = items[i].qty
        /\ r(i).gift = items[i].gift /\ r(i).origin = "checkout"
  OBVIOUS
<1> HIDE DEF R, r
<1>4. IsFiniteSet(R)
  <2> DEFINE f == [i \in DOMAIN items |-> r(i)]
  <2>1. f \in Surjection(DOMAIN items, R)
    BY <1>2 DEF Surjection
  <2> HIDE DEF f
  <2>2. IsFiniteSet(DOMAIN items)
    BY <1>1, FS_Interval
  <2> QED
    BY <2>1, <2>2, FS_Surjection
<1>5. \A t \in R : t.qty \in Nat /\ t.order = id /\ t.id > id /\ t.origin = "checkout"
  BY <1>1, <1>2, <1>3
<1>6. ASSUME NEW g
      PROVE  Quantity({t \in R : t.gift = g}) = LinesFor(g, items)
  <2> DEFINE v == LineFamily(g, items)
             w == [t \in {t \in R : t.gift = g} |-> t.qty]
             f == [i \in DOMAIN v |-> r(i)]
  <2>1. /\ DOMAIN v = {j \in DOMAIN items : items[j].gift = g}
        /\ \A i \in DOMAIN v : v[i] = items[i].qty
    BY DEF LineFamily
  <2>2. /\ DOMAIN w = {t \in R : t.gift = g}
        /\ \A t \in DOMAIN w : w[t] = t.qty
    OBVIOUS
  <2>3. f \in Bijection(DOMAIN v, DOMAIN w)
    <3>1. f \in [DOMAIN v -> DOMAIN w]
      BY <1>2, <1>3, <2>1, <2>2
    <3>2. \A i, k \in DOMAIN v : f[i] = f[k] => i = k
      BY <1>1, <1>3, <2>1
    <3>3. \A t \in DOMAIN w : \E i \in DOMAIN v : f[i] = t
      BY <1>2, <1>3, <2>1, <2>2
    <3> HIDE DEF f, v, w
    <3> QED
      BY <3>1, <3>2, <3>3 DEF Bijection, Injection, Surjection, IsInjective
  <2>4. \A i \in DOMAIN v : w[f[i]] = v[i]
    BY <1>2, <1>3, <2>1, <2>2
  <2>5. Counts(v)
    BY LinesCount
  <2> HIDE DEF f, v, w
  <2>6. Total(w) = Total(v)
    BY <2>3, <2>4, <2>5, TotalOfRenamed
  <2> QED
    BY <2>6 DEF v, w, Quantity, LinesFor, LineFamily
<1> QED
  BY <1>4, <1>5, <1>6 DEF R

\* Quantities of disjoint sets of rows add up.
LEMMA QuantitiesAddUp ==
  ASSUME NEW S, NEW T, IsFiniteSet(S), IsFiniteSet(T), S \cap T = {},
         \A t \in S \cup T : t.qty \in Nat
  PROVE  /\ Quantity(S \cup T) = Quantity(S) + Quantity(T)
         /\ Quantity(S) \in Nat /\ Quantity(T) \in Nat
<1> DEFINE u == [t \in S |-> t.qty]
           v == [t \in T |-> t.qty]
           w == [t \in S \cup T |-> t.qty]
<1>1. /\ DOMAIN u = S /\ DOMAIN v = T /\ DOMAIN w = S \cup T
      /\ \A t \in S : u[t] = t.qty /\ w[t] = t.qty
      /\ \A t \in T : v[t] = t.qty /\ w[t] = t.qty
  OBVIOUS
<1> HIDE DEF u, v, w
<1>2. Counts(u) /\ Counts(v)
  BY <1>1, FiniteCounts
<1>3. Total(w) = Total(u) + Total(v)
  <2>1. /\ DOMAIN w = DOMAIN u \cup DOMAIN v /\ DOMAIN u \cap DOMAIN v = {}
        /\ \A t \in DOMAIN u : w[t] = u[t]
        /\ \A t \in DOMAIN v : w[t] = v[t]
    BY <1>1
  <2> QED
    BY <1>2, <2>1, TotalOfParts
<1>4. Total(u) \in Nat /\ Total(v) \in Nat
  BY <1>2, TotalCounts
<1> QED
  BY <1>3, <1>4 DEF u, v, w, Quantity

-----------------------------------------------------------------------------
(* What checkouts and edits leave in the tables.                           *)

\* A checkout reserves its basket line by line, from the first; it commits the whole.
ReservedAlong ==
  \A b \in Buyers :
    /\ pc[b] \in {"check", "gifts"} => reserved[b] = <<>>
    /\ pc[b] = "gifts" => line[b] = 1
    /\ pc[b] = "reserve" => /\ line[b] = Len(reserved[b]) + 1
                            /\ \A i \in DOMAIN reserved[b] : reserved[b][i] = Basket[b][i]
    /\ pc[b] \in {"commit", "invalidate"} => reserved[b] = Basket[b]

\* Who is past the commit and has not failed has an order.
CommittedHaveOrders == \A b \in Buyers : pc[b] \in {"invalidate", "ok"} => OrdersOf(b) # {}

\* The tables in order, when every identity is below n: an identity names one order; only
\* the order of a draft buyer is a draft; the lines a checkout inserted under an order are
\* the rows of its basket, and orders of other buyers have no others.
Books(O, T, n) ==
  /\ IsFiniteSet(O) /\ IsFiniteSet(T)
  /\ \A o \in O : o.id \in Nat /\ o.id < n /\ o.buyer \in Buyers
  /\ \A t \in T : t.order \in Nat /\ t.order < n
  /\ \A o, p \in O : o.id = p.id => o = p
  /\ \A o \in O : o.draft => o.buyer \in DraftBuyers
  /\ \A o \in O : {t \in T : t.order = o.id /\ t.origin = "checkout"} = RowsOf(Basket[o.buyer], o.id)
  /\ \A t \in T, o \in O : t.order = o.id /\ o.buyer \notin DraftBuyers => t.origin = "checkout"
  /\ \A t \in T : t.origin = "checkout" => t.qty \in Nat

\* An edit that goes on has found the order of a draft buyer.
EditsAreOfDrafts ==
  \A r \in Edits : at[r] = "item" =>
    row[r] < nextId /\ \A o \in orders : o.id = row[r] => o.buyer \in DraftBuyers

\* Whoever a draw has chosen has a confirmed ticket of its gift.
HasTicket(g, u, id) ==
  \E t \in tickets, o \in orders :
    /\ t.gift = g /\ t.qty > 0 /\ t.id < id
    /\ o.id = t.order /\ ~o.draft /\ o.user = u
DrawsChooseBuyers ==
  \A d \in Draws : at[d] \in {"purchasers", "insert"} => HasTicket(Target[d], chosen[d], nextId)

Whole ==
  /\ Books(orders, tickets, nextId)
  /\ ReservedAlong /\ CommittedHaveOrders
  /\ EditsAreOfDrafts
  /\ DrawsChooseBuyers /\ DrawnWinnersHadTickets

\* What is held, gift by gift, by the checkouts under way.
HoldFamily(g) == [b \in Buyers |-> Holds(b, g)]
Ledger(g) == Sold(g) + InFlight(g) + avail[g]

\* No checkout was committed twice or has failed after its commit.
BoughtOnce ==
  \A b \in Buyers : /\ \A o, p \in OrdersOf(b) : o.id = p.id
                    /\ OrdersOf(b) # {} => pc[b] \in {"invalidate", "ok", "dead"}

Accounted ==
  /\ \A g \in Gifts : avail[g] >= 0 /\ Counts(HoldFamily(g))
  /\ BoughtOnce => \A g \in Gifts : Ledger(g) <= Stock[g]
  /\ redisFaults = 0 /\ crashes = 0 => \A g \in Gifts : Ledger(g) >= Stock[g]

-----------------------------------------------------------------------------
(* Steps on the books.                                                     *)

\* What checkouts sold, out of a table of tickets.
SoldIn(T, g) == Quantity({t \in T : t.gift = g /\ t.origin = "checkout"})

\* A committed basket goes into the books under a new identity.
LEMMA BooksTakeOrders ==
  ASSUME PurchaseAssumption, NEW O, NEW T, NEW n \in Nat, Books(O, T, n), NEW b \in Buyers,
         NEW id \in Nat, id >= n
  PROVE  /\ Books(O \cup {NewOrder(b, id)}, T \cup RowsOf(Basket[b], id), id + Len(Basket[b]) + 1)
         /\ id + Len(Basket[b]) + 1 \in Nat
         /\ \A g : /\ SoldIn(T \cup RowsOf(Basket[b], id), g) = SoldIn(T, g) + LinesFor(g, Basket[b])
                   /\ SoldIn(T, g) \in Nat
<1> DEFINE new == NewOrder(b, id)
           R == RowsOf(Basket[b], id)
           m == id + Len(Basket[b]) + 1
<1>1. Basket[b] \in Seq(Line) /\ Len(Basket[b]) \in Nat
  BY DEF PurchaseAssumption
<1>2. /\ IsFiniteSet(R)
      /\ \A t \in R : t.qty \in Nat /\ t.order = id /\ t.id > id /\ t.origin = "checkout"
      /\ \A g : Quantity({t \in R : t.gift = g}) = LinesFor(g, Basket[b])
  BY <1>1, RowsHoldLines
<1>3. new.id = id /\ new.buyer = b /\ new.draft = (b \in DraftBuyers)
  BY DEF NewOrder
<1>4. m \in Nat /\ id < m
  BY <1>1
<1> HIDE DEF new, R, m
<1>5. \A t \in T : t.order \in Nat /\ t.order # id /\ t.order < m
  BY <1>4 DEF Books
<1>6. \A o \in O : o.id \in Nat /\ o.id # id /\ o.id < m
  BY <1>4 DEF Books
<1>7. Books(O \cup {new}, T \cup R, m)
  <2>1. IsFiniteSet(O \cup {new}) /\ IsFiniteSet(T \cup R)
    <3>1. IsFiniteSet(O) /\ IsFiniteSet(T)
      BY DEF Books
    <3>2. IsFiniteSet(O \cup {new})
      BY <3>1, FS_AddElement
    <3>3. IsFiniteSet(T \cup R)
      BY <1>2, <3>1, FS_Union
    <3> QED
      BY <3>2, <3>3
  <2>2. \A o \in O \cup {new} : o.id \in Nat /\ o.id < m /\ o.buyer \in Buyers
    BY <1>3, <1>4, <1>6 DEF Books
  <2>3. \A t \in T \cup R : t.order \in Nat /\ t.order < m
    BY <1>2, <1>4, <1>5
  <2>4. \A o, p \in O \cup {new} : o.id = p.id => o = p
    BY <1>3, <1>6 DEF Books
  <2>5. \A o \in O \cup {new} : o.draft => o.buyer \in DraftBuyers
    BY <1>3 DEF Books
  <2>6. ASSUME NEW o \in O \cup {new}
        PROVE  {t \in T \cup R : t.order = o.id /\ t.origin = "checkout"} = RowsOf(Basket[o.buyer], o.id)
    <3>1. CASE o \in O
      <4>1. {t \in T \cup R : t.order = o.id /\ t.origin = "checkout"}
              = {t \in T : t.order = o.id /\ t.origin = "checkout"}
        BY <1>2, <1>6, <3>1
      <4> QED
        BY <3>1, <4>1 DEF Books
    <3>2. CASE o = new
      <4>1. {t \in T \cup R : t.order = id /\ t.origin = "checkout"} = R
        BY <1>2, <1>5
      <4> QED
        BY <1>3, <3>2, <4>1 DEF R
    <3> QED
      BY <3>1, <3>2
  <2>7. \A t \in T \cup R, o \in O \cup {new} :
          t.order = o.id /\ o.buyer \notin DraftBuyers => t.origin = "checkout"
    BY <1>2, <1>3, <1>5 DEF Books
  <2>8. \A t \in T \cup R : t.origin = "checkout" => t.qty \in Nat
    BY <1>2 DEF Books
  <2> QED
    BY <2>1, <2>2, <2>3, <2>4, <2>5, <2>6, <2>7, <2>8 DEF Books
<1>8. ASSUME NEW g
      PROVE  /\ SoldIn(T \cup R, g) = SoldIn(T, g) + LinesFor(g, Basket[b])
             /\ SoldIn(T, g) \in Nat
  <2> DEFINE old == {t \in T : t.gift = g /\ t.origin = "checkout"}
             more == {t \in R : t.gift = g}
  <2>1. {t \in T \cup R : t.gift = g /\ t.origin = "checkout"} = old \cup more
    BY <1>2
  <2>2. old \cap more = {}
    BY <1>2, <1>5
  <2>3. IsFiniteSet(old) /\ IsFiniteSet(more)
    BY <1>2, FS_Subset DEF Books
  <2>4. \A t \in old \cup more : t.qty \in Nat
    BY <1>2 DEF Books
  <2>5. Quantity(more) = LinesFor(g, Basket[b])
    BY <1>2
  <2> HIDE DEF old, more
  <2>6. Quantity(old \cup more) = Quantity(old) + Quantity(more) /\ Quantity(old) \in Nat
    BY <2>2, <2>3, <2>4, QuantitiesAddUp
  <2> QED
    BY <2>1, <2>5, <2>6 DEF SoldIn, old, more
<1> QED
  BY <1>4, <1>7, <1>8 DEF new, R, m

\* The order of a draft buyer may be confirmed,
LEMMA BooksTakeConfirmations ==
  ASSUME NEW O \in SUBSET Order, NEW T, NEW n, Books(O, T, n), NEW o \in O
  PROVE  Books((O \ {o}) \cup {[o EXCEPT !.draft = FALSE]}, T, n)
<1> DEFINE final == [o EXCEPT !.draft = FALSE]
           P == (O \ {o}) \cup {final}
<1>1. final.id = o.id /\ final.buyer = o.buyer /\ final.draft = FALSE
  BY DEF Order
<1>2. \A p \in P : (p \in O /\ p # o) \/ p = final
  OBVIOUS
<1>3. \A p \in P : \E q \in O : q.id = p.id /\ q.buyer = p.buyer
  BY <1>1, <1>2
<1> HIDE DEF final
<1>4. IsFiniteSet(P)
  <2>1. IsFiniteSet(O)
    BY DEF Books
  <2>2. IsFiniteSet(O \ {o})
    BY <2>1, FS_RemoveElement
  <2> QED
    BY <2>2, FS_AddElement
<1>5. \A p, q \in P : p.id = q.id => p = q
  BY <1>1, <1>2 DEF Books
<1>6. \A p \in P : p.draft => p.buyer \in DraftBuyers
  BY <1>1, <1>2 DEF Books
<1> HIDE DEF P
<1>7. \A p \in P : {t \in T : t.order = p.id /\ t.origin = "checkout"} = RowsOf(Basket[p.buyer], p.id)
  <2> TAKE p \in P
  <2>1. PICK q \in O : q.id = p.id /\ q.buyer = p.buyer
    BY <1>3
  <2>2. {t \in T : t.order = q.id /\ t.origin = "checkout"} = RowsOf(Basket[q.buyer], q.id)
    BY DEF Books
  <2> QED
    BY <2>1, <2>2
<1>8. /\ \A p \in P : p.id \in Nat /\ p.id < n /\ p.buyer \in Buyers
      /\ \A t \in T, p \in P : t.order = p.id /\ p.buyer \notin DraftBuyers => t.origin = "checkout"
  BY <1>3 DEF Books
<1>9. /\ IsFiniteSet(T)
      /\ \A t \in T : t.order \in Nat /\ t.order < n
      /\ \A t \in T : t.origin = "checkout" => t.qty \in Nat
  BY DEF Books
<1>10. Books(P, T, n)
  BY <1>4, <1>5, <1>6, <1>7, <1>8, <1>9 DEF Books
<1> QED
  BY <1>10 DEF P, final

\* and take another line.
LEMMA BooksTakeItems ==
  ASSUME NEW O, NEW T, NEW n \in Nat, Books(O, T, n), NEW t, t.origin # "checkout",
         t.order \in Nat, t.order < n, \A o \in O : o.id = t.order => o.buyer \in DraftBuyers
  PROVE  /\ Books(O, T \cup {t}, n + 1)
         /\ \A g : SoldIn(T \cup {t}, g) = SoldIn(T, g)
<1>1. IsFiniteSet(T \cup {t})
  <2>1. IsFiniteSet(T)
    BY DEF Books
  <2> QED
    BY <2>1, FS_AddElement
<1>2. ASSUME NEW o \in O
      PROVE  {x \in T \cup {t} : x.order = o.id /\ x.origin = "checkout"} = RowsOf(Basket[o.buyer], o.id)
  <2>1. {x \in T \cup {t} : x.order = o.id /\ x.origin = "checkout"}
          = {x \in T : x.order = o.id /\ x.origin = "checkout"}
    OBVIOUS
  <2> QED
    BY <2>1 DEF Books
<1>3. /\ \A o \in O : o.id \in Nat /\ o.id < n + 1 /\ o.buyer \in Buyers
      /\ \A x \in T \cup {t} : x.order \in Nat /\ x.order < n + 1
  BY DEF Books
<1>4. /\ \A x \in T \cup {t}, o \in O :
           x.order = o.id /\ o.buyer \notin DraftBuyers => x.origin = "checkout"
      /\ \A x \in T \cup {t} : x.origin = "checkout" => x.qty \in Nat
  BY DEF Books
<1>5. /\ IsFiniteSet(O)
      /\ \A o, p \in O : o.id = p.id => o = p
      /\ \A o \in O : o.draft => o.buyer \in DraftBuyers
  BY DEF Books
<1>6. Books(O, T \cup {t}, n + 1)
  BY <1>1, <1>2, <1>3, <1>4, <1>5 DEF Books
<1>7. ASSUME NEW g
      PROVE  SoldIn(T \cup {t}, g) = SoldIn(T, g)
  <2>1. {x \in T \cup {t} : x.gift = g /\ x.origin = "checkout"}
          = {x \in T : x.gift = g /\ x.origin = "checkout"}
    OBVIOUS
  <2> QED
    BY <2>1 DEF SoldIn
<1> QED
  BY <1>6, <1>7

-----------------------------------------------------------------------------
(* Steps of a checkout.                                                    *)

\* What is reserved grows along the basket.
LEMMA CheckoutsReserveAlong ==
  ASSUME PurchaseAssumption, StoreTypeOK, ReservedAlong, NEW b \in Buyers, Checkout(b)
  PROVE  ReservedAlong'
<1>1. /\ pc \in [Buyers -> PC] /\ line \in [Buyers -> Nat] /\ reserved \in [Buyers -> Seq(Line)]
      /\ Basket[b] \in Seq(Line) /\ Len(Basket[b]) \in Nat /\ DOMAIN Basket[b] = 1..Len(Basket[b])
      /\ line[b] \in 1..Len(Basket[b])
      /\ reserved[b] \in Seq(Line) /\ Len(reserved[b]) \in Nat
      /\ DOMAIN reserved[b] = 1..Len(reserved[b])
  BY TypesByPart DEF CheckoutsTyped, PurchaseAssumption
<1>2. \A c \in Buyers \ {b} : pc'[c] = pc[c] /\ line'[c] = line[c] /\ reserved'[c] = reserved[c]
  BY <1>1 DEF Checkout, CheckoutStep, CheckWon, ReadGifts, Reserve, Commit, Invalidate, Release,
     ReserveThrows, CommitThrows, CommitTwice, QueryThrows, InvalidateThrows, ReleaseThrows, readVars, Go
<1>3. /\ pc'[b] \in {"check", "gifts"} => reserved'[b] = <<>>
      /\ pc'[b] = "gifts" => line'[b] = 1
      /\ pc'[b] = "reserve" => /\ line'[b] = Len(reserved'[b]) + 1
                               /\ \A i \in DOMAIN reserved'[b] : reserved'[b][i] = Basket[b][i]
      /\ pc'[b] \in {"commit", "invalidate"} => reserved'[b] = Basket[b]
  <2>1. CASE CheckWon(b)
    BY <1>1, <2>1 DEF CheckWon, Go, ReservedAlong
  <2>2. CASE ReadGifts(b)
    BY <1>1, <2>2 DEF ReadGifts, Go, ReservedAlong
  <2>3. CASE Reserve(b)
    <3>1. CASE Go(b, "release")
      BY <1>1, <3>1 DEF Go
    <3>2. CASE ~Go(b, "release")
      <4> DEFINE item == Basket[b][line[b]]
      <4>0. PICK n \in Nat : n = Len(reserved[b])
        BY <1>1
      <4>1. /\ pc[b] = "reserve" /\ reserved'[b] = Append(reserved[b], item)
            /\ IF line[b] < Len(Basket[b])
                 THEN line'[b] = line[b] + 1 /\ pc'[b] = "reserve"
                 ELSE pc'[b] = "commit"
        BY <1>1, <2>3, <3>2 DEF Reserve, Go
      <4>2. line[b] = n + 1 /\ \A i \in 1..n : reserved[b][i] = Basket[b][i]
        BY <1>1, <4>0, <4>1 DEF ReservedAlong
      <4>3. /\ reserved'[b] \in Seq(Line) /\ Len(reserved'[b]) = n + 1
            /\ DOMAIN reserved'[b] = 1..(n + 1)
            /\ \A i \in 1..(n + 1) : reserved'[b][i] = Basket[b][i]
        <5>1. item \in Line
          BY <1>1
        <5> HIDE DEF item
        <5>2. /\ Append(reserved[b], item) \in Seq(Line) /\ Len(Append(reserved[b], item)) = n + 1
              /\ \A i \in 1..n : Append(reserved[b], item)[i] = reserved[b][i]
              /\ Append(reserved[b], item)[n + 1] = item
          BY <1>1, <4>0, <5>1
        <5>3. \A i \in 1..(n + 1) : i \in 1..n \/ i = n + 1
          OBVIOUS
        <5> QED
          BY <4>1, <4>2, <5>2, <5>3 DEF item
      <4>4. CASE line[b] < Len(Basket[b])
        BY <1>1, <4>1, <4>2, <4>3, <4>4
      <4>5. CASE ~(line[b] < Len(Basket[b]))
        <5>1. Len(Basket[b]) = n + 1
          <6>1. PICK m \in Nat : m = Len(Basket[b])
            BY <1>1
          <6>2. line[b] \in 1..m /\ ~(line[b] < m)
            BY <1>1, <4>5, <6>1
          <6> QED
            BY <4>2, <6>1, <6>2
        <5>2. reserved'[b] = Basket[b]
          <6>1. PICK s, t : s = reserved'[b] /\ t = Basket[b]
            OBVIOUS
          <6>2. s \in Seq(Line) /\ t \in Seq(Line) /\ Len(s) = n + 1 /\ Len(t) = n + 1
            BY <1>1, <4>3, <5>1, <6>1
          <6>3. \A i \in 1..(n + 1) : s[i] = t[i]
            BY <4>3, <6>1
          <6> QED
            BY <6>1, <6>2, <6>3, SameSequence
        <5> QED
          BY <4>1, <4>5, <5>2
      <4> QED
        BY <4>4, <4>5
    <3> QED
      BY <3>1, <3>2
  <2>4. CASE Commit(b) \/ CommitTwice(b)
    BY <1>1, <2>4 DEF Commit, CommitTwice, Go, ReservedAlong
  <2>5. CASE \/ Invalidate(b) \/ Release(b) \/ ReserveThrows(b) \/ CommitThrows(b)
            \/ QueryThrows(b) \/ InvalidateThrows(b) \/ ReleaseThrows(b)
    <3>1. pc'[b] \notin {"check", "gifts", "reserve", "commit", "invalidate"}
      BY <1>1, <2>5 DEF Invalidate, Release, ReserveThrows, CommitThrows, QueryThrows,
         InvalidateThrows, ReleaseThrows, Go
    <3> QED
      BY <3>1
  <2> QED
    BY <2>1, <2>2, <2>3, <2>4, <2>5 DEF Checkout, CheckoutStep
<1> QED
  BY <1>2, <1>3 DEF ReservedAlong

-----------------------------------------------------------------------------
(* The ledger.                                                             *)

\* What was sold is a number.
LEMMA SalesCount ==
  ASSUME NEW O, NEW T, NEW n, Books(O, T, n), NEW g
  PROVE  SoldIn(T, g) \in Nat
<1> DEFINE sold == {t \in T : t.gift = g /\ t.origin = "checkout"}
<1>1. IsFiniteSet(sold) /\ IsFiniteSet({})
  BY FS_Subset, FS_EmptySet DEF Books
<1>2. \A t \in sold \cup {} : t.qty \in Nat
  BY DEF Books
<1> HIDE DEF sold
<1>3. Quantity(sold) \in Nat
  BY <1>1, <1>2, QuantitiesAddUp
<1> QED
  BY <1>3 DEF SoldIn, sold

\* A checkout holds a number of tickets of a gift.
LEMMA HoldsCount ==
  ASSUME CheckoutsTyped, NEW b \in Buyers, NEW g
  PROVE  Holds(b, g) \in Nat
<1>1. reserved[b] \in Seq(Line)
  BY DEF CheckoutsTyped
<1> QED
  BY <1>1, LinesCount DEF Holds

\* A step of one checkout changes what is in flight by what it holds more or less.
LEMMA InFlightChanges ==
  ASSUME CheckoutsTyped, CheckoutsTyped', NEW b \in Buyers, NEW g, Counts(HoldFamily(g)),
         \A c \in Buyers \ {b} : pc'[c] = pc[c] /\ reserved'[c] = reserved[c]
  PROVE  /\ Counts(HoldFamily(g))'
         /\ InFlight(g) \in Nat /\ InFlight(g)' \in Nat
         /\ Holds(b, g) \in Nat /\ Holds(b, g)' \in Nat
         /\ InFlight(g)' = InFlight(g) - Holds(b, g) + Holds(b, g)'
<1>1. PICK v : v = HoldFamily(g)
  OBVIOUS
<1>2. PICK w : w = HoldFamily(g)'
  OBVIOUS
<1>3. /\ DOMAIN v = Buyers /\ DOMAIN w = Buyers
      /\ \A c \in Buyers : v[c] = Holds(c, g) /\ w[c] = Holds(c, g)'
  BY <1>1, <1>2 DEF HoldFamily
<1>4. \A c \in Buyers \ {b} : w[c] = v[c]
  BY <1>3 DEF Holds
<1>5. Holds(b, g) \in Nat
  BY HoldsCount
<1>6. reserved'[b] \in Seq(Line)
  BY DEF CheckoutsTyped
<1>7. Holds(b, g)' \in Nat
  BY <1>6, LinesCount DEF Holds
<1>8. Member(v, b) = Holds(b, g) /\ Member(w, b) = Holds(b, g)'
  BY <1>3 DEF Member
<1>9. Counts(w) /\ Total(w) = Total(v) - Member(v, b) + Member(w, b)
  BY <1>1, <1>3, <1>4, <1>7, <1>8, TotalChanges
<1>10. Total(v) \in Nat /\ Total(w) \in Nat
  BY <1>1, <1>9, TotalCounts
<1>11. InFlight(g) = Total(v) /\ InFlight(g)' = Total(w)
  BY <1>1, <1>2 DEF InFlight, HoldFamily
<1> QED
  BY <1>2, <1>5, <1>7, <1>8, <1>9, <1>10, <1>11

\* A commit puts the whole basket into the books, once or twice.
LEMMA CommitsSellBaskets ==
  ASSUME PurchaseAssumption, StoreTypeOK, ReservedAlong, Books(orders, tickets, nextId),
         NEW b \in Buyers, pc[b] = "commit", AddOrder(b) \/ CommitTwice(b)
  PROVE  /\ Books(orders, tickets, nextId)'
         /\ \E o \in orders' : o.buyer = b
         /\ CommitTwice(b) => \E o, p \in OrdersOf(b)' : o.id # p.id
         /\ \A g : /\ AddOrder(b) => Sold(g)' = Sold(g) + LinesFor(g, Basket[b])
                   /\ Sold(g)' >= Sold(g) + LinesFor(g, Basket[b])
                   /\ Sold(g) \in Nat /\ Sold(g)' \in Nat
<1> DEFINE new(id) == NewOrder(b, id)
           R(id) == RowsOf(Basket[b], id)
           second == nextId + Len(Basket[b]) + 1
           third == second + Len(Basket[b]) + 1
<1>1. /\ reserved[b] = Basket[b] /\ Basket[b] \in Seq(Line) /\ Len(Basket[b]) \in Nat
      /\ nextId \in Nat
  BY TypesByPart DEF ReservedAlong, TablesTyped, PurchaseAssumption
<1>2. \A id : NewTickets(b, id) = R(id)
  BY <1>1 DEF NewTickets, RowsOf
<1>3. \A g : LinesFor(g, Basket[b]) \in Nat
  BY <1>1, LinesCount
<1>4. /\ Books(orders \cup {new(nextId)}, tickets \cup R(nextId), second)
      /\ second \in Nat
      /\ \A g : /\ SoldIn(tickets \cup R(nextId), g) = SoldIn(tickets, g) + LinesFor(g, Basket[b])
                /\ SoldIn(tickets, g) \in Nat
  <2>1. nextId >= nextId
    BY <1>1
  <2> HIDE DEF second
  <2>2. /\ Books(orders \cup {NewOrder(b, nextId)}, tickets \cup RowsOf(Basket[b], nextId),
                nextId + Len(Basket[b]) + 1)
        /\ nextId + Len(Basket[b]) + 1 \in Nat
        /\ \A g : /\ SoldIn(tickets \cup RowsOf(Basket[b], nextId), g)
                       = SoldIn(tickets, g) + LinesFor(g, Basket[b])
                  /\ SoldIn(tickets, g) \in Nat
    BY <1>1, <2>1, BooksTakeOrders
  <2> QED
    BY <2>2 DEF second
<1>5. second > nextId /\ second >= second
  BY <1>1, <1>4
<1>6. \A id : new(id).buyer = b /\ new(id).id = id
  BY DEF NewOrder
<1>7. \A g : Sold(g) = SoldIn(tickets, g) /\ Sold(g)' = SoldIn(tickets', g)
  BY DEF Sold, SoldIn, Quantity
<1> HIDE DEF new, R, second
<1>8. CASE AddOrder(b)
  <2>1. /\ orders' = orders \cup {new(nextId)} /\ tickets' = tickets \cup R(nextId)
        /\ nextId' = second
    BY <1>1, <1>2, <1>8 DEF AddOrder, new, second
  <2>2. Books(orders, tickets, nextId)'
    BY <1>4, <2>1
  <2>3. \A g : Sold(g)' = Sold(g) + LinesFor(g, Basket[b]) /\ Sold(g) \in Nat /\ Sold(g)' \in Nat
    <3> TAKE g
    <3>1. Sold(g)' = SoldIn(tickets \cup R(nextId), g) /\ Sold(g) = SoldIn(tickets, g)
      BY <1>7, <2>1
    <3>2. /\ SoldIn(tickets \cup R(nextId), g) = SoldIn(tickets, g) + LinesFor(g, Basket[b])
          /\ SoldIn(tickets, g) \in Nat /\ LinesFor(g, Basket[b]) \in Nat
      BY <1>3, <1>4
    <3> QED
      BY <3>1, <3>2
  <2>4. ~CommitTwice(b)
    <3>1. CommitTwice(b) => new(second) \in orders'
      BY <1>1 DEF CommitTwice, new, second
    <3>2. \A o \in orders : o.id < nextId
      BY TypesByPart DEF TablesTyped
    <3>3. new(second).id = second /\ new(nextId).id = nextId
      BY <1>6
    <3> QED
      BY <1>1, <1>4, <1>5, <2>1, <3>1, <3>2, <3>3
  <2>5. \E o \in orders' : o.buyer = b
    BY <1>6, <2>1
  <2>6. \A g : Sold(g)' >= Sold(g) + LinesFor(g, Basket[b])
    BY <1>3, <2>3
  <2> QED
    BY <2>2, <2>3, <2>4, <2>5, <2>6
<1>9. CASE CommitTwice(b)
  <2>1. /\ orders' = (orders \cup {new(nextId)}) \cup {new(second)}
        /\ tickets' = (tickets \cup R(nextId)) \cup R(second)
        /\ nextId' = third
    BY <1>1, <1>2, <1>9 DEF CommitTwice, new, second
  <2>2. /\ Books((orders \cup {new(nextId)}) \cup {new(second)},
                (tickets \cup R(nextId)) \cup R(second), third)
        /\ \A g : SoldIn((tickets \cup R(nextId)) \cup R(second), g)
                   = SoldIn(tickets \cup R(nextId), g) + LinesFor(g, Basket[b])
    <3>1. PICK O : O = orders \cup {new(nextId)}
      OBVIOUS
    <3>2. PICK T : T = tickets \cup R(nextId)
      OBVIOUS
    <3>3. Books(O, T, second)
      BY <1>4, <3>1, <3>2
    <3>4. /\ Books(O \cup {NewOrder(b, second)}, T \cup RowsOf(Basket[b], second),
                  second + Len(Basket[b]) + 1)
          /\ \A g : SoldIn(T \cup RowsOf(Basket[b], second), g) = SoldIn(T, g) + LinesFor(g, Basket[b])
      <4>1. PICK n \in Nat : n = second
        BY <1>4
      <4>2. Books(O, T, n) /\ n >= n
        BY <3>3, <4>1
      <4>3. /\ Books(O \cup {NewOrder(b, n)}, T \cup RowsOf(Basket[b], n), n + Len(Basket[b]) + 1)
            /\ n + Len(Basket[b]) + 1 \in Nat
            /\ \A g : /\ SoldIn(T \cup RowsOf(Basket[b], n), g) = SoldIn(T, g) + LinesFor(g, Basket[b])
                      /\ SoldIn(T, g) \in Nat
        BY <4>2, BooksTakeOrders
      <4> QED
        BY <4>1, <4>3
    <3> QED
      BY <3>1, <3>2, <3>4 DEF new, R
  <2>3. Books(orders, tickets, nextId)'
    BY <2>1, <2>2
  <2>4. \A g : Sold(g)' = Sold(g) + LinesFor(g, Basket[b]) + LinesFor(g, Basket[b])
    BY <1>4, <1>7, <2>1, <2>2
  <2>5. \A g : Sold(g) \in Nat
    BY <1>4, <1>7
  <2>6. \A g : Sold(g)' >= Sold(g) + LinesFor(g, Basket[b]) /\ Sold(g)' \in Nat
    BY <1>3, <2>4, <2>5
  <2>7. /\ new(nextId) \in orders' /\ new(nextId).buyer = b
        /\ new(second) \in orders' /\ new(second).buyer = b
        /\ new(nextId).id # new(second).id
    BY <1>1, <1>4, <1>5, <1>6, <2>1
  <2>8. \E o, p \in OrdersOf(b)' : o.id # p.id
    BY <2>7 DEF OrdersOf
  <2>9. ~AddOrder(b)
    <3>1. AddOrder(b) => orders' = orders \cup {new(nextId)}
      BY DEF AddOrder, new
    <3>2. new(second) \notin orders
      BY <1>5, <1>6, <1>1, <1>4, TypesByPart DEF TablesTyped
    <3> QED
      BY <2>1, <2>7, <3>1, <3>2
  <2> QED
    BY <2>3, <2>5, <2>6, <2>7, <2>8, <2>9
<1> QED
  BY <1>8, <1>9

\* What moves between the counter, the checkout and the tickets in one of its steps:
\* more than that comes in only when it is committed twice or fails after its commit,
\* and something gets lost only when a Redis call fails.
LEMMA CheckoutsMoveTickets ==
  ASSUME PurchaseAssumption, Orderly, StoreTypeOK', Whole, NEW b \in Buyers, Checkout(b),
         NEW g \in Gifts, avail[g] >= 0
  PROVE  /\ avail'[g] >= 0
         /\ BoughtOnce' => Sold(g)' + Holds(b, g)' + avail'[g] <= Sold(g) + Holds(b, g) + avail[g]
         /\ redisFaults' = 0 => Sold(g)' + Holds(b, g)' + avail'[g] >= Sold(g) + Holds(b, g) + avail[g]
<1> DEFINE item == Basket[b][line[b]]
           kept == reserved[b]
<1>1. /\ pc \in [Buyers -> PC] /\ avail \in [Gifts -> Int] /\ reserved \in [Buyers -> Seq(Line)]
      /\ kept \in Seq(Line) /\ Basket[b] \in Seq(Line)
      /\ item \in Line /\ item.gift \in Gifts /\ item.qty \in Nat
      /\ redisFaults \in Nat /\ avail[g] \in Int
  <2>1. /\ pc \in [Buyers -> PC] /\ avail \in [Gifts -> Int] /\ reserved \in [Buyers -> Seq(Line)]
        /\ line[b] \in DOMAIN Basket[b] /\ Basket[b] \in Seq(Line) /\ redisFaults \in Nat
    BY TypesByPart DEF Orderly, CheckoutsTyped, CountersTyped, PurchaseAssumption
  <2>2. item \in Line
    BY <2>1
  <2> QED
    BY <2>1, <2>2, LinesAskTickets
<1>2. /\ Sold(g) \in Nat /\ Holds(b, g) \in Nat
      /\ (tickets' = tickets => Sold(g)' = Sold(g))
  <2>1. Sold(g) = SoldIn(tickets, g)
    BY DEF Sold, SoldIn
  <2>2. Books(orders, tickets, nextId)
    BY DEF Whole
  <2>3. Holds(b, g) \in Nat
    BY HoldsCount, TypesByPart DEF Orderly
  <2>4. tickets' = tickets => Sold(g)' = Sold(g)
    BY DEF Sold
  <2> QED
    BY <2>1, <2>2, <2>3, <2>4, SalesCount
<1>3. /\ Asks(g, item) \in Nat
      /\ CanReserve(item.gift, item.qty) =>
           [avail EXCEPT ![item.gift] = @ - item.qty][g] = avail[g] - Asks(g, item)
      /\ CanReserve(item.gift, item.qty) => avail[g] - Asks(g, item) >= 0
  BY <1>1 DEF Asks, CanReserve
<1>4. /\ LinesFor(g, kept) \in Nat
      /\ Len(kept) = 0 => LinesFor(g, kept) = 0
      /\ LinesFor(g, Append(kept, item)) = LinesFor(g, kept) + Asks(g, item)
  BY <1>1, LinesCount, NoLines, LinesAppended
<1>5. ASSUME kept # <<>>
      PROVE  /\ LinesFor(g, kept) = LinesFor(g, Tail(kept)) + Asks(g, Head(kept))
             /\ LinesFor(g, Tail(kept)) \in Nat /\ Asks(g, Head(kept)) \in Nat
             /\ GivenBack(b)[g] = avail[g] + Asks(g, Head(kept))
  <2>1. Len(kept) > 0 /\ Head(kept) \in Line /\ Tail(kept) \in Seq(Line)
    BY <1>1, <1>5
  <2>2. Head(kept).gift \in Gifts /\ Head(kept).qty \in Nat
    BY <2>1, LinesAskTickets
  <2>3. GivenBack(b) = [avail EXCEPT ![Head(kept).gift] = @ + Head(kept).qty]
    BY DEF GivenBack
  <2>4. /\ Asks(g, Head(kept)) \in Nat
        /\ GivenBack(b)[g] = avail[g] + Asks(g, Head(kept))
    BY <1>1, <2>2, <2>3 DEF Asks
  <2> QED
    BY <1>1, <2>1, <2>4, LinesTailed, LinesCount
<1> HIDE DEF item
<1>6. CASE CheckWon(b) \/ QueryThrows(b) \/ Invalidate(b)
  <2>1. /\ pc[b] \notin {"reserve", "commit", "release"} /\ pc'[b] \notin {"reserve", "commit", "release"}
        /\ tickets' = tickets /\ avail' = avail
    BY <1>1, <1>6 DEF CheckWon, QueryThrows, Invalidate, Go, tables
  <2>2. Holds(b, g) = 0 /\ Holds(b, g)' = 0
    BY <2>1 DEF Holds
  <2> QED
    BY <1>1, <1>2, <2>1, <2>2
<1>7. CASE ReadGifts(b)
  <2>1. pc[b] = "gifts" /\ reserved'[b] = <<>> /\ tickets' = tickets /\ avail' = avail
    BY <1>7 DEF ReadGifts, Whole, ReservedAlong, tables
  <2>2. Holds(b, g) = 0 /\ Holds(b, g)' = 0
    <3>1. kept = <<>> /\ reserved'[b] = kept
      BY <1>7, <2>1 DEF ReadGifts
    <3>2. LinesFor(g, reserved'[b]) = 0
      BY <1>4, <3>1
    <3> QED
      BY <2>1, <3>2 DEF Holds
  <2> QED
    BY <1>1, <1>2, <2>1, <2>2
<1>8. CASE Reserve(b)
  <2>1. tickets' = tickets /\ pc[b] = "reserve"
    BY <1>8 DEF Reserve, tables
  <2>2. CASE UNCHANGED <<avail, reserved>> /\ Go(b, "release")
    <3>1. Holds(b, g)' = Holds(b, g)
      BY <1>1, <2>1, <2>2 DEF Holds, Go
    <3> QED
      BY <1>1, <1>2, <2>1, <2>2, <3>1
  <2>3. CASE ~(UNCHANGED <<avail, reserved>> /\ Go(b, "release"))
    <3>1. /\ CanReserve(item.gift, item.qty)
          /\ avail' = [avail EXCEPT ![item.gift] = @ - item.qty]
          /\ reserved'[b] = Append(kept, item) /\ pc'[b] \in {"reserve", "commit"}
      BY <1>1, <1>8, <2>3 DEF Reserve, Go, item
    <3>2. Holds(b, g) = LinesFor(g, kept) /\ Holds(b, g)' = LinesFor(g, Append(kept, item))
      BY <2>1, <3>1 DEF Holds
    <3> QED
      BY <1>1, <1>2, <1>3, <1>4, <2>1, <3>1, <3>2
  <2> QED
    BY <2>2, <2>3
<1>9. CASE ReserveThrows(b)
  <2>1. /\ tickets' = tickets /\ reserved' = reserved /\ pc[b] = "reserve" /\ pc'[b] = "release"
        /\ redisFaults' = redisFaults + 1
        /\ \/ avail' = avail
           \/ /\ CanReserve(item.gift, item.qty)
              /\ avail' = [avail EXCEPT ![item.gift] = @ - item.qty]
    BY <1>1, <1>9 DEF ReserveThrows, RedisFault, Go, tables, item
  <2>2. Holds(b, g)' = Holds(b, g)
    BY <2>1 DEF Holds
  <2>3. avail'[g] >= 0 /\ avail'[g] <= avail[g] /\ avail'[g] \in Int
    BY <1>1, <1>3, <2>1
  <2> QED
    BY <1>1, <1>2, <2>1, <2>2, <2>3
<1>10. CASE Commit(b) \/ CommitThrows(b) \/ CommitTwice(b)
  <2>1. /\ pc[b] = "commit" /\ avail' = avail /\ reserved' = reserved /\ kept = Basket[b]
        /\ redisFaults' = redisFaults
    BY <1>10 DEF Commit, CommitThrows, CommitTwice, SqlFault, NoFault, Whole, ReservedAlong
  <2>2. Holds(b, g) = LinesFor(g, Basket[b])
    BY <2>1 DEF Holds
  <2>3. CASE UNCHANGED tables /\ CommitThrows(b)
    <3>1. tickets' = tickets /\ pc'[b] = "release"
      BY <1>1, <2>3 DEF CommitThrows, Go, tables
    <3>2. Holds(b, g)' = Holds(b, g)
      BY <2>1, <3>1 DEF Holds
    <3> QED
      BY <1>1, <1>2, <2>1, <3>1, <3>2
  <2>4. CASE AddOrder(b) \/ CommitTwice(b)
    <3>1. /\ AddOrder(b) => Sold(g)' = Sold(g) + LinesFor(g, Basket[b])
          /\ Sold(g)' >= Sold(g) + LinesFor(g, Basket[b])
          /\ Sold(g)' \in Nat
          /\ CommitTwice(b) => \E o, p \in OrdersOf(b)' : o.id # p.id
          /\ \E o \in orders' : o.buyer = b
      BY <2>1, <2>4, CommitsSellBaskets DEF Whole, Orderly
    <3>2. CASE Commit(b)
      <4>1. Holds(b, g)' = 0
        BY <1>1, <3>2 DEF Commit, Go, Holds
      <4>2. AddOrder(b)
        BY <3>2 DEF Commit
      <4> QED
        BY <1>1, <1>2, <1>4, <2>1, <2>2, <3>1, <4>1, <4>2
    <3>3. CASE CommitThrows(b)
      <4>1. pc'[b] = "release" /\ Holds(b, g)' = Holds(b, g)
        BY <1>1, <2>1, <3>3 DEF CommitThrows, Go, Holds
      <4>2. ~BoughtOnce'
        BY <3>1, <4>1 DEF BoughtOnce, OrdersOf
      <4> QED
        BY <1>1, <1>2, <1>4, <2>1, <3>1, <4>1, <4>2
    <3>4. CASE CommitTwice(b)
      <4>1. Holds(b, g)' = 0
        BY <1>1, <3>4 DEF CommitTwice, Go, Holds
      <4>2. ~BoughtOnce'
        BY <3>1, <3>4 DEF BoughtOnce
      <4> QED
        BY <1>1, <1>2, <1>4, <2>1, <2>2, <3>1, <4>1, <4>2
    <3> QED
      BY <1>10, <3>2, <3>3, <3>4
  <2> QED
    BY <1>10, <2>3, <2>4 DEF Commit, CommitThrows
<1>11. CASE InvalidateThrows(b)
  <2>1. /\ pc[b] = "invalidate" /\ pc'[b] = "release" /\ avail' = avail /\ orders' = orders
        /\ redisFaults' = redisFaults + 1
    BY <1>1, <1>11 DEF InvalidateThrows, RedisFault, Go, tables
  <2>2. OrdersOf(b)' # {}
    BY <2>1 DEF Whole, CommittedHaveOrders, OrdersOf
  <2>3. ~BoughtOnce'
    BY <2>1, <2>2 DEF BoughtOnce
  <2> QED
    BY <1>1, <2>1, <2>3
<1>12. CASE Release(b)
  <2>1. tickets' = tickets /\ pc[b] = "release"
    BY <1>12 DEF Release, tables
  <2>2. CASE kept = <<>>
    <3>1. avail' = avail /\ pc'[b] = "error"
      BY <1>1, <1>12, <2>2 DEF Release, Go
    <3>2. Holds(b, g)' = 0
      BY <3>1 DEF Holds
    <3>3. Holds(b, g) = 0
      BY <1>4, <2>2, <2>1 DEF Holds
    <3> QED
      BY <1>1, <1>2, <2>1, <3>1, <3>2, <3>3
  <2>3. CASE kept # <<>>
    <3>1. avail' = GivenBack(b) /\ pc'[b] = "release" /\ reserved'[b] = Tail(kept)
      BY <1>1, <1>12, <2>1, <2>3 DEF Release
    <3>2. Holds(b, g) = LinesFor(g, kept) /\ Holds(b, g)' = LinesFor(g, Tail(kept))
      BY <2>1, <3>1 DEF Holds
    <3> HIDE DEF kept
    <3>3. PICK a \in Nat : a = Asks(g, Head(kept))
      BY <1>5, <2>3
    <3>4. /\ avail'[g] = avail[g] + a /\ Holds(b, g) = Holds(b, g)' + a
          /\ Holds(b, g)' \in Nat
      BY <1>5, <2>3, <3>1, <3>2, <3>3
    <3>5. Sold(g)' + Holds(b, g)' + avail'[g] = Sold(g) + Holds(b, g) + avail[g] /\ avail'[g] >= 0
      BY <1>1, <1>2, <2>1, <3>4
    <3>6. Sold(g)' + Holds(b, g)' + avail'[g] \in Int
      BY <1>1, <1>2, <2>1, <3>4
    <3> QED
      BY <3>5, <3>6
  <2> QED
    BY <2>2, <2>3
<1>13. CASE ReleaseThrows(b)
  <2>1. /\ tickets' = tickets /\ pc[b] = "release" /\ kept # <<>> /\ pc'[b] = "error"
        /\ redisFaults' = redisFaults + 1
        /\ avail' = avail \/ avail' = GivenBack(b)
    BY <1>1, <1>13 DEF ReleaseThrows, RedisFault, Go, tables
  <2>2. Holds(b, g) = LinesFor(g, kept) /\ Holds(b, g)' = 0
    BY <2>1 DEF Holds
  <2>3. /\ avail'[g] \in Int /\ avail'[g] >= 0
        /\ avail'[g] <= avail[g] + Holds(b, g)
    <3> HIDE DEF kept
    <3> QED
      BY <1>1, <1>2, <1>5, <2>1, <2>2
  <2>4. redisFaults' # 0 /\ Sold(g)' = Sold(g)
    BY <1>1, <1>2, <2>1
  <2>5. Sold(g)' + Holds(b, g)' + avail'[g] <= Sold(g) + Holds(b, g) + avail[g]
    BY <1>1, <1>2, <2>2, <2>3, <2>4
  <2> QED
    BY <2>3, <2>4, <2>5
<1> QED
  BY <1>6, <1>7, <1>8, <1>9, <1>10, <1>11, <1>12, <1>13 DEF Checkout, CheckoutStep

\* The tables only grow under a checkout, by orders with new identities.
LEMMA CheckoutsOnlyAdd ==
  ASSUME PurchaseAssumption, StoreTypeOK, NEW b \in Buyers, Checkout(b)
  PROVE  /\ orders \subseteq orders' /\ tickets \subseteq tickets'
         /\ nextId' \in Nat /\ nextId <= nextId'
         /\ \A o \in orders' \ orders : o.id >= nextId
<1>1. nextId \in Nat /\ Len(reserved[b]) \in Nat
  BY NewRowsAreTyped DEF StoreTypeOK, PurchaseTypeOK
<1>2. CASE AddOrder(b) \/ CommitTwice(b)
  <2>1. PICK n \in Nat, k \in Nat : n = nextId /\ k = Len(reserved[b])
    BY <1>1
  <2>2. \A id : NewOrder(b, id).id = id
    BY DEF NewOrder
  <2>3. CASE AddOrder(b)
    <3>1. /\ orders' = orders \cup {NewOrder(b, n)} /\ tickets \subseteq tickets'
          /\ nextId' = n + k + 1
      BY <2>1, <2>3 DEF AddOrder
    <3>2. n + k + 1 \in Nat /\ n <= n + k + 1 /\ n >= n
      OBVIOUS
    <3> QED
      BY <2>1, <2>2, <3>1, <3>2
  <2>4. CASE CommitTwice(b)
    <3>1. PICK m \in Nat : m = n + k + 1
      OBVIOUS
    <3>2. /\ orders' = orders \cup {NewOrder(b, n), NewOrder(b, m)} /\ tickets \subseteq tickets'
          /\ nextId' = m + k + 1
      BY <2>1, <2>4, <3>1 DEF CommitTwice
    <3>3. m + k + 1 \in Nat /\ n <= m + k + 1 /\ n >= n /\ m >= n
      BY <3>1
    <3> QED
      BY <2>1, <2>2, <3>2, <3>3
  <2> QED
    BY <1>2, <2>3, <2>4
<1>3. CASE UNCHANGED tables
  BY <1>1, <1>3 DEF tables
<1> QED
  BY <1>2, <1>3 DEF Checkout, CheckoutStep, CheckWon, ReadGifts, Reserve, Commit, Invalidate,
     Release, ReserveThrows, CommitThrows, QueryThrows, InvalidateThrows, ReleaseThrows

\* A ticket somebody had stays a ticket.
LEMMA TicketsStay ==
  ASSUME NEW g, NEW u, NEW id \in Nat, NEW n \in Nat, id <= n, orders \subseteq Order,
         tickets \subseteq Ticket, tickets \subseteq tickets',
         \A o \in orders : ~o.draft => o \in orders'
  PROVE  HasTicket(g, u, id) => HasTicket(g, u, n)'
<1> SUFFICES ASSUME HasTicket(g, u, id)
             PROVE  HasTicket(g, u, n)'
  OBVIOUS
<1>1. PICK t \in tickets, o \in orders : /\ t.gift = g /\ t.qty > 0 /\ t.id < id
                                        /\ o.id = t.order /\ ~o.draft /\ o.user = u
  BY DEF HasTicket
<1>2. t \in tickets' /\ o \in orders' /\ t.id \in Nat
  BY <1>1 DEF Ticket
<1>3. t.id < n
  BY <1>1, <1>2
<1> QED
  BY <1>1, <1>2, <1>3 DEF HasTicket

\* A checkout keeps the books and what was found in them.
LEMMA CheckoutsStayWhole ==
  ASSUME PurchaseAssumption, StoreAssumption, Orderly, Whole, NEW b \in Buyers, Checkout(b)
  PROVE  Whole'
<1>0. StoreTypeOK
  BY DEF Orderly
<1>1. /\ orders \subseteq orders' /\ tickets \subseteq tickets'
      /\ nextId \in Nat /\ nextId' \in Nat /\ nextId <= nextId'
      /\ \A o \in orders' \ orders : o.id >= nextId
      /\ orders \subseteq Order /\ tickets \subseteq Ticket /\ winners \subseteq Winner
      /\ pc \in [Buyers -> PC] /\ row \in [Requests -> Nat]
  BY <1>0, CheckoutsOnlyAdd, TypesByPart DEF TablesTyped, CheckoutsTyped, RequestsTyped
<1>2. winners' = winners /\ UNCHANGED <<at, chosen, row>>
  BY CheckoutsLeaveWinners DEF requestVars
<1>3. ReservedAlong'
  BY <1>0, CheckoutsReserveAlong DEF Whole
<1>4. Books(orders, tickets, nextId)'
  <2>1. CASE UNCHANGED tables
    BY <2>1 DEF tables, Whole
  <2>2. CASE pc[b] = "commit" /\ (AddOrder(b) \/ CommitTwice(b))
    BY <1>0, <2>2, CommitsSellBaskets DEF Whole
  <2> QED
    BY <2>1, <2>2 DEF Checkout, CheckoutStep, CheckWon, ReadGifts, Reserve, Commit, CommitTwice,
       Invalidate, Release, ReserveThrows, CommitThrows, QueryThrows, InvalidateThrows, ReleaseThrows
<1>5. CommittedHaveOrders'
  <2> SUFFICES ASSUME NEW c \in Buyers, pc'[c] \in {"invalidate", "ok"}
               PROVE  \E o \in orders' : o.buyer = c
    BY DEF CommittedHaveOrders, OrdersOf
  <2>1. CASE pc[c] \in {"invalidate", "ok"}
    BY <1>1, <2>1 DEF Whole, CommittedHaveOrders, OrdersOf
  <2>2. CASE pc[c] \notin {"invalidate", "ok"}
    <3>1. c = b /\ (Commit(b) \/ CommitTwice(b))
      BY <1>1, <2>2 DEF Checkout, CheckoutStep, CheckWon, ReadGifts, Reserve, Invalidate, Release,
         ReserveThrows, Commit, CommitThrows, CommitTwice, QueryThrows, InvalidateThrows, ReleaseThrows, Go
    <3>2. pc[b] = "commit" /\ (AddOrder(b) \/ CommitTwice(b))
      BY <3>1 DEF Commit, CommitTwice
    <3> QED
      BY <1>0, <3>1, <3>2, CommitsSellBaskets DEF Whole
  <2> QED
    BY <2>1, <2>2
<1>6. EditsAreOfDrafts'
  <2> SUFFICES ASSUME NEW r \in Edits, at[r] = "item"
               PROVE  row[r] < nextId' /\ \A o \in orders' : o.id = row[r] => o.buyer \in DraftBuyers
    BY <1>2 DEF EditsAreOfDrafts
  <2>1. row[r] < nextId /\ row[r] \in Nat /\ \A o \in orders : o.id = row[r] => o.buyer \in DraftBuyers
    BY <1>1 DEF Whole, EditsAreOfDrafts, Requests
  <2>2. \A o \in orders' : o \in orders \/ o.id # row[r]
    <3>1. \A o \in Order : o.id \in Nat
      BY DEF Order
    <3>2. orders' \subseteq Order
      BY <1>0, CheckoutStepsKeepTypes DEF StoreTypeOK, PurchaseTypeOK
    <3> QED
      BY <1>1, <2>1, <3>1, <3>2
  <2> QED
    BY <1>1, <2>1, <2>2
<1>7. DrawsChooseBuyers'
  <2> SUFFICES ASSUME NEW d \in Draws, at[d] \in {"purchasers", "insert"}
               PROVE  HasTicket(Target[d], chosen[d], nextId)'
    BY <1>2 DEF DrawsChooseBuyers
  <2>1. HasTicket(Target[d], chosen[d], nextId)
    BY DEF Whole, DrawsChooseBuyers
  <2>2. PICK u : u = chosen[d] /\ u = chosen'[d]
    BY <1>2
  <2>3. PICK n \in Nat : n = nextId'
    BY <1>1
  <2>4. HasTicket(Target[d], u, n)'
    BY <1>1, <2>1, <2>2, <2>3, TicketsStay
  <2> QED
    BY <2>2, <2>3, <2>4 DEF HasTicket
<1>8. DrawnWinnersHadTickets'
  <2> SUFFICES ASSUME NEW w \in winners, w.by \in Draws
               PROVE  HasTicket(w.gift, w.user, w.id)'
    BY <1>2 DEF DrawnWinnersHadTickets, HasTicket
  <2>1. HasTicket(w.gift, w.user, w.id)
    BY DEF Whole, DrawnWinnersHadTickets, HasTicket
  <2>2. w.id \in Nat /\ w.id <= w.id
    BY <1>1 DEF Winner
  <2> QED
    BY <1>1, <2>1, <2>2, TicketsStay
<1> QED
  BY <1>3, <1>4, <1>5, <1>6, <1>7, <1>8 DEF Whole

\* A checkout keeps the ledger.
LEMMA CheckoutsStayAccounted ==
  ASSUME PurchaseAssumption, Orderly, Whole, Accounted, NEW b \in Buyers, Checkout(b)
  PROVE  Accounted'
<1>0. StoreTypeOK /\ StoreTypeOK'
  BY CheckoutStepsKeepTypes DEF Orderly
<1>1. CheckoutsTyped /\ CheckoutsTyped' /\ redisFaults \in Nat
  BY <1>0, TypesByPart DEF CountersTyped, StoreTypeOK, PurchaseTypeOK, CheckoutsTyped
<1>2. /\ \A c \in Buyers \ {b} : pc'[c] = pc[c] /\ reserved'[c] = reserved[c]
      /\ crashes' = crashes /\ redisFaults' \in {redisFaults, redisFaults + 1}
  BY <1>1 DEF CheckoutsTyped, Checkout, CheckoutStep, CheckWon, ReadGifts, Reserve, Commit,
     Invalidate, Release, ReserveThrows, CommitThrows, CommitTwice, QueryThrows, InvalidateThrows,
     ReleaseThrows, readVars, Go, NoFault, SqlFault, RedisFault
<1>3. BoughtOnce' => BoughtOnce
  <2> SUFFICES ASSUME BoughtOnce', NEW c \in Buyers
               PROVE  /\ \A o, p \in OrdersOf(c) : o.id = p.id
                      /\ OrdersOf(c) # {} => pc[c] \in {"invalidate", "ok", "dead"}
    BY DEF BoughtOnce
  <2>1. \A o \in OrdersOf(c) : o \in OrdersOf(c)'
    BY <1>0, CheckoutsOnlyAdd DEF OrdersOf
  <2>2. /\ \A o, p \in OrdersOf(c)' : o.id = p.id
        /\ OrdersOf(c)' # {} => pc'[c] \in {"invalidate", "ok", "dead"}
    BY DEF BoughtOnce
  <2>3. CASE c = b
    <3>1. OrdersOf(b) # {} => pc[b] # "commit"
      BY DEF OrdersOf, Orderly, CheckoutsAreClear, OrdersFollowChecks
    <3>2. pc'[b] \in {"invalidate", "ok", "dead"} => pc[b] \in {"commit", "invalidate", "ok", "dead"}
      BY <1>1 DEF CheckoutsTyped, Checkout, CheckoutStep, CheckWon, ReadGifts, Reserve, Commit,
         Invalidate, Release, ReserveThrows, CommitThrows, CommitTwice, QueryThrows,
         InvalidateThrows, ReleaseThrows, Go
    <3> QED
      BY <2>1, <2>2, <2>3, <3>1, <3>2
  <2>4. CASE c # b
    BY <1>2, <2>1, <2>2, <2>4
  <2> QED
    BY <2>3, <2>4
<1>4. ASSUME NEW g \in Gifts
      PROVE  /\ avail'[g] >= 0 /\ Counts(HoldFamily(g))'
             /\ BoughtOnce' => Ledger(g)' <= Ledger(g)
             /\ redisFaults' = 0 => Ledger(g)' >= Ledger(g)
             /\ Ledger(g) \in Int /\ Ledger(g)' \in Int
  <2>1. /\ avail'[g] >= 0
        /\ BoughtOnce' => Sold(g)' + Holds(b, g)' + avail'[g] <= Sold(g) + Holds(b, g) + avail[g]
        /\ redisFaults' = 0 => Sold(g)' + Holds(b, g)' + avail'[g] >= Sold(g) + Holds(b, g) + avail[g]
    BY <1>0, CheckoutsMoveTickets DEF Accounted
  <2>2. /\ Counts(HoldFamily(g))'
        /\ InFlight(g) \in Nat /\ InFlight(g)' \in Nat
        /\ Holds(b, g) \in Nat /\ Holds(b, g)' \in Nat
        /\ InFlight(g)' = InFlight(g) - Holds(b, g) + Holds(b, g)'
    BY <1>1, <1>2, InFlightChanges DEF Accounted
  <2>3. Sold(g) \in Nat /\ Sold(g)' \in Nat
    <3>1. tickets' = tickets \/ (pc[b] = "commit" /\ (AddOrder(b) \/ CommitTwice(b)))
      BY DEF Checkout, CheckoutStep, CheckWon, ReadGifts, Reserve, Commit, CommitTwice, Invalidate,
         Release, ReserveThrows, CommitThrows, QueryThrows, InvalidateThrows, ReleaseThrows, tables
    <3>2. Sold(g) \in Nat
      <4>1. SoldIn(tickets, g) \in Nat
        BY SalesCount DEF Whole
      <4> QED
        BY <4>1 DEF SoldIn, Sold
    <3>3. tickets' = tickets => Sold(g)' = Sold(g)
      BY DEF Sold
    <3>4. pc[b] = "commit" /\ (AddOrder(b) \/ CommitTwice(b)) => Sold(g)' \in Nat
      BY <1>0, CommitsSellBaskets DEF Whole
    <3> QED
      BY <3>1, <3>2, <3>3, <3>4
  <2>4. avail[g] \in Int /\ avail'[g] \in Int
    BY <1>1 DEF CheckoutsTyped
  <2>5. PICK s \in Nat, t \in Nat, f \in Nat, h \in Nat, j \in Nat, k \in Nat :
          /\ s = Sold(g) /\ t = Sold(g)' /\ f = InFlight(g) /\ h = Holds(b, g)
          /\ j = InFlight(g)' /\ k = Holds(b, g)'
    BY <2>2, <2>3
  <2>6. PICK a \in Int, c \in Int : a = avail[g] /\ c = avail'[g]
    BY <2>4
  <2>7. Ledger(g) = s + f + a /\ Ledger(g)' = t + j + c /\ j = f - h + k
    BY <2>2, <2>5, <2>6 DEF Ledger
  <2>8. /\ BoughtOnce' => t + k + c <= s + h + a
        /\ redisFaults' = 0 => t + k + c >= s + h + a
    BY <2>1, <2>5, <2>6
  <2> HIDE DEF BoughtOnce, Ledger
  <2>9. /\ s + f + a \in Int /\ t + j + c \in Int
        /\ t + k + c <= s + h + a => t + j + c <= s + f + a
        /\ t + k + c >= s + h + a => t + j + c >= s + f + a
    BY <2>7
  <2>10. Ledger(g) \in Int /\ Ledger(g)' \in Int
    BY <2>7, <2>9
  <2>11. BoughtOnce' => Ledger(g)' <= Ledger(g)
    BY <2>7, <2>8, <2>9
  <2>12. redisFaults' = 0 => Ledger(g)' >= Ledger(g)
    BY <2>7, <2>8, <2>9
  <2> QED
    BY <2>1, <2>2, <2>10, <2>11, <2>12
<1>5. \A g \in Gifts : Stock[g] \in Nat
  BY DEF PurchaseAssumption
<1>6. BoughtOnce' => \A g \in Gifts : Ledger(g)' <= Stock[g]
  BY <1>3, <1>4, <1>5 DEF Accounted
<1>7. redisFaults' = 0 /\ crashes' = 0 => \A g \in Gifts : Ledger(g)' >= Stock[g]
  <2>1. redisFaults' = 0 => redisFaults = 0
    BY <1>1, <1>2
  <2> QED
    BY <1>2, <1>4, <1>5, <2>1 DEF Accounted
<1> QED
  BY <1>4, <1>6, <1>7 DEF Accounted

-----------------------------------------------------------------------------
(* Steps of the other requests.                                            *)

\* Books stay in order when identities are taken for other rows.
LEMMA BooksStay ==
  ASSUME NEW O, NEW T, NEW n \in Nat, Books(O, T, n), NEW m \in Nat, n <= m
  PROVE  Books(O, T, m)
<1>1. /\ \A o \in O : o.id \in Nat /\ o.id < m /\ o.buyer \in Buyers
      /\ \A t \in T : t.order \in Nat /\ t.order < m
  BY DEF Books
<1> QED
  BY <1>1 DEF Books

\* No other request takes a ticket away or loses an order, and what one adds to the
\* winners is what it was about to insert.
LEMMA OthersKeepTickets ==
  ASSUME StoreAssumption, StoreTypeOK, OtherStep
  PROVE  /\ tickets \subseteq tickets'
         /\ nextId \in Nat /\ nextId' \in Nat /\ nextId <= nextId'
         /\ \A o \in orders : /\ ~o.draft => o \in orders'
                              /\ \E p \in orders' : p.id = o.id /\ p.buyer = o.buyer
         /\ \A w \in winners' \ winners : \E r \in Draws \cup HandPicks, id \in Nat :
              at[r] = "insert" /\ nextId <= id /\ w = NewWinner(r, id)
         /\ redisFaults' = redisFaults
<1>1. PICK n \in Nat : n = nextId
  BY TypesByPart DEF TablesTyped
<1>2. orders \subseteq Order
  BY TypesByPart DEF TablesTyped
<1>3. CASE UNCHANGED <<orders, tickets, winners, nextId, redisFaults>>
  BY <1>1, <1>3
<1>4. ASSUME NEW r \in Draws \cup HandPicks,
             InsertWinner(r) \/ InsertWinnerTwice(r) \/ InsertWinnerThrows(r)
      PROVE  /\ at[r] = "insert" /\ UNCHANGED <<orders, tickets, redisFaults>>
             /\ \/ UNCHANGED <<winners, nextId>>
                \/ winners' = winners \cup {NewWinner(r, n)} /\ nextId' = n + 1
                \/ winners' = winners \cup {NewWinner(r, n), NewWinner(r, n + 1)} /\ nextId' = n + 2
  BY <1>1, <1>4 DEF InsertWinner, InsertWinnerTwice, InsertWinnerThrows, AddWinner, SqlFault, tables
<1>5. ASSUME NEW r \in Draws \cup HandPicks,
             InsertWinner(r) \/ InsertWinnerTwice(r) \/ InsertWinnerThrows(r)
      PROVE  /\ nextId' \in Nat /\ n <= nextId'
             /\ \A w \in winners' \ winners : \E id \in Nat : n <= id /\ w = NewWinner(r, id)
  <2>1. n \in Nat /\ n + 1 \in Nat /\ n + 2 \in Nat /\ n <= n /\ n <= n + 1 /\ n <= n + 2
    OBVIOUS
  <2> QED
    BY <1>1, <1>4, <1>5, <2>1
<1>6. ASSUME NEW o \in orders, ConfirmOrder(o)
      PROVE  /\ UNCHANGED <<tickets, winners, nextId, redisFaults>>
             /\ \A q \in orders : /\ ~q.draft => q \in orders'
                                  /\ \E p \in orders' : p.id = q.id /\ p.buyer = q.buyer
  <2>1. /\ o.draft /\ orders' = (orders \ {o}) \cup {[o EXCEPT !.draft = FALSE]}
        /\ UNCHANGED <<tickets, winners, nextId, redisFaults>>
    BY <1>6 DEF ConfirmOrder
  <2>2. [o EXCEPT !.draft = FALSE].id = o.id /\ [o EXCEPT !.draft = FALSE].buyer = o.buyer
    BY <1>2 DEF Order
  <2> QED
    BY <2>1, <2>2
<1>7. ASSUME NEW r \in Edits, AddItem(r)
      PROVE  /\ UNCHANGED <<orders, winners, redisFaults>> /\ tickets \subseteq tickets'
             /\ nextId' = n + 1
  BY <1>1, <1>7 DEF AddItem
<1>8. ASSUME NEW w \in winners, DeleteWinner(w)
      PROVE  winners' \subseteq winners /\ UNCHANGED <<orders, tickets, nextId, redisFaults>>
  BY <1>8 DEF DeleteWinner
<1>9. n + 1 \in Nat /\ n <= n + 1 /\ n <= n
  OBVIOUS
<1>10. CASE \E r \in Draws \cup HandPicks :
              InsertWinner(r) \/ InsertWinnerTwice(r) \/ InsertWinnerThrows(r)
  BY <1>1, <1>4, <1>5, <1>10
<1>11. CASE \E o \in orders : ConfirmOrder(o)
  BY <1>1, <1>6, <1>9, <1>11
<1>12. CASE \E r \in Edits : AddItem(r)
  BY <1>1, <1>7, <1>9, <1>12
<1>13. CASE \E w \in winners : DeleteWinner(w)
  BY <1>1, <1>8, <1>9, <1>13
<1>14. CASE \/ \E d \in Draws : StartDraw(d) \/ ReadPool(d)
            \/ \E r \in Draws \cup HandPicks : CheckPurchasers(r) \/ RereadAndMail(r)
            \/ \E r \in Edits : CheckDraft(r)
            \/ \E r \in Deletions : CheckNotOrdered(r) \/ DeleteGift(r)
  BY <1>3, <1>14 DEF StartDraw, ReadPool, CheckPurchasers, RereadAndMail, CheckDraft,
     CheckNotOrdered, DeleteGift, OnlyRequests, tables
<1> QED
  BY <1>10, <1>11, <1>12, <1>13, <1>14 DEF OtherStep

\* The books stay in order.
LEMMA OthersKeepBooks ==
  ASSUME StoreAssumption, StoreTypeOK, Books(orders, tickets, nextId), EditsAreOfDrafts, OtherStep
  PROVE  Books(orders, tickets, nextId)'
<1>1. PICK n \in Nat, m \in Nat : n = nextId /\ m = nextId' /\ n <= m
  BY OthersKeepTickets
<1>2. orders \in SUBSET Order /\ Books(orders, tickets, n)
  BY <1>1, TypesByPart DEF TablesTyped
<1>3. CASE UNCHANGED <<orders, tickets>>
  <2>1. Books(orders, tickets, m)
    BY <1>1, <1>2, BooksStay
  <2> QED
    BY <1>1, <1>3, <2>1
<1>4. CASE \E o \in orders : ConfirmOrder(o)
  <2>1. PICK o \in orders : ConfirmOrder(o)
    BY <1>4
  <2>2. Books((orders \ {o}) \cup {[o EXCEPT !.draft = FALSE]}, tickets, n)
    BY <1>2, BooksTakeConfirmations
  <2>3. /\ orders' = (orders \ {o}) \cup {[o EXCEPT !.draft = FALSE]}
        /\ UNCHANGED <<tickets, nextId>>
    BY <2>1 DEF ConfirmOrder
  <2> QED
    BY <1>1, <2>2, <2>3
<1>5. CASE \E r \in Edits : AddItem(r)
  <2>1. PICK r \in Edits : AddItem(r)
    BY <1>5
  <2>2. PICK q \in EditQuantities, o \in orders :
          /\ o.id = row[r]
          /\ tickets' = tickets \cup {[id |-> nextId, order |-> o.id, gift |-> Target[r], qty |-> q,
                                       origin |-> IF o.draft THEN "edit" ELSE "late"]}
    BY <2>1 DEF AddItem
  <2> DEFINE t == [id |-> nextId, order |-> o.id, gift |-> Target[r], qty |-> q,
                   origin |-> IF o.draft THEN "edit" ELSE "late"]
  <2>3. t.order = o.id /\ t.origin # "checkout" /\ tickets' = tickets \cup {t}
    BY <2>2
  <2>4. t.order \in Nat /\ t.order < n /\ \A p \in orders : p.id = t.order => p.buyer \in DraftBuyers
    BY <1>2, <2>1, <2>2, <2>3 DEF Books, EditsAreOfDrafts, AddItem
  <2>5. orders' = orders /\ nextId' = n + 1
    BY <1>1, <2>1 DEF AddItem
  <2> HIDE DEF t
  <2>6. Books(orders, tickets \cup {t}, n + 1)
    BY <1>2, <2>3, <2>4, BooksTakeItems
  <2> QED
    BY <2>3, <2>5, <2>6
<1> QED
  BY <1>3, <1>4, <1>5 DEF OtherStep, StartDraw, ReadPool, CheckPurchasers, InsertWinner,
     RereadAndMail, InsertWinnerTwice, InsertWinnerThrows, AddWinner, DeleteWinner, CheckDraft,
     CheckNotOrdered, DeleteGift, OnlyRequests, tables

\* The user a draw chooses has a ticket.
LEMMA PoolsAreOfTickets ==
  ASSUME StoreTypeOK, Books(orders, tickets, nextId), NEW g, NEW u \in DOMAIN PoolOf(g),
         PoolOf(g)[u] > 0
  PROVE  HasTicket(g, u, nextId)
<1> DEFINE S == {t \in ConfirmedFor(g) : \E o \in orders : o.id = t.order /\ o.user = u}
           w == [t \in S |-> t.qty]
<1>1. tickets \subseteq Ticket /\ IsFiniteSet(tickets) /\ \A t \in tickets : t.id < nextId
  BY TypesByPart DEF TablesTyped, Books
<1>2. S \subseteq tickets
  BY DEF ConfirmedFor
<1>3. PoolOf(g)[u] = Total(w)
  BY DEF PoolOf, Quantity
<1>4. IsFiniteSet(DOMAIN w) /\ \A t \in DOMAIN w : w[t] \in Int
  <2>1. IsFiniteSet(S)
    BY <1>1, <1>2, FS_Subset
  <2> QED
    BY <1>1, <1>2, <2>1 DEF Ticket
<1>5. DOMAIN w = S /\ \A t \in S : w[t] = t.qty
  OBVIOUS
<1> HIDE DEF w
<1>6. PICK t \in S : t.qty > 0
  BY <1>3, <1>4, <1>5, PositiveTotal
<1>7. t \in tickets /\ t.gift = g /\ IsConfirmed(t)
  BY DEF ConfirmedFor
<1>8. PICK o \in orders : o.id = t.order /\ ~o.draft
  BY <1>7 DEF IsConfirmed
<1>9. PICK p \in orders : p.id = t.order /\ p.user = u
  OBVIOUS
<1>10. o = p
  BY <1>8, <1>9 DEF Books
<1> QED
  BY <1>1, <1>6, <1>7, <1>8, <1>9, <1>10 DEF HasTicket

\* The other requests keep the books and what was found in them.
LEMMA OthersStayWhole ==
  ASSUME PurchaseAssumption, StoreAssumption, Orderly, Whole, OtherStep
  PROVE  Whole'
<1>0. StoreTypeOK
  BY DEF Orderly
<1>1. /\ tickets \subseteq tickets'
      /\ nextId \in Nat /\ nextId' \in Nat /\ nextId <= nextId'
      /\ \A o \in orders : /\ ~o.draft => o \in orders'
                           /\ \E p \in orders' : p.id = o.id /\ p.buyer = o.buyer
      /\ \A w \in winners' \ winners : \E r \in Draws \cup HandPicks, id \in Nat :
           at[r] = "insert" /\ nextId <= id /\ w = NewWinner(r, id)
  BY <1>0, OthersKeepTickets
<1>2. /\ orders \subseteq Order /\ tickets \subseteq Ticket /\ winners \subseteq Winner
      /\ row \in [Requests -> Nat] /\ chosen \in [Draws \cup HandPicks -> Users]
      /\ at \in [Requests -> Done \cup {"won", "pool", "purchasers", "insert", "reread", "draft",
                                        "item", "confirmed", "drafts", "delete"}]
  BY <1>0, TypesByPart DEF TablesTyped, RequestsTyped
<1>3. UNCHANGED <<pc, line, reserved>>
  BY OtherStepsLeaveCheckouts DEF checkoutVars
<1>4. ReservedAlong'
  BY <1>3 DEF Whole, ReservedAlong
<1>5. Books(orders, tickets, nextId)'
  BY <1>0, OthersKeepBooks DEF Whole
<1>6. CommittedHaveOrders'
  <2> SUFFICES ASSUME NEW b \in Buyers, pc[b] \in {"invalidate", "ok"}
               PROVE  \E o \in orders' : o.buyer = b
    BY <1>3 DEF CommittedHaveOrders, OrdersOf
  <2>1. PICK o \in orders : o.buyer = b
    BY DEF Whole, CommittedHaveOrders, OrdersOf
  <2> QED
    BY <1>1, <2>1
<1>7. EditsAreOfDrafts'
  <2> SUFFICES ASSUME NEW r \in Edits, at'[r] = "item"
               PROVE  row'[r] < nextId' /\ \A o \in orders' : o.id = row'[r] => o.buyer \in DraftBuyers
    BY DEF EditsAreOfDrafts
  <2>1. CASE at[r] = "item" /\ row'[r] = row[r]
    <3>1. row[r] < nextId /\ \A o \in orders : o.id = row[r] => o.buyer \in DraftBuyers
      BY <2>1 DEF Whole, EditsAreOfDrafts
    <3>2. \A o \in orders' : \E p \in orders : p.id = o.id /\ p.buyer = o.buyer
      BY <1>0, OthersOnlyAddWinners
    <3>3. row[r] \in Nat
      BY <1>2 DEF Requests
    <3>4. row'[r] < nextId'
      BY <1>1, <2>1, <3>1, <3>3
    <3> QED
      BY <2>1, <3>1, <3>2, <3>4
  <2>2. CASE CheckDraft(r)
    <3>1. PICK o \in orders : \/ o.draft /\ row' = [row EXCEPT ![r] = o.id]
                              \/ ~o.draft /\ To(r, "refused")
      BY <2>2 DEF CheckDraft
    <3>2. o.draft /\ row'[r] = o.id /\ UNCHANGED <<orders, nextId>>
      BY <1>2, <2>2, <3>1 DEF CheckDraft, To, Requests, OnlyRequests, tables
    <3>3. o.id < nextId /\ o.buyer \in DraftBuyers /\ \A p \in orders : p.id = o.id => p = o
      BY <3>2 DEF Whole, Books
    <3> QED
      BY <3>2, <3>3
  <2>3. CASE ~CheckDraft(r)
    <3>1. at[r] = "item" /\ row'[r] = row[r]
      BY <1>2, <2>3, StoreAssumption DEF Requests, OtherStep, StartDraw, ReadPool, CheckPurchasers,
         InsertWinner, RereadAndMail, InsertWinnerTwice, InsertWinnerThrows, DeleteWinner,
         ConfirmOrder, CheckDraft, AddItem, CheckNotOrdered, DeleteGift, To, requestVars
    <3> QED
      BY <2>1, <3>1
  <2> QED
    BY <2>2, <2>3
<1>8. DrawsChooseBuyers'
  <2> SUFFICES ASSUME NEW d \in Draws, at'[d] \in {"purchasers", "insert"}
               PROVE  HasTicket(Target[d], chosen[d], nextId)'
    BY DEF DrawsChooseBuyers
  <2>1. CASE ReadPool(d)
    <3>1. /\ UNCHANGED <<orders, tickets, nextId>>
          /\ \E u \in DOMAIN PoolOf(Target[d]) :
               PoolOf(Target[d])[u] > 0 /\ chosen' = [chosen EXCEPT ![d] = u]
      BY <1>2, <2>1 DEF ReadPool, To, Requests, OnlyRequests, tables
    <3>2. PICK u \in DOMAIN PoolOf(Target[d]) : PoolOf(Target[d])[u] > 0 /\ chosen'[d] = u
      BY <1>2, <3>1
    <3>3. HasTicket(Target[d], u, nextId)
      BY <1>0, <3>2, PoolsAreOfTickets DEF Whole
    <3> QED
      BY <3>1, <3>2, <3>3 DEF HasTicket
  <2>2. CASE ~ReadPool(d)
    <3>1. at[d] \in {"purchasers", "insert"} /\ chosen'[d] = chosen[d]
      BY <1>2, <2>2, StoreAssumption DEF Requests, OtherStep, StartDraw, ReadPool, CheckPurchasers,
         InsertWinner, RereadAndMail, InsertWinnerTwice, InsertWinnerThrows, DeleteWinner,
         ConfirmOrder, CheckDraft, AddItem, CheckNotOrdered, DeleteGift, To, requestVars
    <3>2. PICK u : u = chosen[d]
      OBVIOUS
    <3>3. PICK n \in Nat, m \in Nat : n = nextId /\ m = nextId'
      BY <1>1
    <3>4. HasTicket(Target[d], u, n) /\ n <= m
      BY <1>1, <3>1, <3>2, <3>3 DEF Whole, DrawsChooseBuyers
    <3>5. HasTicket(Target[d], u, m)'
      BY <1>1, <1>2, <3>4, TicketsStay
    <3> QED
      BY <3>1, <3>2, <3>3, <3>5 DEF HasTicket
  <2> QED
    BY <2>1, <2>2
<1>9. DrawnWinnersHadTickets'
  <2> SUFFICES ASSUME NEW w \in winners', w.by \in Draws
               PROVE  HasTicket(w.gift, w.user, w.id)'
    BY DEF DrawnWinnersHadTickets, HasTicket
  <2>1. CASE w \in winners
    <3>1. HasTicket(w.gift, w.user, w.id)
      BY <2>1 DEF Whole, DrawnWinnersHadTickets, HasTicket
    <3>2. w.id \in Nat /\ w.id <= w.id
      BY <1>2, <2>1 DEF Winner
    <3> QED
      BY <1>1, <1>2, <3>1, <3>2, TicketsStay
  <2>2. CASE w \notin winners
    <3>1. PICK r \in Draws \cup HandPicks, id \in Nat :
            at[r] = "insert" /\ nextId <= id /\ w = NewWinner(r, id)
      BY <1>1, <2>2
    <3>2. w.by = r /\ w.gift = Target[r] /\ w.user = chosen[r] /\ w.id = id
      BY <3>1 DEF NewWinner
    <3>3. PICK u : u = chosen[r]
      OBVIOUS
    <3>4. PICK n \in Nat : n = nextId
      BY <1>1
    <3>5. HasTicket(Target[r], u, n) /\ n <= id
      BY <3>1, <3>2, <3>3, <3>4 DEF Whole, DrawsChooseBuyers
    <3>6. HasTicket(Target[r], u, id)'
      BY <1>1, <1>2, <3>5, TicketsStay
    <3> QED
      BY <3>2, <3>3, <3>6
  <2> QED
    BY <2>1, <2>2
<1> QED
  BY <1>4, <1>5, <1>6, <1>7, <1>8, <1>9 DEF Whole

\* They keep the ledger.
LEMMA OthersStayAccounted ==
  ASSUME StoreAssumption, StoreTypeOK, Accounted, OtherStep
  PROVE  Accounted'
<1>1. UNCHANGED <<avail, pc, reserved, crashes>>
  BY OtherStepsLeaveCheckouts DEF checkoutVars
<1>2. \A g : HoldFamily(g)' = HoldFamily(g) /\ InFlight(g)' = InFlight(g)
  BY <1>1 DEF HoldFamily, InFlight, Holds
<1>3. /\ tickets \subseteq tickets' /\ redisFaults' = redisFaults
      /\ \A t \in tickets' \ tickets : t.origin # "checkout"
      /\ \A o \in orders : \E p \in orders' : p.id = o.id /\ p.buyer = o.buyer
  BY OthersKeepTickets, OthersOnlyAddWinners
<1>4. \A g : Sold(g)' = Sold(g)
  <2> TAKE g
  <2>1. {t \in tickets : t.gift = g /\ t.origin = "checkout"}'
          = {t \in tickets : t.gift = g /\ t.origin = "checkout"}
    BY <1>3
  <2> QED
    BY <2>1 DEF Sold, Quantity
<1>5. \A g : Ledger(g)' = Ledger(g)
  BY <1>1, <1>2, <1>4 DEF Ledger
<1>6. BoughtOnce' => BoughtOnce
  BY <1>1, <1>3 DEF BoughtOnce, OrdersOf
<1> QED
  BY <1>1, <1>2, <1>3, <1>5, <1>6 DEF Accounted, Counts

-----------------------------------------------------------------------------
(* The invariants.                                                         *)

\* A crash forgets what was reserved, and that only: the counters do not get it back.
LEMMA CrashStaysWhole ==
  ASSUME StoreAssumption, Orderly, Whole, Accounted, Crash
  PROVE  Whole' /\ Accounted'
<1>1. /\ UNCHANGED <<tables, avail, chosen, row, redisFaults, line>> /\ crashes' = crashes + 1
      /\ pc' = [b \in Buyers |-> IF pc[b] \in AtRest \/ ~Arrived(b) THEN pc[b]
                                 ELSE IF pc[b] = "release" THEN "cut" ELSE "dead"]
      /\ reserved' = [b \in Buyers |-> <<>>]
      /\ at' = [r \in Requests |-> IF at[r] \in Done \cup {FirstStep(r)} THEN at[r] ELSE "dead"]
  BY DEF Crash, CheckoutsDie, readVars
<1>2. /\ crashes \in Nat /\ \A r \in Requests : at'[r] = at[r] \/ at'[r] = "dead"
      /\ CheckoutsTyped
  BY <1>1, TypesByPart DEF Orderly, CountersTyped
<1>3. \A b \in Buyers :
        /\ reserved'[b] = <<>> /\ line'[b] = line[b]
        /\ \/ pc'[b] = pc[b] /\ (pc[b] \in AtRest \/ pc[b] = "check")
           \/ pc[b] = "release" /\ pc'[b] = "cut"
           \/ pc[b] \notin AtRest \cup {"release"} /\ pc'[b] = "dead"
  BY <1>1 DEF Arrived
<1>4. ReservedAlong' /\ CommittedHaveOrders'
  BY <1>1, <1>3 DEF Whole, ReservedAlong, CommittedHaveOrders, OrdersOf, AtRest, tables
<1>5. Books(orders, tickets, nextId)' /\ DrawnWinnersHadTickets'
  BY <1>1 DEF Whole, tables, DrawnWinnersHadTickets
<1>6. EditsAreOfDrafts' /\ DrawsChooseBuyers'
  BY <1>1, <1>2 DEF Whole, tables, EditsAreOfDrafts, DrawsChooseBuyers, HasTicket, Requests
<1>7. ASSUME NEW g \in Gifts
      PROVE  /\ avail'[g] >= 0 /\ Counts(HoldFamily(g))'
             /\ Ledger(g) \in Int /\ Ledger(g)' \in Int /\ Ledger(g)' <= Ledger(g)
  <2>1. PICK w : w = HoldFamily(g)'
    OBVIOUS
  <2>2. ASSUME NEW b \in Buyers
        PROVE  Holds(b, g)' = 0
    <3>1. reserved'[b] \in Seq(Line) /\ Len(reserved'[b]) = 0
      <4>1. <<>> \in Seq(Line) /\ Len(<<>>) = 0
        OBVIOUS
      <4> QED
        BY <1>3, <4>1
    <3>2. LinesFor(g, reserved'[b]) = 0
      BY <3>1, NoLines
    <3> QED
      BY <3>2 DEF Holds
  <2>3. DOMAIN w = Buyers /\ \A b \in DOMAIN w : w[b] = 0
    BY <2>1, <2>2 DEF HoldFamily
  <2>4. Counts(w) /\ Total(w) = 0
    BY <2>3, TotalOfZeros
  <2>5. InFlight(g)' = 0 /\ InFlight(g) \in Nat
    <3>1. PICK v : v = HoldFamily(g)
      OBVIOUS
    <3>2. Total(v) \in Nat
      BY <3>1, TotalCounts DEF Accounted
    <3> QED
      BY <2>1, <2>4, <3>1, <3>2 DEF InFlight, HoldFamily
  <2>6. Sold(g)' = Sold(g) /\ avail' = avail
    BY <1>1 DEF Sold, tables
  <2>7. Sold(g) \in Nat /\ avail[g] \in Int
    <3>1. SoldIn(tickets, g) \in Nat
      BY SalesCount DEF Whole
    <3> QED
      BY <1>2, <3>1 DEF SoldIn, Sold, CheckoutsTyped
  <2>8. Ledger(g) \in Int /\ Ledger(g)' \in Int /\ Ledger(g)' <= Ledger(g)
    BY <2>5, <2>6, <2>7 DEF Ledger
  <2> QED
    BY <2>1, <2>4, <2>6, <2>8 DEF Accounted
<1>8. BoughtOnce' => BoughtOnce
  <2>1. \A b \in Buyers : pc'[b] \in {"invalidate", "ok", "dead"} /\ OrdersOf(b) # {}
                            => pc[b] \in {"invalidate", "ok", "dead"}
    <3> SUFFICES ASSUME NEW b \in Buyers, NEW o \in orders, o.buyer = b,
                        pc'[b] \in {"invalidate", "ok", "dead"}
                 PROVE  pc[b] \in {"invalidate", "ok", "dead"}
      BY DEF OrdersOf
    <3>1. pc[b] \in PC /\ pc[b] \notin {"check", "gifts", "reserve", "commit"}
      BY <1>2 DEF CheckoutsTyped, Orderly, CheckoutsAreClear, OrdersFollowChecks
    <3> QED
      BY <1>3, <3>1 DEF PC, AtRest
  <2>2. \A b \in Buyers : OrdersOf(b)' = OrdersOf(b)
    BY <1>1 DEF OrdersOf, tables
  <2> QED
    BY <2>1, <2>2 DEF BoughtOnce
<1>9. Accounted'
  <2>1. \A g \in Gifts : Stock[g] \in Nat
    BY PurchaseAssumption DEF PurchaseAssumption
  <2>2. BoughtOnce' => \A g \in Gifts : Ledger(g)' <= Stock[g]
    BY <1>7, <1>8, <2>1 DEF Accounted
  <2>3. crashes' # 0
    BY <1>1, <1>2
  <2> QED
    BY <1>7, <2>2, <2>3 DEF Accounted
<1> QED
  BY <1>4, <1>5, <1>6, <1>9 DEF Whole

\* At the beginning nothing is sold and nothing is held.
LEMMA StartsWhole ==
  ASSUME PurchaseAssumption, StoreAssumption, Init
  PROVE  Whole /\ Accounted
<1>1. /\ orders = {} /\ tickets = {} /\ winners = {} /\ nextId = 1 /\ avail = Stock
      /\ \A b \in Buyers : pc[b] = "check" /\ reserved[b] = <<>>
      /\ at = [r \in Requests |-> FirstStep(r)]
  BY DEF Init, PurchaseInit
<1>2. /\ \A r \in Edits : at[r] # "item"
      /\ \A d \in Draws : at[d] \notin {"purchasers", "insert"}
  BY <1>1, StoreAssumption DEF Requests, FirstStep
<1>3. Books(orders, tickets, nextId)
  BY <1>1, FS_EmptySet DEF Books
<1>4. Whole
  BY <1>1, <1>2, <1>3 DEF Whole, ReservedAlong, CommittedHaveOrders, EditsAreOfDrafts,
     DrawsChooseBuyers, DrawnWinnersHadTickets
<1>5. ASSUME NEW g \in Gifts
      PROVE  Stock[g] \in Nat /\ Counts(HoldFamily(g)) /\ Ledger(g) = Stock[g]
  <2>1. Counts(HoldFamily(g)) /\ Total(HoldFamily(g)) = 0
    <3>1. PICK w : w = HoldFamily(g)
      OBVIOUS
    <3>2. DOMAIN w = Buyers /\ \A b \in DOMAIN w : w[b] = 0
      BY <1>1, <3>1 DEF HoldFamily, Holds
    <3> QED
      BY <3>1, <3>2, TotalOfZeros
  <2>2. Sold(g) = 0
    <3> DEFINE w == [t \in {t \in tickets : t.gift = g /\ t.origin = "checkout"} |-> t.qty]
    <3>1. DOMAIN w = {}
      BY <1>1
    <3> HIDE DEF w
    <3>2. Total(w) = 0
      BY <3>1, TotalOfZeros
    <3> QED
      BY <3>2 DEF w, Sold, Quantity
  <2>3. InFlight(g) = 0
    BY <2>1 DEF InFlight, HoldFamily
  <2>4. Stock[g] \in Nat /\ avail[g] = Stock[g]
    BY <1>1 DEF PurchaseAssumption
  <2> QED
    BY <2>1, <2>2, <2>3, <2>4 DEF Ledger
<1>6. Accounted
  BY <1>1, <1>5 DEF Accounted
<1> QED
  BY <1>4, <1>6

\* Every step keeps both.
LEMMA StaysWhole ==
  ASSUME PurchaseAssumption, StoreAssumption, Orderly, Whole, Accounted, [Next]_vars
  PROVE  Whole' /\ Accounted'
<1>1. ASSUME NEW b \in Buyers, Checkout(b)
      PROVE  Whole' /\ Accounted'
  BY <1>1, CheckoutsStayWhole, CheckoutsStayAccounted
<1>2. CASE OtherStep
  BY <1>2, OthersStayWhole, OthersStayAccounted DEF Orderly
<1>3. CASE Crash
  BY <1>3, CrashStaysWhole
<1>4. CASE UNCHANGED vars
  <2>1. UNCHANGED <<tables, avail, pc, line, reserved, redisFaults, crashes, at, chosen, row>>
    BY <1>4 DEF vars, purchaseVars, tables, checkoutVars, requestVars
  <2>2. Books(orders, tickets, nextId)' /\ ReservedAlong' /\ CommittedHaveOrders'
    BY <2>1 DEF tables, Whole, ReservedAlong, CommittedHaveOrders, OrdersOf
  <2>3. EditsAreOfDrafts' /\ DrawsChooseBuyers' /\ DrawnWinnersHadTickets'
    BY <2>1 DEF tables, Whole, EditsAreOfDrafts, DrawsChooseBuyers, HasTicket, DrawnWinnersHadTickets
  <2>4. \A g : HoldFamily(g)' = HoldFamily(g) /\ Ledger(g)' = Ledger(g)
    BY <2>1 DEF tables, HoldFamily, Holds, Ledger, Sold, InFlight
  <2>5. BoughtOnce' => BoughtOnce
    BY <2>1 DEF tables, BoughtOnce, OrdersOf
  <2>6. Accounted'
    BY <2>1, <2>4, <2>5 DEF Accounted, Counts
  <2> QED
    BY <2>2, <2>3, <2>6 DEF Whole
<1> QED
  BY <1>1, <1>2, <1>3, <1>4 DEF Next, OtherStep

LEMMA AlwaysWhole == Spec => [](Orderly /\ Whole /\ Accounted)
<1>1. Init => Orderly /\ Whole /\ Accounted
  BY StartsOrderly, StartsWhole, PurchaseAssumption, StoreAssumption
<1>2. Orderly /\ Whole /\ Accounted /\ [Next]_vars => Orderly' /\ Whole' /\ Accounted'
  BY StaysOrderly, StaysWhole, PurchaseAssumption, StoreAssumption
<1> QED
  BY <1>1, <1>2, PTL DEF Spec

-----------------------------------------------------------------------------
(* The theorems.                                                           *)

\* A set of one element or none is a set of one element or none.
LEMMA OneOrNone ==
  ASSUME NEW S, IsFiniteSet(S), Cardinality(S) <= 1
  PROVE  \A x, y \in S : x = y
<1> SUFFICES ASSUME NEW x \in S, NEW y \in S, x # y
             PROVE  FALSE
  OBVIOUS
<1>1. {x, y} \subseteq S
  OBVIOUS
<1>2. IsFiniteSet({x}) /\ Cardinality({x}) = 1
  BY FS_Singleton
<1>3. Cardinality({x} \cup {y}) = 2
  BY <1>2, FS_AddElement
<1>4. {x} \cup {y} = {x, y}
  OBVIOUS
<1>5. Cardinality({x, y}) <= Cardinality(S)
  BY <1>1, FS_Subset
<1>6. Cardinality(S) \in Nat
  BY FS_CardinalityType
<1> QED
  BY <1>3, <1>4, <1>5, <1>6

\* As long as no checkout failed after its commit and none was committed twice, what is
\* sold, what checkouts hold and what is on sale never exceed what the counter was seeded
\* with, for any number of checkouts, baskets, failures and crashes.
THEOREM NothingIsOversold == Spec => []NoOversell
<1>1. ASSUME Orderly, Whole, Accounted
      PROVE  NoOversell
  <2>1. IsFiniteSet(orders)
    BY <1>1 DEF Whole, Books
  <2>2. \A b \in Buyers : IsFiniteSet(OrdersOf(b))
    BY <2>1, FS_Subset DEF OrdersOf
  <2>3. (\A b \in Buyers : /\ Cardinality(OrdersOf(b)) <= 1
                           /\ OrdersOf(b) # {} => pc[b] \in {"invalidate", "ok", "dead"})
          => BoughtOnce
    BY <2>2, OneOrNone DEF BoughtOnce
  <2>4. \A g \in Gifts : Ledger(g) = Sold(g) + InFlight(g) + avail[g]
    BY DEF Ledger
  <2> QED
    BY <1>1, <2>3, <2>4 DEF Accounted, NoOversell
<1> QED
  BY <1>1, AlwaysWhole, PTL

\* Unless a Redis call failed or the process died, every ticket that was seeded is sold,
\* held by a checkout or on sale: a failed checkout gives back all it took.
THEOREM TicketsComeBack == Spec => []NoTicketIsLost
<1>1. ASSUME Accounted
      PROVE  NoTicketIsLost
  BY <1>1 DEF Accounted, Ledger, NoTicketIsLost
<1> QED
  BY <1>1, AlwaysWhole, PTL

\* A checkout that ended well has an order with the quantities of its basket, gift by gift.
THEOREM OkBuysTheBasket == Spec => []OkMeansBought
<1>1. ASSUME Whole
      PROVE  OkMeansBought
  <2> SUFFICES ASSUME NEW b \in Buyers, pc[b] = "ok"
               PROVE  \E o \in OrdersOf(b) : \A g \in Gifts :
                        Quantity({t \in tickets : t.order = o.id /\ t.gift = g /\ t.origin = "checkout"})
                          = LinesFor(g, Basket[b])
    BY DEF OkMeansBought
  <2>1. PICK o \in OrdersOf(b) : TRUE
    BY <1>1 DEF Whole, CommittedHaveOrders
  <2>2. o \in orders /\ o.buyer = b /\ o.id \in Nat /\ Basket[b] \in Seq(Line)
    BY <1>1, PurchaseAssumption DEF OrdersOf, Whole, Books, PurchaseAssumption
  <2>3. {t \in tickets : t.order = o.id /\ t.origin = "checkout"} = RowsOf(Basket[b], o.id)
    BY <1>1, <2>2 DEF Whole, Books
  <2>4. \A g : Quantity({t \in RowsOf(Basket[b], o.id) : t.gift = g}) = LinesFor(g, Basket[b])
    BY <2>2, RowsHoldLines
  <2>5. \A g : {t \in tickets : t.order = o.id /\ t.gift = g /\ t.origin = "checkout"}
                 = {t \in RowsOf(Basket[b], o.id) : t.gift = g}
    BY <2>3
  <2> QED
    BY <2>4, <2>5
<1> QED
  BY <1>1, AlwaysWhole, PTL

\* Every winner a draw recorded, the duplicates of repeated inserts included, had a
\* confirmed ticket of the gift before.
THEOREM WinnersHadTickets == Spec => []DrawnWinnersHadTickets
<1>1. Whole => DrawnWinnersHadTickets
  BY DEF Whole
<1> QED
  BY <1>1, AlwaysWhole, PTL

\* The lines of an order that was not placed as a draft are those of its basket for good,
\* although an edit looks at the order one call before it inserts.
THEOREM FinalOrdersAreFinal == Spec => []FinalOrdersStand
<1>1. ASSUME Whole
      PROVE  FinalOrdersStand
  <2> SUFFICES ASSUME NEW o \in orders, o.buyer \notin DraftBuyers
               PROVE  LET lines == {t \in tickets : t.order = o.id}
                      IN  /\ \A t \in lines : t.origin = "checkout"
                          /\ \A g \in Gifts :
                               Quantity({t \in lines : t.gift = g}) = LinesFor(g, Basket[o.buyer])
    BY DEF FinalOrdersStand
  <2> DEFINE lines == {t \in tickets : t.order = o.id}
  <2>1. o.id \in Nat /\ o.buyer \in Buyers /\ Basket[o.buyer] \in Seq(Line)
    BY <1>1, PurchaseAssumption DEF Whole, Books, PurchaseAssumption
  <2>2. \A t \in lines : t.origin = "checkout"
    BY <1>1 DEF Whole, Books
  <2>3. lines = RowsOf(Basket[o.buyer], o.id)
    <3>1. {t \in tickets : t.order = o.id /\ t.origin = "checkout"} = RowsOf(Basket[o.buyer], o.id)
      BY <1>1 DEF Whole, Books
    <3> QED
      BY <2>2, <3>1
  <2>4. \A g : Quantity({t \in RowsOf(Basket[o.buyer], o.id) : t.gift = g}) = LinesFor(g, Basket[o.buyer])
    BY <2>1, RowsHoldLines
  <2> HIDE DEF lines
  <2>5. \A g \in Gifts : Quantity({t \in lines : t.gift = g}) = LinesFor(g, Basket[o.buyer])
    BY <2>3, <2>4
  <2> QED
    BY <2>2, <2>5 DEF lines
<1> QED
  BY <1>1, AlwaysWhole, PTL

-----------------------------------------------------------------------------
(* The dashboard.                                                          *)

\* A larger set of rows holds more.
LEMMA QuantitiesGrow ==
  ASSUME NEW T, IsFiniteSet(T), NEW S \in SUBSET T, \A t \in T : t.qty \in Nat
  PROVE  Quantity(S) \in Nat /\ Quantity(T) \in Nat /\ Quantity(S) <= Quantity(T)
<1> DEFINE v == [t \in S |-> t.qty]
           w == [t \in T |-> t.qty]
<1>1. /\ DOMAIN v = S /\ DOMAIN w = T
      /\ \A t \in S : v[t] \in Nat /\ v[t] <= w[t]
      /\ \A t \in T : w[t] \in Nat
  OBVIOUS
<1> HIDE DEF v, w
<1>2. Counts(w)
  BY <1>1, FiniteCounts
<1>3. Counts(v) /\ Total(v) <= Total(w)
  BY <1>1, <1>2, TotalGrows
<1>4. Total(v) \in Nat /\ Total(w) \in Nat
  BY <1>2, <1>3, TotalCounts
<1> QED
  BY <1>3, <1>4 DEF v, w, Quantity

LEMMA QuantityIsInt ==
  ASSUME NEW S, IsFiniteSet(S), \A t \in S : t.qty \in Int
  PROVE  Quantity(S) \in Int
<1> DEFINE w == [t \in S |-> t.qty]
<1>1. DOMAIN w = S /\ \A i \in DOMAIN w : w[i] \in Int
  OBVIOUS
<1> HIDE DEF w
<1>2. Total(w) \in Int
  BY <1>1, TotalIsInt
<1> QED
  BY <1>2 DEF w, Quantity

\* No gift is deleted, and no confirmed line takes tickets away.
LinesAdd == \A t \in Confirmed : t.qty >= 0
Regular == live = Gifts /\ LinesAdd

\* How far a dashboard request has got at its call number c: the revenue and the orders it
\* has read are not ahead of the store ...
NotAhead(c, F) ==
  /\ c >= 2 => F.revenue <= Now.revenue
  /\ c >= 3 => F.orders <= Now.orders

\* ... nor are the tickets, nor is anything ahead of what it read later, in a store where
\* lines only add and no gift is gone.
Behind(c, F) ==
  /\ c >= 4 => F.tickets <= Now.tickets /\ F.revenue <= F.tickets /\ F.orders <= F.tickets
  /\ c >= 5 => F.perGift <= Now.perGift /\ F.tickets <= F.perGift

Figures == [Fields -> Int]

\* What is true of a summary that has got as far as call number c.
Trails(c, F) == NotAhead(c, F) /\ (Regular => Behind(c, F))

SummariesTrail ==
  /\ call \in [Readers -> 0..5] /\ figures \in [Readers -> Figures]
  /\ cache # NoEntry => cache \in [figures: Figures, age: Int, idle: Int]
  /\ \A r \in Readers : Trails(call[r], figures[r])
  /\ cache # NoEntry => Trails(5, cache.figures)

\* A confirmed order has a ticket, and every ticket of a gift that is there is counted by
\* the last query.
LEMMA NowAddsUp ==
  ASSUME PurchaseAssumption, StoreTypeOK, Whole
  PROVE  /\ Now \in Figures
         /\ LinesAdd => Now.orders <= Now.tickets /\ Now.revenue <= Now.tickets
         /\ live = Gifts => Now.perGift = Now.tickets
<1> DEFINE final == {o \in orders : ~o.draft}
<1>1. /\ IsFiniteSet(Confirmed) /\ IsFiniteSet(final)
      /\ \A t \in Confirmed : t.qty \in Int /\ t.gift \in Gifts
  <2>1. tickets \subseteq Ticket /\ IsFiniteSet(tickets) /\ IsFiniteSet(orders)
    BY TypesByPart DEF TablesTyped, Whole, Books
  <2>2. Confirmed \subseteq tickets /\ final \subseteq orders
    BY DEF Confirmed
  <2>3. IsFiniteSet(Confirmed) /\ IsFiniteSet(final)
    BY <2>1, <2>2, FS_Subset
  <2> QED
    BY <2>1, <2>2, <2>3 DEF Ticket
<1>2. Cardinality(final) \in Nat
  BY <1>1, FS_CardinalityType
<1>3. \A S \in SUBSET Confirmed : IsFiniteSet(S) /\ Quantity(S) \in Int
  <2> SUFFICES ASSUME NEW S \in SUBSET Confirmed
               PROVE  IsFiniteSet(S) /\ Quantity(S) \in Int
    OBVIOUS
  <2>1. IsFiniteSet(S)
    BY <1>1, FS_Subset
  <2> QED
    BY <1>1, <2>1, QuantityIsInt
<1>4. LinesAdd => Quantity({t \in Confirmed : t.origin = "checkout"}) <= Quantity(Confirmed)
  <2> SUFFICES ASSUME LinesAdd
               PROVE  Quantity({t \in Confirmed : t.origin = "checkout"}) <= Quantity(Confirmed)
    OBVIOUS
  <2>1. {t \in Confirmed : t.origin = "checkout"} \subseteq Confirmed
    OBVIOUS
  <2>2. \A t \in Confirmed : t.qty \in Nat
    BY <1>1 DEF LinesAdd
  <2> QED
    BY <1>1, <2>1, <2>2, QuantitiesGrow
<1>5. /\ Quantity({t \in Confirmed : t.gift \in live}) \in Int
      /\ Quantity({t \in Confirmed : t.origin = "checkout"}) \in Int
      /\ Quantity(Confirmed) \in Int
  BY <1>3
<1>6. live = Gifts => {t \in Confirmed : t.gift \in live} = Confirmed
  BY <1>1
<1>7. LinesAdd => Cardinality(final) <= Quantity(Confirmed)
  <2> SUFFICES ASSUME LinesAdd
               PROVE  Cardinality(final) <= Quantity(Confirmed)
    OBVIOUS
  <2>0. \A t \in Confirmed : t.qty \in Nat
    BY <1>1 DEF LinesAdd
  <2> DEFINE w == [t \in Confirmed |-> t.qty]
             first(o) == [id |-> o.id + 1, order |-> o.id, gift |-> Basket[o.buyer][1].gift,
                          qty |-> Basket[o.buyer][1].qty, origin |-> "checkout"]
             f == [o \in final |-> <<first(o), 1>>]
  <2>1. DOMAIN w = Confirmed /\ \A t \in Confirmed : w[t] = t.qty
    OBVIOUS
  <2>2. ASSUME NEW o \in final
        PROVE  /\ first(o) \in Confirmed /\ first(o).qty \in Nat /\ first(o).qty > 0
               /\ first(o).order = o.id
    <3>1. o \in orders /\ ~o.draft /\ o.buyer \in Buyers
      BY DEF Whole, Books
    <3>2. {t \in tickets : t.order = o.id /\ t.origin = "checkout"} = RowsOf(Basket[o.buyer], o.id)
      BY <3>1 DEF Whole, Books
    <3>3. 1 \in DOMAIN Basket[o.buyer] /\ Basket[o.buyer][1] \in Line
      BY <3>1 DEF PurchaseAssumption
    <3>4. first(o) \in RowsOf(Basket[o.buyer], o.id)
      BY <3>3 DEF RowsOf
    <3>5. first(o) \in tickets /\ first(o).order = o.id /\ first(o).qty = Basket[o.buyer][1].qty
      BY <3>2, <3>4
    <3>6. IsConfirmed(first(o))
      BY <3>1, <3>5 DEF IsConfirmed
    <3> QED
      BY <3>3, <3>5, <3>6, LinesAskTickets DEF Confirmed
  <2> HIDE DEF w, first
  <2>3. ASSUME NEW o \in final
        PROVE  <<first(o), 1>> \in Units(w)
    <3>1. first(o) \in DOMAIN w /\ 1 \in 1..w[first(o)]
      BY <2>1, <2>2
    <3> QED
      BY <3>1, UnitsAre
  <2>4. \A o, p \in final : first(o) = first(p) => o = p
    <3>1. \A o, p \in final : o.id = p.id => o = p
      BY DEF Whole, Books
    <3> QED
      BY <2>2, <3>1
  <2>5. f \in Injection(final, Units(w))
    <3>1. f \in [final -> Units(w)]
      BY <2>3
    <3>2. \A o, p \in final : f[o] = f[p] => o = p
      BY <2>4
    <3> QED
      BY <3>1, <3>2 DEF Injection, IsInjective
  <2>6. Counts(w)
    BY <1>1, <2>0, <2>1, FiniteCounts
  <2> HIDE DEF f, final
  <2>7. Cardinality(final) <= Cardinality(Units(w))
    BY <2>5, <2>6, FS_Injection DEF Counts
  <2>8. Total(w) = Cardinality(Units(w))
    BY <2>6, TotalCounts
  <2> QED
    BY <2>7, <2>8 DEF w, Quantity
<1>8. /\ Now.orders = Cardinality(final) /\ Now.tickets = Quantity(Confirmed)
      /\ Now.revenue = Quantity({t \in Confirmed : t.origin = "checkout"})
      /\ Now.perGift = Quantity({t \in Confirmed : t.gift \in live})
  BY DEF Now
<1>9. Now \in Figures
  <2>1. \A a, b, c, d \in Int : [revenue |-> a, orders |-> b, tickets |-> c, perGift |-> d] \in Figures
    BY DEF Figures, Fields
  <2>2. Cardinality(final) \in Int
    BY <1>2
  <2> QED
    BY <1>5, <2>1, <2>2, Zenon DEF Now
<1> QED
  BY <1>4, <1>6, <1>7, <1>8, <1>9

LEMMA NowCounts == StoreTypeOK /\ Whole => Now \in Figures
  BY NowAddsUp, PurchaseAssumption

\* What a step leaves in the tables: tickets, confirmed orders and no gift that was gone.
LEMMA StoreGrows ==
  ASSUME PurchaseAssumption, StoreAssumption, StoreTypeOK, [Next]_vars
  PROVE  /\ tickets \subseteq tickets' /\ live' \subseteq live
         /\ \A o \in orders : ~o.draft => o \in orders'
<1>1. ASSUME NEW b \in Buyers, Checkout(b)
      PROVE  tickets \subseteq tickets' /\ orders \subseteq orders' /\ live' = live
  <2>1. live' = live
    BY <1>1 DEF Checkout, CheckoutStep, CheckWon, ReadGifts, Reserve, Commit, Invalidate, Release,
       ReserveThrows, CommitThrows, CommitTwice, QueryThrows, InvalidateThrows, ReleaseThrows,
       tables, AddOrder
  <2> QED
    BY <1>1, <2>1, CheckoutsOnlyAdd
<1>2. CASE OtherStep
  <2>1. live' \subseteq live
    BY <1>2 DEF OtherStep, StartDraw, ReadPool, CheckPurchasers, InsertWinner, RereadAndMail,
       InsertWinnerTwice, InsertWinnerThrows, AddWinner, DeleteWinner, ConfirmOrder, CheckDraft,
       AddItem, CheckNotOrdered, DeleteGift, OnlyRequests, tables
  <2> QED
    BY <1>2, <2>1, OthersKeepTickets
<1>3. CASE Crash \/ UNCHANGED vars
  BY <1>3 DEF Crash, vars, purchaseVars, tables
<1> QED
  BY <1>1, <1>2, <1>3 DEF Next, OtherStep

\* Confirmed lines stay, and none of the figures goes back: revenue and orders whatever
\* happens, the others as long as no gift is deleted and no confirmed line is negative.
LEMMA NowGrows ==
  ASSUME PurchaseAssumption, StoreAssumption, StoreTypeOK, StoreTypeOK', Whole, Whole', [Next]_vars
  PROVE  /\ Now.revenue <= Now'.revenue /\ Now.orders <= Now'.orders
         /\ Regular' => /\ Regular
                        /\ Now.tickets <= Now'.tickets /\ Now.perGift <= Now'.perGift
<1>1. /\ tickets \subseteq tickets' /\ live' \subseteq live
      /\ \A o \in orders : ~o.draft => o \in orders'
  BY StoreGrows
<1>2. PICK T, O : T = Confirmed' /\ O = {o \in orders' : ~o.draft}
  OBVIOUS
<1>3. Confirmed \subseteq T /\ {o \in orders : ~o.draft} \subseteq O
  BY <1>1, <1>2 DEF Confirmed, IsConfirmed
<1>4. Regular' => Regular
  <2>1. live \subseteq Gifts
    BY TypesByPart DEF TablesTyped
  <2> QED
    BY <1>1, <1>2, <1>3, <2>1 DEF Regular, LinesAdd
<1>5. IsFiniteSet(T) /\ IsFiniteSet(O) /\ \A t \in T : t.qty \in Int
  <2>1. IsFiniteSet(tickets') /\ IsFiniteSet(orders') /\ tickets' \subseteq Ticket
    BY DEF Whole, Books, StoreTypeOK, PurchaseTypeOK
  <2>2. T \subseteq tickets' /\ O \subseteq orders'
    BY <1>2 DEF Confirmed
  <2>3. IsFiniteSet(T) /\ IsFiniteSet(O)
    BY <2>1, <2>2, FS_Subset
  <2> QED
    BY <2>1, <2>2, <2>3 DEF Ticket
<1>6. ASSUME Regular'
      PROVE  Quantity(Confirmed) <= Quantity(T)
  <2>1. \A t \in T : t.qty \in Nat
    BY <1>2, <1>5, <1>6 DEF Regular, LinesAdd
  <2> QED
    BY <1>3, <1>5, <2>1, QuantitiesGrow
<1>7. Quantity({t \in Confirmed : t.origin = "checkout"}) <= Quantity({t \in T : t.origin = "checkout"})
  <2>1. PICK S : S = {t \in T : t.origin = "checkout"}
    OBVIOUS
  <2>2. IsFiniteSet(S)
    BY <1>5, <2>1, FS_Subset
  <2>3. \A t \in S : t.qty \in Nat
    <3>1. S \subseteq tickets' /\ \A t \in S : t.origin = "checkout"
      BY <1>2, <2>1 DEF Confirmed
    <3> QED
      BY <3>1 DEF Whole, Books
  <2>4. {t \in Confirmed : t.origin = "checkout"} \subseteq S
    BY <1>3, <2>1
  <2>5. Quantity({t \in Confirmed : t.origin = "checkout"}) <= Quantity(S)
    BY <2>2, <2>3, <2>4, QuantitiesGrow
  <2> QED
    BY <2>1, <2>5
<1>8. Cardinality({o \in orders : ~o.draft}) <= Cardinality(O)
  BY <1>3, <1>5, FS_Subset
<1>9. ASSUME live = Gifts, live' = Gifts
      PROVE  Now.perGift = Now.tickets /\ Now'.perGift = Now'.tickets
  <2>1. /\ \A t \in Confirmed : t.gift \in live
        /\ \A t \in Confirmed' : t.gift \in live'
    <3>1. tickets \subseteq Ticket /\ tickets' \subseteq Ticket
      BY DEF StoreTypeOK, PurchaseTypeOK
    <3> QED
      BY <1>9, <3>1 DEF Confirmed, Ticket
  <2>2. /\ {t \in Confirmed : t.gift \in live} = Confirmed
        /\ {t \in Confirmed' : t.gift \in live'} = Confirmed'
    BY <2>1
  <2> QED
    BY <2>2 DEF Now
<1>10. /\ Now.tickets = Quantity(Confirmed) /\ Now'.tickets = Quantity(T)
       /\ Now.revenue = Quantity({t \in Confirmed : t.origin = "checkout"})
       /\ Now'.revenue = Quantity({t \in T : t.origin = "checkout"})
       /\ Now.orders = Cardinality({o \in orders : ~o.draft}) /\ Now'.orders = Cardinality(O)
  BY <1>2 DEF Now, Quantity
<1>11. Now.revenue <= Now'.revenue /\ Now.orders <= Now'.orders
  BY <1>7, <1>8, <1>10
<1>12. ASSUME Regular'
       PROVE  Now.tickets <= Now'.tickets /\ Now.perGift <= Now'.perGift
  <2>1. live = Gifts /\ live' = Gifts
    BY <1>4, <1>12 DEF Regular
  <2> QED
    BY <1>6, <1>9, <1>10, <1>12, <2>1
<1> QED
  BY <1>4, <1>11, <1>12

\* A step of the store keeps what the dashboards and the cache hold behind it.
LEMMA SummariesFollowStores ==
  ASSUME PurchaseAssumption, StoreAssumption, SalesAssumption, StoreTypeOK, StoreTypeOK',
         Whole, Whole', SummariesTrail, StoreStep
  PROVE  SummariesTrail'
<1>1. /\ Now \in Figures /\ Now' \in Figures
      /\ cache' = cache \/ cache' = NoEntry
      /\ UNCHANGED <<call, figures>>
         \/ (call' = [r \in Readers |-> 0] /\ figures' = [r \in Readers |-> Blank])
  <2>1. (StoreTypeOK /\ Whole => Now \in Figures)'
    BY NowCounts, PTL
  <2> QED
    BY <2>1, NowCounts DEF StoreStep, Figures
<1>2. /\ Now.revenue <= Now'.revenue /\ Now.orders <= Now'.orders
      /\ Regular' => Regular /\ Now.tickets <= Now'.tickets /\ Now.perGift <= Now'.perGift
  BY NowGrows DEF StoreStep
<1>3. ASSUME NEW F \in Figures, NEW c \in 0..5, Trails(c, F)
      PROVE  Trails(c, F)'
  <2>1. /\ F.revenue \in Int /\ F.orders \in Int /\ F.tickets \in Int /\ F.perGift \in Int
        /\ \A f \in Fields : Now[f] \in Int /\ Now'[f] \in Int
    BY <1>1 DEF Figures, Fields
  <2>2. /\ Now.revenue \in Int /\ Now.orders \in Int /\ Now.tickets \in Int /\ Now.perGift \in Int
        /\ Now'.revenue \in Int /\ Now'.orders \in Int
        /\ Now'.tickets \in Int /\ Now'.perGift \in Int
    BY <2>1 DEF Fields
  <2>3. NotAhead(c, F)'
    BY <1>2, <1>3, <2>1, <2>2 DEF Trails, NotAhead
  <2>4. Regular' => Behind(c, F)'
    BY <1>2, <1>3, <2>1, <2>2 DEF Trails, Behind
  <2> QED
    BY <2>3, <2>4 DEF Trails
<1>4. Blank \in Figures /\ \A F : Trails(0, F)'
  BY DEF Blank, Figures, Trails, NotAhead, Behind
<1>5. call' \in [Readers -> 0..5] /\ figures' \in [Readers -> Figures]
  BY <1>1, <1>4 DEF SummariesTrail
<1>6. cache' # NoEntry => cache' = cache /\ cache' \in [figures: Figures, age: Int, idle: Int]
  BY <1>1 DEF SummariesTrail
<1>7. ASSUME NEW r \in Readers
      PROVE  Trails(call[r], figures[r])'
  <2>1. CASE UNCHANGED <<call, figures>>
    <3>1. PICK F \in Figures, c \in 0..5 : F = figures[r] /\ c = call[r]
      BY DEF SummariesTrail
    <3>2. Trails(c, F)
      BY <3>1 DEF SummariesTrail
    <3>3. Trails(c, F)'
      BY <1>3, <3>2
    <3> QED
      BY <2>1, <3>1, <3>3 DEF Trails, NotAhead, Behind
  <2>2. CASE call' = [q \in Readers |-> 0]
    BY <2>2 DEF Trails, NotAhead, Behind
  <2> QED
    BY <1>1, <2>1, <2>2
<1>8. ASSUME cache' # NoEntry
      PROVE  Trails(5, cache.figures)'
  <2>1. cache # NoEntry /\ cache' = cache /\ cache.figures \in Figures
    BY <1>6, <1>8 DEF SummariesTrail
  <2>2. PICK F \in Figures : F = cache.figures
    BY <2>1
  <2>3. Trails(5, F)'
    BY <1>3, <2>1, <2>2 DEF SummariesTrail
  <2> QED
    BY <2>1, <2>2, <2>3 DEF Trails, NotAhead, Behind
<1> QED
  BY <1>5, <1>6, <1>7, <1>8 DEF SummariesTrail

\* A dashboard reads, from the store and into the cache, and time passes.
LEMMA SummariesAreRead ==
  ASSUME PurchaseAssumption, SalesAssumption, StoreTypeOK, Whole, SummariesTrail,
         \/ \E r \in Readers : Hit(r) \/ Miss(r) \/ Ask(r) \/ Fill(r) \/ ReadThrows(r)
         \/ Tick
  PROVE  SummariesTrail'
<1>1. /\ call \in [Readers -> 0..5] /\ figures \in [Readers -> Figures] /\ Now \in Figures
      /\ Regular => /\ Now.orders <= Now.tickets /\ Now.revenue <= Now.tickets
                     /\ Now.perGift = Now.tickets
  BY NowAddsUp DEF SummariesTrail, Regular
<1>2. /\ UNCHANGED <<live, orders, tickets>>
  BY DEF Hit, Miss, Ask, Fill, ReadThrows, Tick, vars, purchaseVars, tables, StoreAlone
<1>3. \A c, F : Trails(c, F)' <=> Trails(c, F)
  BY <1>2 DEF Trails, Regular, LinesAdd, NotAhead, Behind, Now, Confirmed, IsConfirmed
<1>4. Blank \in Figures /\ \A F : Trails(0, F)
  BY DEF Blank, Figures, Trails, NotAhead, Behind
<1>5. ASSUME NEW r \in Readers, Leave(r)
      PROVE  /\ call' \in [Readers -> 0..5] /\ figures' \in [Readers -> Figures]
             /\ \A q \in Readers : Trails(call'[q], figures'[q])
  <2>1. /\ call'[r] = 0 /\ \A q \in Readers \ {r} : call'[q] = call[q] /\ figures'[q] = figures[q]
    BY <1>1, <1>5 DEF Leave
  <2> QED
    BY <1>1, <1>4, <1>5, <2>1 DEF Leave, SummariesTrail
<1>6. ASSUME NEW r \in Readers, call[r] = 5
      PROVE  /\ Filled(r) \in [figures: Figures, age: Int, idle: Int]
             /\ Trails(5, Filled(r).figures)
  BY <1>1, <1>6 DEF Filled, SummariesTrail
<1>7. ASSUME NEW r \in Readers, Ask(r)
      PROVE  SummariesTrail'
  <2>1. PICK F \in Figures, c \in 1..4 : F = figures[r] /\ c = call[r]
    BY <1>1, <1>7 DEF Ask
  <2>2. PICK field \in Fields : field = Queries[c]
    BY DEF Queries, Fields
  <2>3. PICK G \in Figures : G = [F EXCEPT ![field] = Now[field]]
    BY <1>1 DEF Figures
  <2>4. /\ call' = [call EXCEPT ![r] = c + 1] /\ figures' = [figures EXCEPT ![r] = G]
        /\ cache' = cache /\ c + 1 \in 0..5
    BY <1>1, <1>7, <2>1, <2>2, <2>3 DEF Ask
  <2>5. /\ call' \in [Readers -> 0..5] /\ figures' \in [Readers -> Figures]
        /\ call'[r] = c + 1 /\ figures'[r] = G
        /\ \A q \in Readers \ {r} : call'[q] = call[q] /\ figures'[q] = figures[q]
    BY <1>1, <2>4
  <2>6. Trails(c + 1, G)
    <3>1. Trails(c, F)
      BY <2>1 DEF SummariesTrail
    <3>2. /\ F.revenue \in Int /\ F.orders \in Int /\ F.tickets \in Int /\ F.perGift \in Int
          /\ Now.revenue \in Int /\ Now.orders \in Int /\ Now.tickets \in Int /\ Now.perGift \in Int
      BY <1>1 DEF Figures, Fields
    <3>3. CASE c = 1
      <4>1. G.revenue = Now.revenue
        BY <2>2, <2>3, <3>3 DEF Queries, Figures, Fields
      <4> QED
        BY <3>2, <3>3, <4>1 DEF Trails, NotAhead, Behind
    <3>4. CASE c = 2
      <4>1. G.revenue = F.revenue /\ G.orders = Now.orders
        BY <2>2, <2>3, <3>4 DEF Queries, Figures, Fields
      <4> QED
        BY <3>1, <3>2, <3>4, <4>1 DEF Trails, NotAhead, Behind
    <3>5. CASE c = 3
      <4>1. G.revenue = F.revenue /\ G.orders = F.orders /\ G.tickets = Now.tickets
        BY <2>2, <2>3, <3>5 DEF Queries, Figures, Fields
      <4> QED
        BY <1>1, <3>1, <3>2, <3>5, <4>1 DEF Trails, NotAhead, Behind
    <3>6. CASE c = 4
      <4>1. /\ G.revenue = F.revenue /\ G.orders = F.orders /\ G.tickets = F.tickets
            /\ G.perGift = Now.perGift
        BY <2>2, <2>3, <3>6 DEF Queries, Figures, Fields
      <4> QED
        BY <1>1, <3>1, <3>2, <3>6, <4>1 DEF Trails, NotAhead, Behind
    <3> QED
      BY <3>3, <3>4, <3>5, <3>6
  <2>7. \A q \in Readers : Trails(call'[q], figures'[q])
    BY <2>5, <2>6 DEF SummariesTrail
  <2> QED
    BY <1>2, <1>3, <2>4, <2>5, <2>7 DEF SummariesTrail
<1>8. ASSUME NEW r \in Readers, Fill(r) \/ ReadThrows(r)
      PROVE  SummariesTrail'
  <2>1. Leave(r) /\ (cache' = cache \/ (call[r] = 5 /\ cache' = Filled(r)))
    BY <1>8 DEF Fill, ReadThrows
  <2>2. /\ call' \in [Readers -> 0..5] /\ figures' \in [Readers -> Figures]
        /\ \A q \in Readers : Trails(call'[q], figures'[q])
    BY <1>5, <2>1
  <2>3. cache' # NoEntry => /\ cache' \in [figures: Figures, age: Int, idle: Int]
                            /\ Trails(5, cache'.figures)
    BY <1>6, <2>1 DEF SummariesTrail
  <2> QED
    BY <1>2, <1>3, <2>2, <2>3 DEF SummariesTrail
<1>9. ASSUME NEW r \in Readers, Miss(r)
      PROVE  SummariesTrail'
  <2>1. /\ call' = [call EXCEPT ![r] = 1] /\ UNCHANGED <<cache, figures>>
    BY <1>9 DEF Miss
  <2>2. \A F : Trails(1, F)
    BY DEF Trails, NotAhead, Behind
  <2>3. call' \in [Readers -> 0..5] /\ \A q \in Readers : call'[q] = IF q = r THEN 1 ELSE call[q]
    BY <1>1, <2>1
  <2> QED
    BY <1>2, <1>3, <2>1, <2>2, <2>3 DEF SummariesTrail
<1>10. ASSUME \/ \E r \in Readers : Hit(r)
              \/ Tick
       PROVE  SummariesTrail'
  <2>1. cache # NoEntry /\ cache \in [figures: Figures, age: Int, idle: Int]
    BY <1>10 DEF Hit, Tick, SummariesTrail
  <2>2. /\ UNCHANGED <<call, figures>>
        /\ cache' # NoEntry => /\ cache' \in [figures: Figures, age: Int, idle: Int]
                               /\ cache'.figures = cache.figures
    <3>1. CASE \E r \in Readers : Hit(r)
      BY <2>1, <3>1 DEF Hit
    <3>2. CASE Tick
      <4> DEFINE older == [cache EXCEPT !.age = IF @ < MaxAge THEN @ + 1 ELSE @, !.idle = @ + 1]
      <4>1. older \in [figures: Figures, age: Int, idle: Int] /\ older.figures = cache.figures
        <5>1. PICK c \in [figures: Figures, age: Int, idle: Int] : c = cache
          BY <2>1
        <5>2. PICK j \in Int, k \in Int : /\ j = (IF c.age < MaxAge THEN c.age + 1 ELSE c.age)
                                          /\ k = c.idle + 1
          OBVIOUS
        <5>3. /\ [c EXCEPT !.age = j, !.idle = k] \in [figures: Figures, age: Int, idle: Int]
              /\ [c EXCEPT !.age = j, !.idle = k].figures = c.figures
          OBVIOUS
        <5>4. older = [c EXCEPT !.age = j, !.idle = k]
          BY <5>1, <5>2
        <5> QED
          BY <5>1, <5>3, <5>4
      <4>2. (cache' = older \/ cache' = NoEntry) /\ UNCHANGED <<call, figures>>
        BY <3>2 DEF Tick
      <4> QED
        BY <4>1, <4>2
    <3> QED
      BY <1>10, <3>1, <3>2
  <2> QED
    BY <1>2, <1>3, <2>1, <2>2 DEF SummariesTrail
<1> QED
  BY <1>7, <1>8, <1>9, <1>10

\* A dashboard request that throws counts as a failure, and leaves the store alone.
LEMMA ReadersLeaveTheStore ==
  ASSUME Orderly, Whole, Accounted, NEW r \in Readers, ReadThrows(r)
  PROVE  Orderly' /\ Whole' /\ Accounted'
<1>1. /\ UNCHANGED <<tables, avail, checkoutVars, crashes, requestVars>>
      /\ redisFaults' \in {redisFaults, redisFaults + 1} /\ faults' \in {faults, faults + 1}
  BY DEF ReadThrows, StoreAlone, RedisFault, SqlFault
<1>2. faults \in Nat /\ redisFaults \in Nat
  BY DEF Orderly, StoreTypeOK, PurchaseTypeOK
<1>3. StoreTypeOK'
  BY <1>1, <1>2 DEF Orderly, StoreTypeOK, PurchaseTypeOK, tables, checkoutVars, requestVars
<1>4. DrawsSawNothing' /\ DeletionsFaceYoungTickets' /\ MailsMatchWinners' /\ CheckoutsAreClear'
  BY <1>1 DEF tables, checkoutVars, requestVars, Orderly, DrawsSawNothing, DeletionsFaceYoungTickets,
     MailsMatchWinners, CheckoutsAreClear, PassedLinesAreClear, Passed, ReservedIsOfBasket,
     MetRowsAreOld, OrdersFollowChecks, TicketsAreClear
<1>5. Books(orders, tickets, nextId)' /\ ReservedAlong' /\ CommittedHaveOrders'
  BY <1>1 DEF tables, checkoutVars, Whole, ReservedAlong, CommittedHaveOrders, OrdersOf
<1>6. EditsAreOfDrafts' /\ DrawsChooseBuyers' /\ DrawnWinnersHadTickets'
  BY <1>1 DEF tables, requestVars, Whole, EditsAreOfDrafts, DrawsChooseBuyers, HasTicket,
     DrawnWinnersHadTickets
<1>7. \A g : HoldFamily(g)' = HoldFamily(g) /\ Ledger(g)' = Ledger(g)
  BY <1>1 DEF tables, checkoutVars, HoldFamily, Holds, Ledger, Sold, InFlight
<1>8. BoughtOnce' => BoughtOnce
  BY <1>1 DEF tables, checkoutVars, BoughtOnce, OrdersOf
<1>9. redisFaults' = 0 => redisFaults = 0
  BY <1>1, <1>2
<1>10. Accounted'
  BY <1>1, <1>7, <1>8, <1>9 DEF Accounted, Counts
<1> QED
  BY <1>3, <1>4, <1>5, <1>6, <1>10 DEF Orderly, Whole

\* Whatever quantities edits ask for, a summary under way, or in the cache, reports no
\* revenue and no order the store does not have; and while no gift is deleted and no
\* confirmed line is negative, all its figures err one way only.
THEOREM SummariesStayBehind == SalesSpec => []SummariesLagBehind
<1> DEFINE Inv == Orderly /\ Whole /\ Accounted /\ SummariesTrail
<1> USE PurchaseAssumption, StoreAssumption, SalesAssumption
<1>1. ASSUME SalesInit
      PROVE  Inv
  <2>1. Orderly /\ Whole /\ Accounted
    BY <1>1, StartsOrderly, StartsWhole DEF SalesInit
  <2>2. Blank \in Figures /\ \A F : Trails(0, F)
    BY DEF Blank, Figures, Trails, NotAhead, Behind
  <2>3. SummariesTrail
    BY <1>1, <2>2 DEF SalesInit, SummariesTrail
  <2> QED
    BY <2>1, <2>3
<1>2. ASSUME Inv, [SalesNext]_salesVars
      PROVE  Inv'
  <2>1. StoreTypeOK
    BY <1>2 DEF Orderly
  <2>2. CASE StoreStep
    <3>1. [Next]_vars
      BY <2>2 DEF StoreStep
    <3>2. Orderly' /\ Whole' /\ Accounted'
      BY <1>2, <3>1, StaysOrderly, StaysWhole
    <3>3. SummariesTrail'
      BY <1>2, <2>1, <2>2, <3>2, SummariesFollowStores DEF Orderly
    <3> QED
      BY <3>2, <3>3
  <2>3. ASSUME NEW r \in Readers, ReadThrows(r)
        PROVE  Inv'
    <3>1. Orderly' /\ Whole' /\ Accounted'
      BY <1>2, <2>3, ReadersLeaveTheStore
    <3>2. SummariesTrail'
      BY <1>2, <2>1, <2>3, SummariesAreRead
    <3> QED
      BY <3>1, <3>2
  <2>4. CASE \/ \E r \in Readers : Hit(r) \/ Miss(r) \/ Ask(r) \/ Fill(r)
             \/ Tick
    <3>1. UNCHANGED vars
      BY <2>4 DEF Hit, Miss, Ask, Fill, Tick
    <3>2. Orderly' /\ Whole' /\ Accounted'
      BY <1>2, <3>1, StaysOrderly, StaysWhole
    <3>3. SummariesTrail'
      BY <1>2, <2>1, <2>4, SummariesAreRead
    <3> QED
      BY <3>2, <3>3
  <2>5. CASE UNCHANGED salesVars
    <3>1. UNCHANGED vars /\ UNCHANGED <<cache, call, figures>>
      BY <2>5 DEF salesVars, summaryVars
    <3>2. Orderly' /\ Whole' /\ Accounted'
      BY <1>2, <3>1, StaysOrderly, StaysWhole
    <3>3. \A c, F : Trails(c, F)' <=> Trails(c, F)
      BY <3>1 DEF vars, purchaseVars, tables, Trails, Regular, LinesAdd, NotAhead, Behind, Now,
         Confirmed, IsConfirmed
    <3>4. SummariesTrail'
      BY <1>2, <3>1, <3>3 DEF SummariesTrail
    <3> QED
      BY <3>2, <3>4
  <2> QED
    BY <1>2, <2>2, <2>3, <2>4, <2>5 DEF SalesNext
<1>3. ASSUME Inv
      PROVE  SummariesLagBehind
  <2> SUFFICES ASSUME NEW F, F \in {figures[r] : r \in {s \in Readers : call[s] = 5}}
                                     \cup (IF cache = NoEntry THEN {} ELSE {cache.figures})
               PROVE  /\ F.revenue <= Now.revenue /\ F.orders <= Now.orders
                      /\ Regular => /\ F.tickets <= Now.tickets /\ F.perGift <= Now.perGift
                                    /\ F.orders <= F.tickets /\ F.revenue <= F.tickets
                                    /\ F.tickets <= F.perGift
    BY DEF SummariesLagBehind, Regular, LinesAdd
  <2>1. Trails(5, F)
    BY <1>3 DEF SummariesTrail
  <2> QED
    BY <2>1 DEF Trails, NotAhead, Behind
<1>4. SalesInit => Inv
  BY <1>1
<1>5. Inv /\ [SalesNext]_salesVars => Inv'
  BY <1>2
<1>6. Inv => SummariesLagBehind
  BY <1>3
<1> QED
  BY <1>4, <1>5, <1>6, PTL DEF SalesSpec
=============================================================================

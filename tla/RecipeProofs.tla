---------------------------- MODULE RecipeProofs ----------------------------
(***************************************************************************)
(* What holds of the time programs of every recipe, for every set of pumps *)
(* and flows.                                                              *)
(***************************************************************************)
EXTENDS Recipe, TimeProgramProofs, FiniteSetTheorems

-----------------------------------------------------------------------------
(* Quotients.                                                              *)

\* An amount a at flow f takes as long as b at g, or longer.
Longer(a, f, b, g) == a * g >= b * f

LEMMA Multiply ==
    ASSUME NEW x \in Int, NEW y \in Int, NEW z \in Nat, x <= y
    PROVE  x * z <= y * z
OBVIOUS

LEMMA Cancel ==
    ASSUME NEW x \in Int, NEW y \in Int, NEW z \in Nat, z > 0, x * z <= y * z
    PROVE  x <= y
<1> SUFFICES ASSUME x > y PROVE FALSE
  OBVIOUS
<1>1. x >= y + 1
  OBVIOUS
<1>2. x * z >= (y + 1) * z
  BY <1>1
<1>3. (y + 1) * z = y * z + z
  OBVIOUS
<1>. QED
  BY <1>2, <1>3

LEMMA LongerTransitive ==
    ASSUME NEW a \in Int, NEW b \in Int, NEW c \in Int,
           NEW f \in Nat \ {0}, NEW g \in Nat \ {0}, NEW h \in Nat \ {0},
           Longer(a, f, b, g), Longer(b, g, c, h)
    PROVE  Longer(a, f, c, h)
<1>1. (b * f) * h <= (a * g) * h
  BY Multiply DEF Longer
<1>2. (c * g) * f <= (b * h) * f
  BY Multiply DEF Longer
<1>3. (c * f) * g <= (a * h) * g
  BY <1>1, <1>2
<1>. QED
  BY <1>3, Cancel DEF Longer

LEMMA LongerTotal ==
    ASSUME NEW a \in Int, NEW b \in Int, NEW f \in Nat, NEW g \in Nat
    PROVE  Longer(a, f, b, g) \/ Longer(b, g, a, f)
BY DEF Longer

\* x \div y is the largest number that fits.
LEMMA Quotient ==
    ASSUME NEW x \in Nat, NEW y \in Nat \ {0}, NEW q \in Nat
    PROVE  /\ x \div y \in Nat
           /\ q * y <= x <=> q <= x \div y
<1>1. x \div y \in Nat /\ y * (x \div y) <= x /\ x < y * (x \div y) + y
  OBVIOUS
<1>2. ASSUME q <= x \div y PROVE q * y <= x
  BY <1>1, <1>2, Multiply
<1>3. ASSUME q > x \div y PROVE q * y > x
  <2>1. ((x \div y) + 1) * y <= q * y
    BY <1>1, <1>3, Multiply
  <2>. QED
    BY <1>1, <2>1
<1>. QED
  BY <1>1, <1>2, <1>3

\* A whole number up to a quotient is one up to its whole part.
LEMMA TruncateIs ==
    ASSUME NEW x \in Int, NEW y \in Nat \ {0}
    PROVE  /\ Truncate(x, y) \in Int
           /\ \A t \in Int : t * y <= x => t <= Truncate(x, y)
<1>1. CASE x >= 0
  <2>1. Truncate(x, y) = x \div y /\ x \in Nat
    BY <1>1 DEF Truncate
  <2>2. ASSUME NEW t \in Int, t * y <= x PROVE t <= Truncate(x, y)
    <3>1. x \div y \in Nat
      BY <2>1, Quotient
    <3>2. CASE t < 0
      BY <2>1, <3>1, <3>2
    <3>3. CASE t \in Nat
      BY <2>1, <2>2, <3>3, Quotient
    <3>. QED
      BY <3>2, <3>3
  <2>. QED
    BY <2>1, <2>2, Quotient
<1>2. CASE x < 0
  <2>1. PICK z \in Nat : z = -x
    BY <1>2
  <2>2. PICK q \in Nat : q = z \div y /\ q * y <= z
    <3>1. z \div y \in Nat
      BY Quotient
    <3>. QED
      BY <3>1, Quotient
  <2>3. Truncate(x, y) = -q
    BY <1>2, <2>1, <2>2 DEF Truncate
  <2>4. ASSUME NEW t \in Int, t * y <= x PROVE t <= -q
    <3>1. q * y <= (-t) * y
      <4>1. (-t) * y = -(t * y) /\ t * y \in Int /\ q * y \in Int
        OBVIOUS
      <4>. QED
        BY <2>1, <2>2, <2>4, <4>1
    <3>2. q <= -t
      BY <3>1, Cancel
    <3>. QED
      BY <3>2
  <2>. QED
    BY <2>3, <2>4
<1>. QED
  BY <1>1, <1>2

\* Durations are whole numbers, natural ones for natural amounts.
LEMMA DurationIsWhole ==
    ASSUME NEW a \in Int, NEW f \in Nat \ {0}
    PROVE  Duration(a, f) \in Int
<1>1. a * Unit \in Int
  BY RecipeAssumption
<1>. QED
  BY <1>1, TruncateIs DEF Duration

LEMMA DurationType ==
    ASSUME NEW a \in Nat, NEW f \in Nat \ {0}
    PROVE  Duration(a, f) \in Nat /\ Duration(a, f) = (a * Unit) \div f
<1>1. PICK x \in Nat : x = a * Unit
  BY RecipeAssumption
<1>2. Duration(a, f) = x \div f
  BY <1>1 DEF Duration, Truncate
<1>. QED
  BY <1>1, <1>2, Quotient

\* Where a component ends: not before it starts, unless its amount is negative.
LEMMA EndTimeType ==
    ASSUME time \in Int, NEW a \in Int, NEW f \in Nat \ {0}
    PROVE  EndTime(a, f) \in Int /\ (a >= 0 => time <= EndTime(a, f))
<1>1. PICK u \in Int, v \in Int : u = time * f /\ v = a * Unit
  BY RecipeAssumption
<1>2. EndTime(a, f) = Truncate(u + v, f) /\ u + v \in Int
  BY <1>1 DEF EndTime
<1>3. a >= 0 => v >= 0
  BY <1>1, RecipeAssumption
<1>4. a >= 0 => time * f <= u + v
  BY <1>1, <1>3
<1>. QED
  BY <1>2, <1>4, TruncateIs

LEMMA EndTimeIs ==
    ASSUME time \in Nat, NEW a \in Nat, NEW f \in Nat \ {0}
    PROVE  EndTime(a, f) = time + Duration(a, f)
<1>1. PICK x \in Nat : x = a * Unit
  BY RecipeAssumption
<1>2. PICK q \in Nat : q = x \div f /\ q * f <= x /\ ~ ((q + 1) * f <= x)
  <2>1. PICK q \in Nat : q = x \div f
    BY Quotient
  <2>2. q + 1 \in Nat /\ q <= q /\ ~ (q + 1 <= q)
    OBVIOUS
  <2>. QED
    BY <2>1, <2>2, Quotient
<1>3. Duration(a, f) = q
  BY <1>1, <1>2, DurationType
<1>4. PICK u \in Nat : u = time * f
  OBVIOUS
<1>5. EndTime(a, f) = (u + x) \div f
  BY <1>1, <1>4 DEF EndTime, Truncate
<1>6. (time + q) * f <= u + x
  <2>1. (time + q) * f = time * f + q * f
    OBVIOUS
  <2>. QED
    BY <1>2, <1>4, <2>1
<1>7. ~ ((time + q + 1) * f <= u + x)
  <2>1. (time + q + 1) * f = time * f + (q + 1) * f
    OBVIOUS
  <2>2. (q + 1) * f \in Nat
    OBVIOUS
  <2>. QED
    BY <1>2, <1>4, <2>1, <2>2
<1>8. PICK r \in Nat : r = (u + x) \div f
  BY Quotient
<1>9. time + q <= r /\ ~ (time + q + 1 <= r)
  BY <1>6, <1>7, <1>8, Quotient
<1>. QED
  BY <1>3, <1>5, <1>8, <1>9

\* What takes longer has the longer duration, in whole milliseconds too.
LEMMA DurationMonotone ==
    ASSUME NEW a \in Nat, NEW b \in Nat, NEW f \in Nat \ {0}, NEW g \in Nat \ {0},
           Longer(a, f, b, g)
    PROVE  Duration(b, g) <= Duration(a, f)
<1>1. PICK d \in Nat, e \in Nat : d = Duration(b, g) /\ e = Duration(a, f)
  BY DurationType
<1>2. PICK x \in Nat, y \in Nat : x = a * Unit /\ y = b * Unit
  BY RecipeAssumption
<1>3. d = y \div g /\ e = x \div f
  BY <1>1, <1>2, DurationType
<1>4. d * g <= y
  BY <1>3, Quotient
<1>5. (d * f) * g <= x * g
  <2>1. (d * g) * f <= y * f
    BY <1>4, Multiply
  <2>2. (b * f) * Unit <= (a * g) * Unit
    BY RecipeAssumption, Multiply DEF Longer
  <2>3. y * f <= x * g
    BY <1>2, <2>2, RecipeAssumption
  <2>. QED
    BY <2>1, <2>3
<1>6. d * f <= x
  BY <1>5, Cancel
<1>7. d <= e
  BY <1>3, <1>6, Quotient
<1>. QED
  BY <1>1, <1>7

-----------------------------------------------------------------------------
(* Extremes.                                                               *)

\* A nonempty set of natural numbers up to a bound has a greatest element, and Max is it.
LEMMA MaxIsGreatest ==
    ASSUME NEW S \in SUBSET Nat, S # {}, NEW bound \in Nat, \A x \in S : x <= bound
    PROVE  Max(S) \in S /\ \A x \in S : x <= Max(S)
<1> DEFINE T == {y \in 0 .. bound : bound - y \in S}
<1>1. T \in SUBSET Nat /\ T # {}
  <2>1. PICK x \in S : TRUE
    OBVIOUS
  <2>2. bound - x \in T
    BY <2>1
  <2>3. T \subseteq Nat
    OBVIOUS
  <2> HIDE DEF T
  <2>. QED
    BY <2>2, <2>3
<1>2. Min(T) \in T /\ \A y \in T : Min(T) <= y
  BY <1>1, MinIsLeast
<1>3. \A x \in S : bound - x \in T
  OBVIOUS
<1>4. bound - Min(T) \in S /\ \A x \in S : bound - Min(T) >= x
  BY <1>2, <1>3
<1>5. \E m \in S : \A x \in S : m >= x
  BY <1>4
<1>6. Max(S) \in S /\ \A x \in S : Max(S) >= x
  BY <1>5 DEF Max
<1>. QED
  BY <1>6

\* Max of two numbers.
LEMMA MaxOfTwo ==
    ASSUME NEW x \in Int, NEW y \in Int
    PROVE  Max({x, y}) \in Int /\ x <= Max({x, y}) /\ y <= Max({x, y})
<1>1. \E m \in {x, y} : \A z \in {x, y} : m >= z
  OBVIOUS
<1>2. Max({x, y}) \in {x, y} /\ \A z \in {x, y} : Max({x, y}) >= z
  BY <1>1 DEF Max
<1>. QED
  BY <1>2

IsListed(S, list, n) == \A x \in S : \E i \in 1 .. n : list[i] = x
IsTotal(R, S) == \A x, y \in S : <<x, y>> \in R \/ <<y, x>> \in R
IsTransitive(R, S) ==
    \A x, y, z \in S : <<x, y>> \in R /\ <<y, z>> \in R => <<x, z>> \in R
HasGreatest(R, S) == \E x \in S : \A y \in S : <<x, y>> \in R

\* What a list enumerates has a greatest element for every total preorder.
LEMMA ListHasGreatest ==
    ASSUME NEW n \in Nat, NEW list, NEW S, S # {}, IsListed(S, list, n),
           NEW R, IsTotal(R, S), IsTransitive(R, S)
    PROVE  HasGreatest(R, S)
<1> DEFINE Upto(k) == {x \in S : \E i \in 1 .. k : list[i] = x}
           Bad == {k \in 0 .. n : Upto(k) # {} /\ ~ HasGreatest(R, Upto(k))}
<1> USE DEF IsListed, IsTotal, IsTransitive, HasGreatest
<1>1. Upto(n) = S
  OBVIOUS
<1>2. Bad = {}
  <2> SUFFICES ASSUME Bad # {} PROVE FALSE
    OBVIOUS
  <2> DEFINE m == Min(Bad)
  <2>1. Bad \in SUBSET Nat
    OBVIOUS
  <2>2. m \in Bad /\ \A k \in Bad : m <= k
    BY <2>1, MinIsLeast
  <2> HIDE DEF m
  <2>. m \in Nat
    BY <2>1, <2>2
  <2>3. m # 0
    BY <2>2
  <2>4. m - 1 \in 0 .. n /\ m - 1 \notin Bad
    <3>1. m \in 0 .. n
      BY <2>2
    <3> HIDE DEF Bad
    <3>. QED
      BY <2>2, <2>3, <3>1
  <2>5. \A x \in S : x \in Upto(m) <=> x \in Upto(m - 1) \/ x = list[m]
    <3>1. m \in 1 .. n
      BY <2>2, <2>3
    <3>2. \A i : i \in 1 .. m <=> i \in 1 .. (m - 1) \/ i = m
      BY <3>1
    <3>. QED
      BY <3>2
  <2>6. Upto(m) \subseteq S /\ Upto(m - 1) \subseteq S
    OBVIOUS
  <2>7. Upto(m - 1) = {} \/ HasGreatest(R, Upto(m - 1))
    BY <2>4
  <2>8. Upto(m) # {} /\ ~ HasGreatest(R, Upto(m))
    BY <2>2
  <2> HIDE DEF Upto, Bad
  <2>9. CASE list[m] \in S
    <3>1. CASE Upto(m - 1) = {}
      BY <2>5, <2>6, <2>8, <2>9, <3>1
    <3>2. CASE HasGreatest(R, Upto(m - 1))
      <4>1. PICK g \in Upto(m - 1) : \A y \in Upto(m - 1) : <<g, y>> \in R
        BY <3>2
      <4>2. CASE <<g, list[m]>> \in R
        <5>1. g \in Upto(m) /\ \A y \in Upto(m) : <<g, y>> \in R
          BY <2>5, <2>6, <4>1, <4>2
        <5>. QED
          BY <2>8, <5>1
      <4>3. CASE <<list[m], g>> \in R
        <5>1. list[m] \in Upto(m) /\ \A y \in Upto(m) : <<list[m], y>> \in R
          BY <2>5, <2>6, <2>9, <4>1, <4>3
        <5>. QED
          BY <2>8, <5>1
      <4>. QED
        BY <2>6, <2>9, <4>1, <4>2, <4>3
    <3>. QED
      BY <2>7, <3>1, <3>2
  <2>10. CASE list[m] \notin S
    <3>1. Upto(m) = Upto(m - 1)
      BY <2>5, <2>6, <2>10
    <3>. QED
      BY <2>7, <2>8, <3>1
  <2>. QED
    BY <2>9, <2>10
<1>3. n \notin Bad
  BY <1>2
<1>. QED
  BY <1>1, <1>3

\* A mixture: the components of a line.
Mixture == Seq([pump : Pumps, amount : Int])

LEMMA MixtureParts ==
    ASSUME NEW components \in Mixture
    PROVE  /\ Len(components) \in Nat
           /\ DOMAIN components = 1 .. Len(components)
           /\ \A i \in 1 .. Len(components) :
                 components[i].pump \in Pumps /\ components[i].amount \in Int
           /\ components # <<>> => 1 \in DOMAIN components
<1>1. /\ Len(components) \in Nat /\ DOMAIN components = 1 .. Len(components)
      /\ components # <<>> => Len(components) # 0
  BY DEF Mixture
<1>2. ASSUME NEW i \in 1 .. Len(components)
      PROVE  components[i].pump \in Pumps /\ components[i].amount \in Int
  <2> DEFINE Part == [pump : Pumps, amount : Int]
  <2>1. components \in Seq(Part) /\ i \in DOMAIN components
    BY <1>1, <1>2 DEF Mixture
  <2> HIDE DEF Part
  <2>2. components[i] \in Part
    BY <2>1
  <2> USE DEF Part
  <2>. QED
    BY <2>2
<1>. QED
  BY <1>1, <1>2

LEMMA PumpsInType ==
    ASSUME NEW components \in Mixture
    PROVE  /\ PumpsIn(components) \in SUBSET Pumps
           /\ components # <<>> => PumpsIn(components) # {}
           /\ \A p \in PumpsIn(components) : \E i \in 1 .. Len(components) : components[i].pump = p
BY MixtureParts DEF PumpsIn

\* The amount of a pump is the one of its last component.
LEMMA AmountIsLast ==
    ASSUME NEW components \in Mixture, NEW i \in 1 .. Len(components),
           \A j \in i + 1 .. Len(components) : components[j].pump # components[i].pump
    PROVE  LastAmount(components)[components[i].pump] = components[i].amount
<1> DEFINE S == {j \in DOMAIN components : components[j].pump = components[i].pump}
<1>1. DOMAIN components = 1 .. Len(components) /\ Len(components) \in Nat
  BY DEF Mixture
<1>2. i \in S /\ S \in SUBSET Nat /\ \A j \in S : j <= i
  BY <1>1
<1>3. Max(S) \in S /\ i <= Max(S)
  BY <1>2, MaxIsGreatest
<1>4. Max(S) = i
  BY <1>2, <1>3
<1>5. components[i].pump \in PumpsIn(components)
  BY <1>1 DEF PumpsIn
<1>. QED
  BY <1>4, <1>5 DEF LastAmount

LEMMA AmountType ==
    ASSUME NEW components \in Mixture, NEW p \in PumpsIn(components)
    PROVE  /\ LastAmount(components)[p] \in Int
           /\ \E i \in DOMAIN components :
                 components[i].pump = p /\ LastAmount(components)[p] = components[i].amount
<1> DEFINE S == {j \in DOMAIN components : components[j].pump = p}
<1>1. DOMAIN components = 1 .. Len(components) /\ Len(components) \in Nat
  BY DEF Mixture
<1>2. S # {} /\ S \in SUBSET Nat /\ \A j \in S : j <= Len(components)
  BY <1>1 DEF PumpsIn
<1>3. Max(S) \in DOMAIN components /\ components[Max(S)].pump = p
  BY <1>1, <1>2, MaxIsGreatest
<1>4. LastAmount(components)[p] = components[Max(S)].amount
  BY DEF LastAmount
<1>. QED
  BY <1>1, <1>3, <1>4, MixtureParts

\* GetMaxElement finds a pump that takes longest.
LEMMA SlowestTakesLongest ==
    ASSUME NEW components \in Mixture, NEW ps \in SUBSET PumpsIn(components), ps # {},
           NEW amount, \A p \in ps : amount[p] \in Int,
           NEW flow, \A p \in ps : flow[p] \in Nat \ {0}
    PROVE  /\ Slowest(ps, amount, flow) \in ps
           /\ \A q \in ps : Longer(amount[Slowest(ps, amount, flow)],
                                   flow[Slowest(ps, amount, flow)], amount[q], flow[q])
<1> DEFINE R == {r \in ps \X ps : Longer(amount[r[1]], flow[r[1]], amount[r[2]], flow[r[2]])}
           S == {p \in ps : \A q \in ps : amount[p] * flow[q] >= amount[q] * flow[p]}
<1>1. \A p, q \in ps : <<p, q>> \in R <=> Longer(amount[p], flow[p], amount[q], flow[q])
  OBVIOUS
<1>2. IsTotal(R, ps)
  BY <1>1, LongerTotal DEF IsTotal
<1>3. IsTransitive(R, ps)
  <2> SUFFICES ASSUME NEW p \in ps, NEW q \in ps, NEW r \in ps,
                      <<p, q>> \in R, <<q, r>> \in R
               PROVE  <<p, r>> \in R
    BY DEF IsTransitive
  <2> HIDE DEF R
  <2>. QED
    BY <1>1, LongerTransitive
<1> DEFINE list == [i \in 1 .. Len(components) |-> components[i].pump]
<1>4. IsListed(ps, list, Len(components))
  BY PumpsInType DEF IsListed
<1>5. Len(components) \in Nat
  BY MixtureParts
<1> HIDE DEF R, list
<1>6. HasGreatest(R, ps)
  BY <1>2, <1>3, <1>4, <1>5, ListHasGreatest
<1>7. S # {}
  BY <1>1, <1>6 DEF Longer, HasGreatest
<1>8. S \in SUBSET Nat
  BY PumpsInType, RecipeAssumption
<1>9. Min(S) \in S
  BY <1>7, <1>8, MinIsLeast
<1>. QED
  BY <1>9 DEF Slowest, Longer

\* GetMinElement finds a pump that is done first.
LEMMA FastestIsFirst ==
    ASSUME NEW components \in Mixture, NEW ps \in SUBSET PumpsIn(components), ps # {},
           NEW amount, \A p \in ps : amount[p] \in Int,
           NEW flow, \A p \in ps : flow[p] \in Nat \ {0}
    PROVE  /\ Fastest(ps, amount, flow) \in ps
           /\ \A q \in ps : Longer(amount[q], flow[q], amount[Fastest(ps, amount, flow)],
                                   flow[Fastest(ps, amount, flow)])
<1> DEFINE R == {r \in ps \X ps : Longer(amount[r[2]], flow[r[2]], amount[r[1]], flow[r[1]])}
           S == {p \in ps : \A q \in ps : amount[p] * flow[q] <= amount[q] * flow[p]}
<1>1. \A p, q \in ps : <<p, q>> \in R <=> Longer(amount[q], flow[q], amount[p], flow[p])
  OBVIOUS
<1>2. IsTotal(R, ps)
  BY <1>1, LongerTotal DEF IsTotal
<1>3. IsTransitive(R, ps)
  <2> SUFFICES ASSUME NEW p \in ps, NEW q \in ps, NEW r \in ps,
                      <<p, q>> \in R, <<q, r>> \in R
               PROVE  <<p, r>> \in R
    BY DEF IsTransitive
  <2> HIDE DEF R
  <2>. QED
    BY <1>1, LongerTransitive
<1> DEFINE list == [i \in 1 .. Len(components) |-> components[i].pump]
<1>4. IsListed(ps, list, Len(components))
  BY PumpsInType DEF IsListed
<1>5. Len(components) \in Nat
  BY MixtureParts
<1> HIDE DEF R, list
<1>6. HasGreatest(R, ps)
  BY <1>2, <1>3, <1>4, <1>5, ListHasGreatest
<1>7. S # {}
  BY <1>1, <1>6 DEF Longer, HasGreatest
<1>8. S \in SUBSET Nat
  BY PumpsInType, RecipeAssumption
<1>9. Min(S) \in S
  BY <1>7, <1>8, MinIsLeast
<1>. QED
  BY <1>9 DEF Fastest, Longer

-----------------------------------------------------------------------------
(* Writing into a time program.                                            *)

\* The program commands pump p at time t.
Commands(tp, t, p) == t \in DOMAIN tp /\ p \in DOMAIN tp[t]

\* r is tp with another command.
IsPut(r, tp, t, p, flow) ==
    /\ DOMAIN r = DOMAIN tp \cup {t}
    /\ \A u, q : Commands(r, u, q) <=> Commands(tp, u, q) \/ (u = t /\ q = p)
    /\ \A u, q : Commands(r, u, q) => r[u][q] = IF u = t /\ q = p THEN flow ELSE tp[u][q]

LEMMA PutEffect ==
    ASSUME NEW tp, NEW t, NEW p, NEW flow
    PROVE  IsPut(Put(tp, t, p, flow), tp, t, p, flow)
<1> DEFINE r == Put(tp, t, p, flow)
           entry == [q \in {p} |-> flow]
           other == [u \in {t} |-> entry]
<1>1. r = Merge(tp, other)
  BY DEF Put
<1>2. DOMAIN other = {t} /\ other[t] = entry /\ DOMAIN entry = {p} /\ entry[p] = flow
  OBVIOUS
<1> HIDE DEF other, entry, r
<1>3. DOMAIN r = DOMAIN tp \cup {t}
  BY <1>1, <1>2 DEF Merge
<1>4. ASSUME NEW u \in DOMAIN r
      PROVE  r[u] = IF u # t THEN tp[u]
                    ELSE IF t \notin DOMAIN tp THEN entry
                    ELSE [q \in DOMAIN tp[t] \cup {p} |-> IF q = p THEN flow ELSE tp[t][q]]
  <2>1. CASE u # t
    BY <1>1, <1>2, <1>3, <2>1 DEF Merge
  <2>2. CASE u = t /\ t \notin DOMAIN tp
    BY <1>1, <1>2, <1>3, <2>2 DEF Merge
  <2>3. CASE u = t /\ t \in DOMAIN tp
    <3>1. r[t] = [q \in DOMAIN tp[t] \cup DOMAIN other[t] |->
                    IF q \in DOMAIN other[t] THEN other[t][q] ELSE tp[t][q]]
      BY <1>1, <1>2, <1>3, <2>3 DEF Merge
    <3>2. \A q \in DOMAIN tp[t] \cup {p} :
             (IF q \in DOMAIN other[t] THEN other[t][q] ELSE tp[t][q])
               = IF q = p THEN flow ELSE tp[t][q]
      BY <1>2
    <3>. QED
      BY <1>2, <2>3, <3>1, <3>2
  <2>. QED
    BY <2>1, <2>2, <2>3
<1>5. ASSUME NEW u, NEW q
      PROVE  /\ Commands(r, u, q) <=> Commands(tp, u, q) \/ (u = t /\ q = p)
             /\ Commands(r, u, q) => r[u][q] = IF u = t /\ q = p THEN flow ELSE tp[u][q]
  <2>1. CASE u # t
    BY <1>3, <1>4, <2>1 DEF Commands
  <2>2. CASE u = t /\ t \notin DOMAIN tp
    BY <1>2, <1>3, <1>4, <2>2 DEF Commands
  <2>3. CASE u = t /\ t \in DOMAIN tp
    <3>1. r[u] = [x \in DOMAIN tp[t] \cup {p} |-> IF x = p THEN flow ELSE tp[t][x]]
      BY <1>3, <1>4, <2>3
    <3>. QED
      BY <1>3, <2>3, <3>1 DEF Commands
  <2>. QED
    BY <2>1, <2>2, <2>3
<1>6. IsPut(r, tp, t, p, flow)
  BY <1>3, <1>5 DEF IsPut
<1>. QED
  BY <1>6 DEF r

\* r is tp with a pump running with a flow from one time to another.
IsRun(r, tp, from, to, p, flow) ==
    /\ DOMAIN r = DOMAIN tp \cup {from, to}
    /\ \A u, q : Commands(r, u, q) <=> Commands(tp, u, q) \/ (u \in {from, to} /\ q = p)
    /\ \A u, q : Commands(r, u, q) =>
           r[u][q] = IF u = to /\ q = p THEN Off
                     ELSE IF u = from /\ q = p THEN flow ELSE tp[u][q]

LEMMA RunEffect ==
    ASSUME NEW tp, NEW from, NEW to, NEW p, NEW flow
    PROVE  IsRun(Run(tp, from, to, p, flow), tp, from, to, p, flow)
<1> DEFINE first == Put(tp, from, p, flow)
           second == Put(first, to, p, Off)
<1>1. IsPut(first, tp, from, p, flow) /\ IsPut(second, first, to, p, Off)
  BY PutEffect
<1>2. Run(tp, from, to, p, flow) = second
  BY DEF Run
<1> HIDE DEF first, second
<1>. QED
  BY <1>1, <1>2 DEF IsPut, IsRun

\* Writing keeps the type.
LEMMA RunType ==
    ASSUME NEW S, 0 \in S, NEW tp, IsTimeProgram(tp, S, Pumps, S), NEW p \in Pumps,
           NEW from \in S, NEW to \in S, NEW flow \in S
    PROVE  IsTimeProgram(Run(tp, from, to, p, flow), S, Pumps, S)
<1>1. ASSUME NEW t \in S, NEW f \in S
      PROVE  IsTimeProgram([u \in {t} |-> [q \in {p} |-> f]], S, Pumps, S)
  BY DEF IsTimeProgram
<1>2. IsTimeProgram(Put(tp, from, p, flow), S, Pumps, S)
  BY <1>1, MergeType DEF Put
<1>3. IsTimeProgram(Put(Put(tp, from, p, flow), to, p, Off), S, Pumps, S)
  <2> DEFINE first == Put(tp, from, p, flow)
  <2> HIDE DEF first
  <2>1. IsTimeProgram([u \in {to} |-> [q \in {p} |-> Off]], S, Pumps, S)
    BY <1>1 DEF Off
  <2>2. IsTimeProgram(Put(first, to, p, Off), S, Pumps, S)
    BY <1>2, <2>1, MergeType DEF Put, first
  <2>. QED
    BY <2>2 DEF first
<1>. QED
  BY <1>3 DEF Run

\* p is commanded for the last time at t.
LastAt(tp, p, t) == Commands(tp, t, p) /\ \A u : Commands(tp, u, p) => u <= t

\* If the program commands p at all, it switches it off in the end.
LeavesOff(tp, p) == (\E u : Commands(tp, u, p)) => \E t : LastAt(tp, p, t) /\ tp[t][p] = Off

LEMMA SwitchesOffMeans ==
    ASSUME NEW tp, NEW p
    PROVE  LeavesOff(tp, p) <=> (p \in PumpsOf(tp) => SwitchesOff(tp, p))
<1>1. p \in PumpsOf(tp) <=> \E u : Commands(tp, u, p)
  BY DEF PumpsOf, Commands
<1>2. \A t : t \in DOMAIN tp /\ IsLastFor(tp, DOMAIN tp, p, t) <=> LastAt(tp, p, t)
  BY DEF IsLastFor, LastAt, Commands
<1>. QED
  BY <1>1, <1>2 DEF LeavesOff, SwitchesOff

LEMMA SettlesMeans ==
    ASSUME NEW tp
    PROVE  Settles(tp) <=> \A p : LeavesOff(tp, p)
BY SwitchesOffMeans DEF Settles

\* A pump that runs from one time to a later one is off afterwards, and others as before.
LEMMA RunLeavesOff ==
    ASSUME NEW tp, DOMAIN tp \in SUBSET Int, NEW p, NEW flow, NEW from \in Int, NEW to \in Int,
           NEW q, LeavesOff(tp, q), q = p => from <= to
    PROVE  LeavesOff(Run(tp, from, to, p, flow), q)
<1> DEFINE r == Run(tp, from, to, p, flow)
<1>0. IsRun(r, tp, from, to, p, flow)
  BY RunEffect
<1> HIDE DEF r
<1>1. /\ \A u, s : Commands(r, u, s) <=> Commands(tp, u, s) \/ (u \in {from, to} /\ s = p)
      /\ \A u, s : Commands(r, u, s) =>
             r[u][s] = IF u = to /\ s = p THEN Off
                       ELSE IF u = from /\ s = p THEN flow ELSE tp[u][s]
  BY <1>0 DEF IsRun
<1>2. \A u, s : Commands(tp, u, s) => u \in Int
  BY DEF Commands
<1>3. ASSUME \E u : Commands(r, u, q)
      PROVE  \E t : LastAt(r, q, t) /\ r[t][q] = Off
  <2>1. CASE q # p
    <3>1. PICK t : LastAt(tp, q, t) /\ tp[t][q] = Off
      BY <1>1, <1>3, <2>1 DEF LeavesOff
    <3>2. LastAt(r, q, t) /\ r[t][q] = Off
      BY <1>1, <2>1, <3>1 DEF LastAt
    <3>. QED
      BY <3>2
  <2>2. CASE q = p /\ \E u : Commands(tp, u, p) /\ u > to
    <3>1. PICK t : LastAt(tp, q, t) /\ tp[t][q] = Off
      BY <2>2 DEF LeavesOff
    <3>2. t > to /\ t \in Int
      BY <1>2, <2>2, <3>1 DEF LastAt
    <3>3. LastAt(r, q, t)
      BY <1>1, <2>2, <3>1, <3>2 DEF LastAt
    <3>4. r[t][q] = Off
      BY <1>1, <2>2, <3>1, <3>2, <3>3 DEF LastAt
    <3>. QED
      BY <3>3, <3>4
  <2>3. CASE q = p /\ ~ \E u : Commands(tp, u, p) /\ u > to
    <3>1. LastAt(r, q, to)
      BY <1>1, <1>2, <2>3 DEF LastAt
    <3>2. r[to][q] = Off
      BY <1>1, <2>3
    <3>. QED
      BY <3>1, <3>2
  <2>. QED
    BY <2>1, <2>2, <2>3
<1>4. LeavesOff(r, q)
  BY <1>3 DEF LeavesOff
<1>. QED
  BY <1>4 DEF r

-----------------------------------------------------------------------------
(* Interpolated lines.                                                     *)

LEMMA CanWaitIsLonger ==
    ASSUME NEW components
    PROVE  LET amount == LastAmount(components)
               slow == SlowestIn(components)
           IN  CanWait(components) =
                  {p \in PumpsIn(components) :
                      Longer(amount[p], MinFlow[p], amount[slow], MaxFlow[slow])}
BY DEF CanWait, Longer

LEMMA FlowsArePositive ==
    \A p \in Pumps :
        /\ MinFlow[p] \in Nat \ {0} /\ MaxFlow[p] \in Nat \ {0}
        /\ MinFlow[p] <= MaxFlow[p]
BY RecipeAssumption

LEMMA SlowestFacts ==
    ASSUME NEW components \in Mixture, components # <<>>
    PROVE  LET amount == LastAmount(components)
               slow == SlowestIn(components)
           IN  /\ slow \in PumpsIn(components) /\ slow \in Pumps
               /\ \A p \in PumpsIn(components) :
                     /\ p \in Pumps /\ amount[p] \in Int
                     /\ Longer(amount[slow], MaxFlow[slow], amount[p], MaxFlow[p])
<1> DEFINE ps == PumpsIn(components)
           amount == LastAmount(components)
<1>1. ps \in SUBSET Pumps /\ ps # {}
  BY PumpsInType
<1>2. \A p \in ps : amount[p] \in Int
  BY AmountType
<1>3. \A p \in ps : MaxFlow[p] \in Nat \ {0}
  BY <1>1, FlowsArePositive
<1> HIDE DEF ps, amount
<1>4. /\ Slowest(ps, amount, MaxFlow) \in ps
      /\ \A q \in ps : Longer(amount[Slowest(ps, amount, MaxFlow)],
                              MaxFlow[Slowest(ps, amount, MaxFlow)], amount[q], MaxFlow[q])
  BY <1>1, <1>2, <1>3, SlowestTakesLongest DEF ps
<1>5. SlowestIn(components) = Slowest(ps, amount, MaxFlow)
  BY DEF SlowestIn, ps, amount
<1>. QED
  BY <1>1, <1>2, <1>4, <1>5 DEF ps, amount

\* Where a pump with a range of flows can wait, no amount is smaller than none.
LEMMA SomethingToWaitFor ==
    ASSUME NEW components \in Mixture, NEW p \in CanWait(components), MinFlow[p] # MaxFlow[p]
    PROVE  LET amount == LastAmount(components)
               slow == SlowestIn(components)
           IN  /\ p \in Pumps /\ slow \in Pumps /\ amount[p] \in Int /\ amount[slow] \in Nat
               /\ amount[slow] * MaxFlow[p] >= amount[p] * MaxFlow[slow]
               /\ amount[p] * MaxFlow[slow] >= amount[slow] * MinFlow[p]
<1>1. p \in PumpsIn(components) /\ components # <<>>
  BY MixtureParts DEF CanWait, PumpsIn
<1>2. PICK amount, slow : amount = LastAmount(components) /\ slow = SlowestIn(components)
  OBVIOUS
<1>3. /\ slow \in Pumps /\ p \in Pumps /\ amount[p] \in Int /\ amount[slow] \in Int
      /\ Longer(amount[slow], MaxFlow[slow], amount[p], MaxFlow[p])
  BY <1>1, <1>2, SlowestFacts
<1>4. Longer(amount[p], MinFlow[p], amount[slow], MaxFlow[slow])
  BY <1>2, CanWaitIsLonger
<1>5. PICK a \in Int, b \in Int, f \in Nat \ {0}, min \in Nat \ {0}, max \in Nat \ {0} :
         a = amount[p] /\ b = amount[slow] /\ f = MaxFlow[slow] /\ min = MinFlow[p] /\ max = MaxFlow[p]
  BY <1>3, FlowsArePositive
<1>6. b * max >= a * f /\ a * f >= b * min /\ min < max
  BY <1>2, <1>3, <1>4, <1>5, FlowsArePositive DEF Longer
<1>7. b \in Nat
  <2> SUFFICES ASSUME b < 0 PROVE FALSE
    OBVIOUS
  <2>1. PICK c \in Nat : c = -b /\ c > 0
    OBVIOUS
  <2>2. b * max = -(c * max) /\ b * min = -(c * min)
    BY <2>1
  <2>3. max * c <= min * c
    BY <1>6, <2>2
  <2>. QED
    BY <1>6, <2>1, <2>3, Cancel
<1>. QED
  BY <1>2, <1>3, <1>5, <1>6, <1>7

\* A pump that can wait gets a flow it can do.
LEMMA InterpolatedFlowFits ==
    ASSUME NEW components \in Mixture, NEW p \in CanWait(components), MinFlow[p] # MaxFlow[p],
           LastAmount(components)[SlowestIn(components)] # 0
    PROVE  LET amount == LastAmount(components)
               slow == SlowestIn(components)
           IN  (amount[p] * MaxFlow[slow]) \div amount[slow] \in MinFlow[p] .. MaxFlow[p]
<1>1. PICK amount, slow : amount = LastAmount(components) /\ slow = SlowestIn(components)
  OBVIOUS
<1>2. /\ p \in Pumps /\ slow \in Pumps /\ amount[p] \in Int /\ amount[slow] \in Nat \ {0}
      /\ amount[slow] * MaxFlow[p] >= amount[p] * MaxFlow[slow]
      /\ amount[p] * MaxFlow[slow] >= amount[slow] * MinFlow[p]
  BY <1>1, SomethingToWaitFor
<1>3. PICK a \in Int, b \in Nat \ {0}, f \in Nat \ {0}, min \in Nat \ {0}, max \in Nat \ {0} :
         a = amount[p] /\ b = amount[slow] /\ f = MaxFlow[slow] /\ min = MinFlow[p] /\ max = MaxFlow[p]
  BY <1>2, FlowsArePositive
<1>4. b * max >= a * f /\ a * f >= b * min
  BY <1>2, <1>3
<1>5. PICK x \in Nat : x = a * f
  <2>1. b * min \in Nat
    OBVIOUS
  <2>. QED
    BY <1>4, <2>1
<1>6. PICK q \in Nat : q = x \div b
  BY Quotient
<1>7. min <= q
  BY <1>4, <1>5, <1>6, Quotient
<1>8. q <= max
  <2>1. q * b <= x
    BY <1>6, Quotient
  <2>2. q * b <= max * b
    BY <1>4, <1>5, <2>1
  <2>. QED
    BY <2>2, Cancel
<1>. QED
  BY <1>1, <1>3, <1>5, <1>6, <1>7, <1>8

\* What is separated cannot wait.
LEMMA TooFastCannotWait ==
    ASSUME line.components \in Mixture, NEW ps \in SUBSET PumpsIn(line.components), TooFast(ps)
    PROVE  Fastest(ps, LastAmount(line.components), MinFlow)
             \in PumpsIn(line.components) \ CanWait(line.components)
<1> DEFINE amount == LastAmount(line.components)
           fast == Fastest(ps, amount, MinFlow)
           slowHere == Slowest(ps, amount, MaxFlow)
           slow == SlowestIn(line.components)
<1>1. ps # {} /\ line.components # <<>>
  BY MixtureParts DEF TooFast, PumpsIn
<1>2. \A p \in PumpsIn(line.components) :
         /\ amount[p] \in Int
         /\ MinFlow[p] \in Nat \ {0} /\ MaxFlow[p] \in Nat \ {0}
         /\ Longer(amount[slow], MaxFlow[slow], amount[p], MaxFlow[p])
  BY <1>1, SlowestFacts, FlowsArePositive
<1>3. fast \in ps
  BY <1>1, <1>2, FastestIsFirst
<1>4. slowHere \in ps
  BY <1>1, <1>2, SlowestTakesLongest
<1>5. slow \in PumpsIn(line.components)
  BY <1>1, SlowestFacts
<1>6. amount[fast] * MaxFlow[slowHere] < amount[slowHere] * MinFlow[fast]
  BY DEF TooFast
<1> HIDE DEF amount, fast, slowHere, slow
<1>7. ~ Longer(amount[fast], MinFlow[fast], amount[slowHere], MaxFlow[slowHere])
  <2>1. /\ amount[fast] \in Int /\ MaxFlow[slowHere] \in Nat
        /\ amount[slowHere] \in Int /\ MinFlow[fast] \in Nat
    BY <1>2, <1>3, <1>4
  <2>2. amount[fast] * MaxFlow[slowHere] \in Int /\ amount[slowHere] * MinFlow[fast] \in Int
    BY <2>1
  <2>. QED
    BY <1>6, <2>2 DEF Longer
<1>8. ~ Longer(amount[fast], MinFlow[fast], amount[slow], MaxFlow[slow])
  <2>1. Longer(amount[slow], MaxFlow[slow], amount[slowHere], MaxFlow[slowHere])
    BY <1>2, <1>4
  <2>2. /\ amount[fast] \in Int /\ amount[slow] \in Int /\ amount[slowHere] \in Int
        /\ MinFlow[fast] \in Nat \ {0} /\ MaxFlow[slow] \in Nat \ {0}
        /\ MaxFlow[slowHere] \in Nat \ {0}
    BY <1>2, <1>3, <1>4, <1>5
  <2>. QED
    BY <1>7, <2>1, <2>2, LongerTransitive
<1>9. fast \notin CanWait(line.components)
  BY <1>8, CanWaitIsLonger DEF amount, slow
<1>. QED
  BY <1>3, <1>9 DEF fast, amount

\* When nobody is too fast any more, all that are left can wait; only where nobody is
\* to deliver anything, pumps with a single flow may be left that cannot.
LEMMA OthersCanWait ==
    ASSUME line.components \in Mixture, NEW ps \in SUBSET PumpsIn(line.components),
           CanWait(line.components) \subseteq ps, ~ TooFast(ps)
    PROVE  /\ \A p \in ps : p \in CanWait(line.components) \/ MinFlow[p] = MaxFlow[p]
           /\ LastAmount(line.components)[SlowestIn(line.components)] >= 0 =>
                 ps = CanWait(line.components)
<1> DEFINE amount == LastAmount(line.components)
           fast == Fastest(ps, amount, MinFlow)
           slowHere == Slowest(ps, amount, MaxFlow)
           slow == SlowestIn(line.components)
<1> SUFFICES ASSUME NEW p \in ps
             PROVE  /\ p \in CanWait(line.components) \/ MinFlow[p] = MaxFlow[p]
                    /\ amount[slow] >= 0 => p \in CanWait(line.components)
  OBVIOUS
<1>1. ps # {} /\ line.components # <<>>
  BY MixtureParts DEF PumpsIn
<1>2. \A q \in PumpsIn(line.components) :
         /\ amount[q] \in Int
         /\ MinFlow[q] \in Nat \ {0} /\ MaxFlow[q] \in Nat \ {0} /\ MinFlow[q] <= MaxFlow[q]
         /\ Longer(amount[slow], MaxFlow[slow], amount[q], MaxFlow[q])
  BY <1>1, SlowestFacts, FlowsArePositive
<1>3. fast \in ps /\ Longer(amount[p], MinFlow[p], amount[fast], MinFlow[fast])
  BY <1>1, <1>2, FastestIsFirst
<1>4. /\ slowHere \in ps
      /\ \A q \in ps : Longer(amount[slowHere], MaxFlow[slowHere], amount[q], MaxFlow[q])
  BY <1>1, <1>2, SlowestTakesLongest
<1>5. slow \in PumpsIn(line.components) /\ slow \in Pumps
  BY <1>1, SlowestFacts
<1>6. ~ (amount[fast] * MaxFlow[slowHere] < amount[slowHere] * MinFlow[fast])
  BY <1>1 DEF TooFast
<1> HIDE DEF amount, fast, slowHere, slow
<1>7. Longer(amount[fast], MinFlow[fast], amount[slowHere], MaxFlow[slowHere])
  <2>1. /\ amount[fast] \in Int /\ MaxFlow[slowHere] \in Nat
        /\ amount[slowHere] \in Int /\ MinFlow[fast] \in Nat
    BY <1>2, <1>3, <1>4
  <2>2. amount[fast] * MaxFlow[slowHere] \in Int /\ amount[slowHere] * MinFlow[fast] \in Int
    BY <2>1
  <2>. QED
    BY <1>6, <2>2 DEF Longer
<1>8. /\ \A q \in {p, fast, slowHere, slow} : amount[q] \in Int
      /\ \A q \in {p, fast, slowHere, slow} : MinFlow[q] \in Nat \ {0} /\ MaxFlow[q] \in Nat \ {0}
  BY <1>2, <1>3, <1>4, <1>5
<1>9. Longer(amount[p], MinFlow[p], amount[slowHere], MaxFlow[slowHere])
  BY <1>3, <1>7, <1>8, LongerTransitive
<1>10. CASE amount[slow] >= 0
  <2>1. slow \in CanWait(line.components)
    <3>1. MinFlow[slow] <= MaxFlow[slow] /\ amount[slow] \in Nat
      BY <1>2, <1>5, <1>10
    <3>2. MinFlow[slow] * amount[slow] <= MaxFlow[slow] * amount[slow]
      BY <1>8, <3>1, Multiply
    <3>3. Longer(amount[slow], MinFlow[slow], amount[slow], MaxFlow[slow])
      BY <1>8, <3>1, <3>2 DEF Longer
    <3>. QED
      BY <1>5, <3>3, CanWaitIsLonger DEF amount, slow
  <2>2. Longer(amount[slowHere], MaxFlow[slowHere], amount[slow], MaxFlow[slow])
    BY <1>4, <2>1
  <2>3. Longer(amount[p], MinFlow[p], amount[slow], MaxFlow[slow])
    BY <1>8, <1>9, <2>2, LongerTransitive
  <2>. QED
    BY <2>3, CanWaitIsLonger DEF amount, slow
<1>11. CASE amount[slow] < 0
  <2>1. Longer(amount[slowHere], MaxFlow[slowHere], amount[p], MaxFlow[p])
    BY <1>4
  <2>2. Longer(amount[p], MinFlow[p], amount[p], MaxFlow[p])
    BY <1>8, <1>9, <2>1, LongerTransitive
  <2>3. PICK a \in Int, b \in Int, f \in Nat \ {0}, min \in Nat \ {0}, max \in Nat \ {0} :
           a = amount[p] /\ b = amount[slow] /\ f = MaxFlow[slow] /\ min = MinFlow[p] /\ max = MaxFlow[p]
    BY <1>8
  <2>4. b < 0 /\ b * max >= a * f /\ a * max >= a * min /\ min <= max
    BY <1>2, <1>11, <2>2, <2>3 DEF Longer
  <2>5. a < 0
    <3> SUFFICES ASSUME a >= 0 PROVE FALSE
      OBVIOUS
    <3>1. a * f >= 0
      OBVIOUS
    <3>2. b * max < 0
      BY <2>4
    <3>. QED
      BY <2>4, <3>1, <3>2
  <2>6. PICK c \in Nat : c = -a /\ c > 0
    BY <2>5
  <2>7. a * max = -(max * c) /\ a * min = -(min * c)
    BY <2>6
  <2>8. max * c <= min * c
    BY <2>4, <2>7
  <2>9. max <= min
    BY <2>6, <2>8, Cancel
  <2>. QED
    BY <1>11, <2>3, <2>4, <2>9
<1>. QED
  BY <1>8, <1>10, <1>11 DEF amount, slow

-----------------------------------------------------------------------------
(* The inductive invariant of every recipe, whatever its numbers are.      *)

\* A line is being compiled.
Open == phase \in {"separate", "components"}

\* What is known at each place of the loops.
LineInv ==
    /\ phase \in {"lines", "done"} => line = NoLine
    /\ Open => line \in Lines /\ Len(compiled) < MaxLines
    /\ phase = "separate" => line.timing = "interpolated" /\ next = 1
    /\ Open /\ line.timing # "sequential" => time = start
    /\ phase = "components" /\ line.timing = "sequential" => time = end

\* Only pumps that cannot wait are separated; all of them are, unless nobody is to deliver
\* anything, and then all of them that have a range of flows.
SeparatedInv ==
    line.timing = "interpolated" =>
        /\ Open => separated \in SUBSET (PumpsIn(line.components) \ CanWait(line.components))
        /\ phase = "components" =>
              LET amount == LastAmount(line.components)
                  slow == SlowestIn(line.components)
              IN  /\ \A p \in PumpsIn(line.components) \ separated :
                        p \in CanWait(line.components) \/ MinFlow[p] = MaxFlow[p]
                  /\ amount[slow] >= 0 =>
                        separated = PumpsIn(line.components) \ CanWait(line.components)
                  /\ end = IF line.components = <<>> THEN start
                           ELSE start + Duration(amount[slow], MaxFlow[slow])

\* The pumps of the components to come.
PumpsLeft == {line.components[i].pump : i \in next .. Len(line.components)}

\* Only a flow that will be overwritten may be one that its pump cannot do.
FlowInv ==
    \A t \in DOMAIN timeprogram : \A p \in DOMAIN timeprogram[t] :
        \/ timeprogram[t][p] = Off
        \/ timeprogram[t][p] \in MinFlow[p] .. MaxFlow[p]
        \/ /\ phase = "components" /\ line.timing = "interpolated"
           /\ t = start /\ p \in PumpsLeft

\* What has been read has no negative amount for a pump.
NoNegative(p) == \A l \in LinesRead : HasNoNegative(l, p)
OffInv == \A p : NoNegative(p) => LeavesOff(timeprogram, p)

AnyInv == TypeOK /\ LineInv /\ SeparatedInv /\ OffInv /\ FlowInv

LEMMA AnyLineParts ==
    ASSUME line \in Lines \cup {NoLine}
    PROVE  /\ line.components \in Mixture
           /\ line.sleep \in Int
           /\ line.timing \in Timings
           /\ Len(line.components) \in Nat
<1>1. CASE line \in Lines
  <2>1. line.components \in Mixture /\ line.sleep \in Int /\ line.timing \in Timings
    BY <1>1, RecipeAssumption DEF Mixture
  <2>. QED
    BY <2>1, MixtureParts
<1>2. CASE line = NoLine
  <2>1. line.components = <<>> /\ line.sleep = 0 /\ line.timing = "machine"
    BY <1>2 DEF NoLine
  <2>. QED
    BY <2>1 DEF Mixture, Timings
<1>. QED
  BY <1>1, <1>2

LEMMA InitAnyInv == Init => AnyInv
<1> SUFFICES ASSUME Init PROVE AnyInv
  OBVIOUS
<1>1. TypeOK
  <2>1. line.components = <<>> /\ Len(line.components) = 0
    BY DEF Init, NoLine
  <2>2. compiled \in Seq([line : Lines, start : Int, end : Int]) /\ Len(compiled) = 0
    BY DEF Init
  <2>. QED
    BY <2>1, <2>2, EmptyIsTimeProgram, RecipeAssumption DEF Init, TypeOK
<1>2. LineInv /\ SeparatedInv
  BY DEF Init, LineInv, SeparatedInv, Open, NoLine
<1>3. OffInv /\ FlowInv
  BY DEF Init, OffInv, LeavesOff, Commands, FlowInv
<1>. QED
  BY <1>1, <1>2, <1>3 DEF AnyInv

\* How an interpolated line ends.
LEMMA AnyInterpolatedEnd ==
    ASSUME AnyInv, phase = "components", line.timing = "interpolated", line.components # <<>>
    PROVE  LET slow == SlowestIn(line.components)
               amount == LastAmount(line.components)[slow]
           IN  /\ amount \in Int /\ MaxFlow[slow] \in Nat \ {0}
               /\ end = time + Duration(amount, MaxFlow[slow])
<1>1. line.components \in Mixture
  BY AnyLineParts DEF AnyInv, TypeOK
<1>. QED
  BY <1>1, SlowestFacts, FlowsArePositive DEF AnyInv, LineInv, SeparatedInv, Open

\* What a component writes, and where the pump is switched off.
Sets(c, to, flow) ==
    /\ to \in Int /\ flow \in Int
    /\ timeprogram' = Run(timeprogram, time, to, c.pump, flow)
    /\ \/ /\ line.timing # "interpolated" /\ flow = MaxFlow[c.pump]
          /\ to = EndTime(c.amount, MaxFlow[c.pump]) /\ to <= end'
       \/ /\ line.timing = "interpolated"
          /\ c.pump \in separated \/ MinFlow[c.pump] = MaxFlow[c.pump]
          /\ flow = MinFlow[c.pump] /\ to = EndTime(c.amount, MinFlow[c.pump])
       \/ /\ line.timing = "interpolated" /\ c.pump \notin separated
          /\ MinFlow[c.pump] # MaxFlow[c.pump]
          /\ flow = InterpolatedFlow(c) /\ to = end

LEMMA ComponentSets ==
    ASSUME AnyInv, Component
    PROVE  LET c == line.components[next]
           IN  /\ c.pump \in Pumps /\ c.amount \in Int
               /\ next \in 1 .. Len(line.components)
               /\ time' \in Int /\ end' \in Int /\ end <= end'
               /\ IF line.timing = "sequential" THEN time' = end' ELSE time' = time
               /\ line.timing = "interpolated" => end' = end
               /\ \E to, flow : Sets(c, to, flow)
<1> DEFINE c == line.components[next]
           max == MaxFlow[c.pump]
           min == MinFlow[c.pump]
<1>1. line.components \in Mixture /\ line.timing \in Timings
  BY AnyLineParts DEF AnyInv, TypeOK
<1>2. next \in 1 .. Len(line.components) /\ line.components # <<>>
  BY <1>1, MixtureParts DEF Component, AnyInv, TypeOK
<1>3. c.pump \in Pumps /\ c.amount \in Int
  BY <1>1, <1>2, MixtureParts
<1>4. max \in Nat \ {0} /\ min \in Nat \ {0}
  BY <1>3, FlowsArePositive
<1>5. time \in Int /\ end \in Int
  BY DEF AnyInv, TypeOK
<1>6. EndTime(c.amount, max) \in Int /\ EndTime(c.amount, min) \in Int
  BY <1>3, <1>4, <1>5, EndTimeType
<1> HIDE DEF c, max, min
<1>7. PICK late : late = EndTime(c.amount, max) /\ late \in Int
  BY <1>6
<1>8. /\ Max({end, late}) \in Int /\ end <= Max({end, late}) /\ late <= Max({end, late})
  BY <1>5, <1>7, MaxOfTwo
<1>9. CASE FastComponent(c)
  <2>1. /\ end' = Max({end, late}) /\ time' = time /\ line.timing \in {"machine", "fast"}
        /\ timeprogram' = Run(timeprogram, time, late, c.pump, max)
    BY <1>7, <1>9 DEF FastComponent, Dose, max
  <2>2. Sets(c, late, max)
    BY <1>4, <1>7, <1>8, <2>1 DEF Sets, max
  <2>. QED
    BY <1>2, <1>3, <1>5, <1>8, <2>1, <2>2 DEF c
<1>10. CASE SequentialComponent(c)
  <2>1. /\ end' = Max({end, late}) /\ time' = end' /\ line.timing = "sequential"
        /\ timeprogram' = Run(timeprogram, time, late, c.pump, max)
    BY <1>7, <1>10 DEF SequentialComponent, Dose, max
  <2>2. Sets(c, late, max)
    BY <1>4, <1>7, <1>8, <2>1 DEF Sets, max
  <2>. QED
    BY <1>2, <1>3, <1>5, <1>8, <2>1, <2>2 DEF c
<1>11. CASE InterpolatedComponent(c)
  <2>1. time' = time /\ end' = end /\ line.timing = "interpolated"
    BY <1>11 DEF InterpolatedComponent
  <2>2. CASE c.pump \in separated \/ MinFlow[c.pump] = MaxFlow[c.pump]
    <3>1. Sets(c, EndTime(c.amount, min), min)
      BY <1>4, <1>6, <1>11, <2>1, <2>2 DEF Sets, InterpolatedComponent, Dose, min
    <3>. QED
      BY <1>2, <1>3, <1>5, <2>1, <3>1 DEF c
  <2>3. CASE ~ (c.pump \in separated \/ MinFlow[c.pump] = MaxFlow[c.pump])
    <3>1. InterpolatedFlow(c) \in Int
      <4>1. PICK slow, amount : slow = SlowestIn(line.components) /\ amount = LastAmount(line.components)[slow]
        OBVIOUS
      <4>2. c.pump \in PumpsIn(line.components)
        BY <1>1, <1>2, MixtureParts DEF PumpsIn, c
      <4>3. c.pump \in CanWait(line.components)
        BY <2>1, <2>3, <4>2 DEF AnyInv, SeparatedInv, Component
      <4>4. amount \in Nat /\ MaxFlow[slow] \in Nat
        BY <1>1, <2>3, <4>1, <4>3, SomethingToWaitFor, FlowsArePositive
      <4>5. c.amount * MaxFlow[slow] \in Int
        BY <1>3, <4>4
      <4>6. amount # 0 => (c.amount * MaxFlow[slow]) \div amount \in Int
        BY <4>4, <4>5
      <4>. QED
        BY <4>1, <4>6 DEF InterpolatedFlow, Off
    <3>2. Sets(c, end, InterpolatedFlow(c))
      BY <1>5, <1>11, <2>1, <2>3, <3>1 DEF Sets, InterpolatedComponent
    <3>. QED
      BY <1>2, <1>3, <1>5, <2>1, <3>2 DEF c
  <2>. QED
    BY <2>2, <2>3
<1>. QED
  BY <1>9, <1>10, <1>11 DEF Component, c

\* A pump without negative amounts in the line is not switched off before it is
\* switched on.
LEMMA SetsForward ==
    ASSUME AnyInv, Component, NEW to, NEW flow, Sets(line.components[next], to, flow),
           HasNoNegative(line, line.components[next].pump)
    PROVE  time <= to
<1>1. PICK c, p : c = line.components[next] /\ p = c.pump
  OBVIOUS
<1>2. line.components \in Mixture /\ next \in 1 .. Len(line.components) /\ time \in Int
  BY ComponentSets, AnyLineParts DEF AnyInv, TypeOK
<1>3. /\ p \in Pumps /\ c.amount \in Nat /\ p \in PumpsIn(line.components) /\ line.components # <<>>
      /\ \A i \in DOMAIN line.components : line.components[i].pump = p => line.components[i].amount \in Nat
  BY <1>1, <1>2, MixtureParts DEF HasNoNegative, PumpsIn
<1>4. MinFlow[p] \in Nat \ {0} /\ MaxFlow[p] \in Nat \ {0}
  BY <1>3, FlowsArePositive
<1>5. CASE to = EndTime(c.amount, MaxFlow[p]) \/ to = EndTime(c.amount, MinFlow[p])
  <2>1. c.amount \in Int /\ c.amount >= 0
    BY <1>3
  <2>2. time <= EndTime(c.amount, MaxFlow[p]) /\ time <= EndTime(c.amount, MinFlow[p])
    BY <1>2, <1>4, <2>1, EndTimeType
  <2>. QED
    BY <1>5, <2>2
<1>6. CASE line.timing = "interpolated" /\ to = end
  <2>1. PICK slow, amount : slow = SlowestIn(line.components) /\ amount = LastAmount(line.components)
    OBVIOUS
  <2>2. /\ amount[slow] \in Int /\ MaxFlow[slow] \in Nat \ {0}
        /\ end = time + Duration(amount[slow], MaxFlow[slow])
    BY <1>3, <1>6, <2>1, AnyInterpolatedEnd DEF Component
  <2>3. amount[p] \in Nat
    BY <1>2, <1>3, <2>1, AmountType
  <2>4. Longer(amount[slow], MaxFlow[slow], amount[p], MaxFlow[p])
    BY <1>2, <1>3, <2>1, SlowestFacts
  <2>5. amount[slow] \in Nat
    <3>1. PICK a \in Int, b \in Nat, f \in Nat \ {0}, g \in Nat \ {0} :
             a = amount[slow] /\ b = amount[p] /\ f = MaxFlow[slow] /\ g = MaxFlow[p]
      BY <1>4, <2>2, <2>3
    <3>2. a * g >= b * f /\ b * f >= 0
      BY <2>4, <3>1 DEF Longer
    <3>3. ASSUME a < 0 PROVE a * g < 0
      BY <3>3
    <3>4. a >= 0
      BY <3>2, <3>3
    <3>. QED
      BY <3>1, <3>4
  <2>6. Duration(amount[slow], MaxFlow[slow]) \in Nat
    BY <2>2, <2>5, DurationType
  <2>. QED
    BY <1>2, <1>6, <2>2, <2>6
<1>. QED
  BY <1>1, <1>5, <1>6 DEF Sets

\* The flow of a component is possible, or it will be overwritten.
LEMMA WrittenFlowFits ==
    ASSUME AnyInv, Component, NEW to, NEW flow, Sets(line.components[next], to, flow)
    PROVE  LET p == line.components[next].pump
           IN  \/ flow = Off
               \/ flow \in MinFlow[p] .. MaxFlow[p]
               \/ line.timing = "interpolated" /\ time = start /\ p \in PumpsLeft'
<1> DEFINE c == line.components[next]
           p == c.pump
           slow == SlowestIn(line.components)
           amount == LastAmount(line.components)
<1>1. /\ p \in Pumps /\ next \in 1 .. Len(line.components)
      /\ line.components \in Mixture
  BY ComponentSets, AnyLineParts DEF AnyInv, TypeOK
<1>2. /\ MinFlow[p] \in Nat /\ MaxFlow[p] \in Nat /\ MinFlow[p] <= MaxFlow[p]
  BY <1>1, FlowsArePositive
<1>3. CASE flow \in {MinFlow[p], MaxFlow[p]}
  BY <1>2, <1>3
<1>4. CASE /\ line.timing = "interpolated" /\ p \notin separated /\ MinFlow[p] # MaxFlow[p]
           /\ flow = InterpolatedFlow(c)
  <2>1. CASE \E i \in next + 1 .. Len(line.components) : line.components[i].pump = p
    <3>1. p \in PumpsLeft'
      BY <2>1 DEF PumpsLeft, Component
    <3>2. time = start
      BY <1>4 DEF AnyInv, LineInv, Open, Component
    <3>. QED
      BY <1>4, <3>1, <3>2
  <2>2. CASE \A i \in next + 1 .. Len(line.components) : line.components[i].pump # p
    <3>1. c.amount = amount[p]
      BY <1>1, <2>2, AmountIsLast
    <3>2. p \in PumpsIn(line.components)
      BY <1>1, MixtureParts DEF PumpsIn
    <3>3. p \in CanWait(line.components)
      BY <1>4, <3>2 DEF AnyInv, SeparatedInv, Component
    <3>4. CASE amount[slow] = 0
      BY <1>4, <3>4 DEF InterpolatedFlow
    <3>5. CASE amount[slow] # 0
      <4>1. flow = (amount[p] * MaxFlow[slow]) \div amount[slow]
        BY <1>4, <3>1, <3>5 DEF InterpolatedFlow
      <4>. QED
        BY <1>1, <1>4, <3>3, <3>5, <4>1, InterpolatedFlowFits
    <3>. QED
      BY <3>4, <3>5
  <2>. QED
    BY <2>1, <2>2
<1>. QED
  BY <1>3, <1>4 DEF Sets

LEMMA ComponentKeepsFlows ==
    ASSUME AnyInv, Component PROVE FlowInv'
<1> DEFINE c == line.components[next]
<1>1. PICK to, flow : Sets(c, to, flow)
  BY ComponentSets
<1>2. IsRun(timeprogram', timeprogram, time, to, c.pump, flow)
  BY <1>1, RunEffect DEF Sets
<1>3. \/ flow = Off
      \/ flow \in MinFlow[c.pump] .. MaxFlow[c.pump]
      \/ line.timing = "interpolated" /\ time = start /\ c.pump \in PumpsLeft'
  BY <1>1, WrittenFlowFits
<1>4. /\ phase = "components" /\ UNCHANGED <<phase, line, start>> /\ next' = next + 1
      /\ next \in 1 .. Len(line.components) /\ Len(line.components) \in Nat
  BY ComponentSets, AnyLineParts DEF Component, AnyInv, TypeOK
<1>5. \A p : p \in PumpsLeft => p = c.pump \/ p \in PumpsLeft'
  BY <1>4 DEF PumpsLeft
<1>6. line.timing = "interpolated" => time = start
  BY <1>4 DEF AnyInv, LineInv, Open
<1> HIDE DEF c
<1>7. ASSUME NEW t \in DOMAIN timeprogram', NEW p \in DOMAIN timeprogram'[t]
      PROVE  \/ timeprogram'[t][p] = Off
             \/ timeprogram'[t][p] \in MinFlow[p] .. MaxFlow[p]
             \/ line.timing = "interpolated" /\ t = start /\ p \in PumpsLeft'
  <2>1. Commands(timeprogram', t, p)
    BY <1>7 DEF Commands
  <2>2. timeprogram'[t][p] = IF t = to /\ p = c.pump THEN Off
                             ELSE IF t = time /\ p = c.pump THEN flow ELSE timeprogram[t][p]
    BY <1>2, <2>1 DEF IsRun
  <2>3. CASE p = c.pump /\ t \in {time, to}
    BY <1>3, <2>2, <2>3
  <2>4. CASE ~ (p = c.pump /\ t \in {time, to})
    <3>1. Commands(timeprogram, t, p) /\ timeprogram'[t][p] = timeprogram[t][p]
      BY <1>2, <2>1, <2>2, <2>4 DEF IsRun
    <3>. QED
      BY <1>5, <1>6, <2>4, <3>1 DEF AnyInv, FlowInv, Commands
  <2>. QED
    BY <2>3, <2>4
<1>. QED
  BY <1>4, <1>7 DEF FlowInv

LEMMA ComponentKeepsAnyInv ==
    ASSUME AnyInv, Component PROVE AnyInv'
<1> DEFINE c == line.components[next]
<1>1. PICK to, flow : Sets(c, to, flow)
  BY ComponentSets
<1>2. /\ c.pump \in Pumps /\ next \in 1 .. Len(line.components)
      /\ time' \in Int /\ end' \in Int
      /\ IF line.timing = "sequential" THEN time' = end' ELSE time' = time
      /\ line.timing = "interpolated" => end' = end
  BY ComponentSets
<1>3. /\ phase = "components" /\ next' = next + 1
      /\ UNCHANGED <<phase, line, start, separated, compiled>>
  BY DEF Component
<1>4. time \in Int /\ start \in Int
  BY <1>3 DEF AnyInv, TypeOK
<1>5. to \in Int /\ flow \in Int
      /\ timeprogram' = Run(timeprogram, time, to, c.pump, flow)
  BY <1>1 DEF Sets
<1>6. TypeOK'
  <2>1. IsTimeProgram(timeprogram', Int, Pumps, Int)
    <3>1. 0 \in Int
      OBVIOUS
    <3>. QED
      BY <1>2, <1>4, <1>5, <3>1, RunType DEF AnyInv, TypeOK
  <2>2. next' \in 1 .. Len(line.components) + 1
    BY <1>2, <1>3, AnyLineParts DEF AnyInv, TypeOK
  <2>. QED
    BY <1>2, <1>3, <2>1, <2>2 DEF AnyInv, TypeOK
<1>7. LineInv'
  BY <1>2, <1>3, <1>4 DEF AnyInv, LineInv, Open
<1>8. SeparatedInv'
  BY <1>2, <1>3 DEF AnyInv, SeparatedInv, Open
<1>9. OffInv'
  <2> SUFFICES ASSUME NEW q, NoNegative(q)' PROVE LeavesOff(timeprogram, q)'
    BY DEF OffInv
  <2>1. NoNegative(q) /\ HasNoNegative(line, q)
    <3>1. LinesRead' = LinesRead /\ line \in LinesRead
      BY <1>3 DEF LinesRead
    <3>. QED
      BY <3>1 DEF NoNegative, HasNoNegative
  <2>2. LeavesOff(timeprogram, q) /\ DOMAIN timeprogram \in SUBSET Int
    BY <2>1 DEF AnyInv, OffInv, TypeOK, IsTimeProgram
  <2>3. q = c.pump => time <= to
    BY <1>1, <2>1, SetsForward
  <2>4. LeavesOff(Run(timeprogram, time, to, c.pump, flow), q)
    BY <1>4, <1>5, <2>2, <2>3, RunLeavesOff
  <2>5. LeavesOff(timeprogram', q)
    BY <1>5, <2>4
  <2>. QED
    BY <2>5 DEF LeavesOff, LastAt, Commands
<1>. QED
  BY <1>6, <1>7, <1>8, <1>9, ComponentKeepsFlows DEF AnyInv

\* While nothing is written and no other line read, the pumps are left as they are.
LEMMA OffStays ==
    ASSUME OffInv, UNCHANGED timeprogram, LinesRead \subseteq LinesRead' \cup {NoLine}
    PROVE  OffInv'
<1> SUFFICES ASSUME NEW q, NoNegative(q)' PROVE LeavesOff(timeprogram, q)'
  BY DEF OffInv
<1>1. NoNegative(q)
  <2> SUFFICES ASSUME NEW l \in LinesRead PROVE HasNoNegative(l, q)
    BY DEF NoNegative
  <2>1. CASE l = NoLine
    BY <2>1 DEF HasNoNegative, NoLine
  <2>2. CASE l \in LinesRead'
    BY <2>2 DEF NoNegative, HasNoNegative
  <2>. QED
    BY <2>1, <2>2
<1>2. LeavesOff(timeprogram, q)
  BY <1>1 DEF OffInv
<1>. QED
  BY <1>2 DEF LeavesOff, LastAt, Commands

\* A line that has been read stays read.
LEMMA LinesStay ==
    ASSUME AnyInv, [Next]_vars
    PROVE  LinesRead \subseteq LinesRead' \cup {NoLine}
<1>1. CASE EndLine
  <2>1. PICK entry : entry = [line |-> line, start |-> start, end |-> end]
    OBVIOUS
  <2>2. compiled \in Seq([line : Lines, start : Int, end : Int])
    BY DEF AnyInv, TypeOK
  <2>3. /\ \A i \in DOMAIN compiled : i \in DOMAIN compiled' /\ compiled'[i] = compiled[i]
        /\ \E i \in DOMAIN compiled' : compiled'[i] = entry
    <3>1. compiled' = Append(compiled, entry) /\ Len(compiled) \in Nat
          /\ DOMAIN compiled = 1 .. Len(compiled)
      BY <1>1, <2>1, <2>2 DEF EndLine
    <3>2. DOMAIN compiled' = 1 .. Len(compiled) + 1 /\ compiled'[Len(compiled) + 1] = entry
          /\ \A i \in 1 .. Len(compiled) : compiled'[i] = compiled[i]
      BY <2>2, <3>1
    <3>. QED
      BY <3>1, <3>2
  <2>4. entry.line = line
    BY <2>1
  <2>. QED
    BY <2>3, <2>4 DEF LinesRead
<1>2. CASE \E l \in Lines : BeginLine(l)
  <2>1. line = NoLine /\ compiled' = compiled
    BY <1>2 DEF BeginLine, AnyInv, LineInv
  <2>. QED
    BY <2>1 DEF LinesRead
<1>3. CASE SeparateTooFastIngredients \/ ComputeEnd \/ Component
  <2>1. UNCHANGED <<line, compiled>>
    BY <1>3 DEF SeparateTooFastIngredients, ComputeEnd, Component
  <2>. QED
    BY <2>1 DEF LinesRead
<1>4. CASE Fail \/ Finish \/ Ended \/ UNCHANGED vars
  <2>1. UNCHANGED <<line, compiled>>
    BY <1>4 DEF Fail, Finish, Ended, vars
  <2>. QED
    BY <2>1 DEF LinesRead
<1>. QED
  BY <1>1, <1>2, <1>3, <1>4 DEF Next

LEMMA SeparateKeepsAnyInv ==
    ASSUME AnyInv, SeparateTooFastIngredients \/ ComputeEnd PROVE AnyInv'
<1>1. /\ line.components \in Mixture /\ line.timing = "interpolated" /\ line \in Lines
      /\ phase = "separate" /\ next = 1 /\ time = start /\ start \in Int
      /\ separated \in SUBSET (PumpsIn(line.components) \ CanWait(line.components))
  BY AnyLineParts DEF SeparateTooFastIngredients, ComputeEnd, AnyInv, TypeOK, LineInv, Open,
     SeparatedInv
<1>2. CASE SeparateTooFastIngredients
  <2>1. separated' \in SUBSET (PumpsIn(line.components) \ CanWait(line.components))
    BY <1>1, <1>2, TooFastCannotWait DEF SeparateTooFastIngredients, Remaining
  <2>2. separated' \in SUBSET Pumps
    BY <1>1, <2>1, PumpsInType
  <2>3. UNCHANGED <<timeprogram, time, phase, line, start, end, next, compiled>>
    BY <1>2 DEF SeparateTooFastIngredients
  <2>4. TypeOK'
    BY <2>2, <2>3 DEF AnyInv, TypeOK
  <2>5. LineInv' /\ SeparatedInv'
    BY <1>1, <2>1, <2>3 DEF AnyInv, LineInv, Open, SeparatedInv
  <2>6. OffInv' /\ FlowInv'
    BY <1>2, <2>3, LinesStay, OffStays DEF Next, AnyInv, FlowInv, PumpsLeft
  <2>. QED
    BY <2>4, <2>5, <2>6 DEF AnyInv
<1>3. CASE ComputeEnd
  <2> DEFINE slow == SlowestIn(line.components)
             amount == LastAmount(line.components)[slow]
             can == CanWait(line.components)
             all == PumpsIn(line.components)
  <2>1. /\ UNCHANGED <<timeprogram, time, line, start, next, separated, compiled>>
        /\ phase' = "components"
        /\ end' = IF line.components = <<>> THEN time ELSE time + Duration(amount, MaxFlow[slow])
        /\ ~ TooFast(Remaining)
    BY <1>3 DEF ComputeEnd
  <2>2. line.components # <<>> => Duration(amount, MaxFlow[slow]) \in Int
    BY <1>1, SlowestFacts, FlowsArePositive, DurationIsWhole
  <2>3. /\ \A p \in Remaining : p \in can \/ MinFlow[p] = MaxFlow[p]
        /\ amount >= 0 => Remaining = can
    <3>1. Remaining \in SUBSET all /\ can \subseteq Remaining
      BY <1>1 DEF Remaining, CanWait
    <3>. QED
      BY <1>1, <2>1, <3>1, OthersCanWait
  <2> HIDE DEF slow, amount
  <2>4. end' \in Int
    BY <1>1, <2>1, <2>2
  <2>9. /\ \A p \in all \ separated : p \in can \/ MinFlow[p] = MaxFlow[p]
        /\ amount >= 0 => separated = all \ can
    <3>1. Remaining = all \ separated /\ separated \in SUBSET (all \ can)
      BY <1>1 DEF Remaining
    <3> HIDE DEF all, can
    <3>2. ASSUME amount >= 0 PROVE separated = all \ can
      <4>1. all \ separated = can
        BY <2>3, <3>1, <3>2
      <4>. QED
        BY <3>1, <4>1
    <3>. QED
      BY <2>3, <3>1, <3>2
  <2>5. TypeOK'
    BY <1>1, <2>1, <2>4 DEF AnyInv, TypeOK
  <2>6. LineInv'
    BY <1>1, <2>1 DEF AnyInv, LineInv, Open
  <2>7. SeparatedInv'
    BY <1>1, <2>1, <2>9 DEF SeparatedInv, slow, amount, all, can
  <2>8. OffInv' /\ FlowInv'
    <3>1. OffInv'
      BY <1>3, <2>1, LinesStay, OffStays DEF Next, AnyInv
    <3>. QED
      BY <1>1, <2>1, <3>1 DEF AnyInv, FlowInv
  <2>. QED
    BY <2>5, <2>6, <2>7, <2>8 DEF AnyInv
<1>. QED
  BY <1>2, <1>3

LEMMA EndLineKeepsAnyInv ==
    ASSUME AnyInv, EndLine PROVE AnyInv'
<1>1. /\ phase = "components" /\ next > Len(line.components)
      /\ time' = end + line.sleep + 1
      /\ compiled' = Append(compiled, [line |-> line, start |-> start, end |-> end])
      /\ phase' = "lines" /\ line' = NoLine /\ next' = 1 /\ separated' = {}
      /\ UNCHANGED <<timeprogram, start, end>>
  BY DEF EndLine
<1>2. /\ line \in Lines /\ line.sleep \in Int /\ end \in Int /\ start \in Int
      /\ Len(line.components) \in Nat /\ next \in 1 .. Len(line.components) + 1
      /\ Len(compiled) < MaxLines
  BY <1>1, AnyLineParts DEF AnyInv, TypeOK, LineInv, Open
<1>3. TypeOK'
  <2> DEFINE Entry == [line : Lines, start : Int, end : Int]
             entry == [line |-> line, start |-> start, end |-> end]
  <2>1. entry \in Entry
    BY <1>2
  <2>2. compiled \in Seq(Entry)
    BY DEF AnyInv, TypeOK
  <2> HIDE DEF Entry, entry
  <2>3. Append(compiled, entry) \in Seq(Entry) /\ Len(Append(compiled, entry)) = Len(compiled) + 1
        /\ Len(compiled) \in Nat
    BY <2>1, <2>2
  <2>4. compiled' = Append(compiled, entry)
    BY <1>1 DEF entry
  <2>5. compiled' \in Seq(Entry) /\ Len(compiled') <= MaxLines
    BY <1>2, <2>3, <2>4, RecipeAssumption
  <2>6. line'.components = <<>> /\ Len(line'.components) = 0
    BY <1>1 DEF NoLine
  <2>7. time' \in Int
    BY <1>1, <1>2
  <2>. QED
    BY <1>1, <1>2, <2>5, <2>6, <2>7 DEF AnyInv, TypeOK, Entry
<1>4. LineInv' /\ SeparatedInv'
  BY <1>1 DEF LineInv, SeparatedInv, Open, NoLine
<1>5. FlowInv'
  <2>1. PumpsLeft = {}
    BY <1>1, <1>2 DEF PumpsLeft
  <2>. QED
    BY <1>1, <2>1 DEF AnyInv, FlowInv
<1>6. OffInv'
  BY <1>1, LinesStay, OffStays DEF Next, AnyInv
<1>. QED
  BY <1>3, <1>4, <1>5, <1>6 DEF AnyInv

LEMMA StutterKeepsAnyInv ==
    ASSUME AnyInv, UNCHANGED vars PROVE AnyInv'
<1>1. OffInv'
  BY LinesStay, OffStays DEF vars, AnyInv
<1>. QED
  BY <1>1 DEF vars, AnyInv, TypeOK, LineInv, SeparatedInv, Open, FlowInv, PumpsLeft

LEMMA OthersKeepAnyInv ==
    ASSUME AnyInv, (\E l \in Lines : BeginLine(l)) \/ Fail \/ Finish \/ Ended PROVE AnyInv'
<1>1. CASE \E l \in Lines : BeginLine(l)
  <2>1. PICK l \in Lines : BeginLine(l)
    BY <1>1
  <2>2. /\ phase = "lines" /\ Len(compiled) < MaxLines
        /\ phase' = IF l.timing = "interpolated" THEN "separate" ELSE "components"
        /\ line' = l /\ start' = time /\ end' = time /\ next' = 1 /\ separated' = {}
        /\ UNCHANGED <<timeprogram, time, compiled>>
    BY <2>1 DEF BeginLine
  <2>3. time \in Int
    BY <2>2 DEF AnyInv, TypeOK
  <2>4. l.components \in Mixture
    BY RecipeAssumption DEF Mixture
  <2>5. TypeOK'
    <3>1. 1 \in 1 .. Len(l.components) + 1
      BY <2>4, MixtureParts
    <3>. QED
      BY <2>2, <2>3, <3>1 DEF AnyInv, TypeOK
  <2>6. LineInv'
    BY <2>2, <2>3 DEF LineInv, Open
  <2>7. SeparatedInv'
    BY <2>2 DEF SeparatedInv
  <2>8. OffInv' /\ FlowInv'
    <3>1. OffInv'
      BY <1>1, <2>2, LinesStay, OffStays DEF Next, AnyInv
    <3>. QED
      BY <2>2, <3>1 DEF AnyInv, FlowInv
  <2>. QED
    BY <2>5, <2>6, <2>7, <2>8 DEF AnyInv
<1>2. CASE Fail
  <2>1. /\ phase' = "failed" /\ time' = -1
        /\ phase = "lines" \/ line.timing # "interpolated"
        /\ UNCHANGED <<timeprogram, line, start, end, next, separated, compiled>>
    BY <1>2 DEF Fail
  <2>2. TypeOK'
    BY <2>1 DEF AnyInv, TypeOK
  <2>3. LineInv' /\ SeparatedInv'
    BY <2>1 DEF LineInv, SeparatedInv, Open
  <2>4. OffInv' /\ FlowInv'
    <3>1. OffInv'
      BY <1>2, <2>1, LinesStay, OffStays DEF Next, AnyInv
    <3>. QED
      BY <2>1, <3>1 DEF AnyInv, FlowInv
  <2>. QED
    BY <2>2, <2>3, <2>4 DEF AnyInv
<1>3. CASE Finish
  <2>1. /\ phase = "lines" /\ phase' = "done"
        /\ UNCHANGED <<timeprogram, time, line, start, end, next, separated, compiled>>
    BY <1>3 DEF Finish
  <2>2. TypeOK'
    BY <2>1 DEF AnyInv, TypeOK
  <2>3. LineInv' /\ SeparatedInv'
    BY <2>1 DEF AnyInv, LineInv, SeparatedInv, Open
  <2>4. OffInv' /\ FlowInv'
    <3>1. OffInv'
      BY <1>3, <2>1, LinesStay, OffStays DEF Next, AnyInv
    <3>. QED
      BY <2>1, <3>1 DEF AnyInv, FlowInv
  <2>. QED
    BY <2>2, <2>3, <2>4 DEF AnyInv
<1>4. CASE Ended
  BY <1>4, StutterKeepsAnyInv DEF Ended
<1>. QED
  BY <1>1, <1>2, <1>3, <1>4

LEMMA NextAnyInv == AnyInv /\ [Next]_vars => AnyInv'
<1> SUFFICES ASSUME AnyInv, [Next]_vars PROVE AnyInv'
  OBVIOUS
<1>1. CASE UNCHANGED vars
  BY <1>1, StutterKeepsAnyInv
<1>. QED
  BY <1>1, ComponentKeepsAnyInv, SeparateKeepsAnyInv, EndLineKeepsAnyInv, OthersKeepAnyInv DEF Next

LEMMA AnyInvariance == Spec => []AnyInv
BY InitAnyInv, NextAnyInv, PTL DEF Spec

\* No variable of CreateTimeProgram leaves its type, for any recipe.
THEOREM TypeCorrect == Spec => []TypeOK
<1>1. AnyInv => TypeOK
  BY DEF AnyInv
<1>. QED
  BY <1>1, AnyInvariance, PTL

\* Every time program, finished or not, and whatever the numbers in the recipe are, leaves
\* every pump off for which no amount is negative.
THEOREM ProgramsEndOff == Spec => []EndsOff
<1>1. AnyInv => EndsOff
  BY SwitchesOffMeans DEF AnyInv, OffInv, NoNegative, EndsOff
<1>. QED
  BY <1>1, AnyInvariance, PTL

\* Every flow in a time program is one that its pump can do, whatever the numbers in the
\* recipe are.
THEOREM FlowsFit == Spec => []FlowsArePossible
<1>1. AnyInv => FlowsArePossible
  BY DEF AnyInv, FlowInv, FlowsArePossible
<1>. QED
  BY <1>1, AnyInvariance, PTL

-----------------------------------------------------------------------------
(* Recipes without a negative number.  What is known of them is part of an *)
(* invariant that is one as long as nothing negative has been read.        *)

NatTypeOK ==
    /\ IsTimeProgram(timeprogram, Nat, Pumps, Nat)
    /\ time \in Nat \cup {-1} /\ (time = -1 => phase = "failed")
    /\ line \in NaturalLines \cup {NoLine}
    /\ start \in Nat /\ end \in Nat
    /\ next \in 1 .. Len(line.components) + 1
    /\ separated \in SUBSET Pumps
    /\ compiled \in Seq([line : NaturalLines, start : Nat, end : Nat])

InOrder == Open => line \in NaturalLines /\ start <= time /\ time <= end

Inv == AnyInv /\ NatTypeOK /\ InOrder

LEMMA NaturalParts ==
    ASSUME NEW l \in NaturalLines \cup {NoLine}
    PROVE  /\ l.components \in Mixture /\ l.sleep \in Nat /\ l.timing \in Timings
           /\ Len(l.components) \in Nat /\ DOMAIN l.components = 1 .. Len(l.components)
           /\ \A i \in DOMAIN l.components :
                 l.components[i].pump \in Pumps /\ l.components[i].amount \in Nat
           /\ \A p \in PumpsIn(l.components) : LastAmount(l.components)[p] \in Nat
           /\ \A p : HasNoNegative(l, p)
<1>1. l.components \in Mixture /\ l.sleep \in Nat /\ l.timing \in Timings
  <2>1. CASE l \in NaturalLines
    <3>1. l \in Lines /\ l.sleep >= 0
      BY <2>1 DEF NaturalLines
    <3>2. l.components \in Mixture /\ l.sleep \in Int /\ l.timing \in Timings
      BY <3>1, RecipeAssumption DEF Mixture
    <3>. QED
      BY <3>1, <3>2
  <2>2. CASE l = NoLine
    BY <2>2 DEF NoLine, Mixture, Timings
  <2>. QED
    BY <2>1, <2>2
<1>2. \A i \in DOMAIN l.components : l.components[i].amount >= 0
  BY DEF NaturalLines, NoLine
<1>3. \A i \in DOMAIN l.components :
         l.components[i].pump \in Pumps /\ l.components[i].amount \in Nat
  BY <1>1, <1>2, MixtureParts
<1>4. \A p \in PumpsIn(l.components) : LastAmount(l.components)[p] \in Nat
  BY <1>1, <1>3, AmountType
<1>. QED
  BY <1>1, <1>2, <1>3, <1>4, MixtureParts DEF HasNoNegative

LEMMA LineParts ==
    ASSUME line \in NaturalLines \cup {NoLine}
    PROVE  /\ line.components \in Mixture
           /\ line.sleep \in Nat
           /\ line.timing \in Timings
           /\ Len(line.components) \in Nat
BY NaturalParts

\* Then everything is switched off.
LEMMA InvSettles == Inv => Settles(timeprogram)
<1> SUFFICES ASSUME Inv, NEW p PROVE LeavesOff(timeprogram, p)
  BY SettlesMeans
<1>1. LinesRead \subseteq NaturalLines \cup {NoLine}
  <2> DEFINE Entry == [line : NaturalLines, start : Nat, end : Nat]
  <2>1. compiled \in Seq(Entry)
    BY DEF Inv, NatTypeOK
  <2> HIDE DEF Entry
  <2>2. \A i \in DOMAIN compiled : compiled[i] \in Entry
    BY <2>1
  <2>. QED
    BY <2>2 DEF LinesRead, Entry, Inv, NatTypeOK
<1>2. NoNegative(p)
  BY <1>1, NaturalParts DEF NoNegative
<1>. QED
  BY <1>2 DEF Inv, AnyInv, OffInv

LEMMA InitInv == Init => Inv
<1> SUFFICES ASSUME Init PROVE Inv
  OBVIOUS
<1>1. AnyInv
  BY InitAnyInv
<1>2. NatTypeOK
  <2>1. line.components = <<>> /\ Len(line.components) = 0
    BY DEF Init, NoLine
  <2>2. compiled \in Seq([line : NaturalLines, start : Nat, end : Nat])
    BY DEF Init
  <2>. QED
    BY <2>1, <2>2, EmptyIsTimeProgram DEF Init, NatTypeOK
<1>. QED
  BY <1>1, <1>2 DEF Init, Inv, InOrder, Open

\* How an interpolated line ends.
LEMMA InterpolatedEnd ==
    ASSUME Inv, phase = "components", line.timing = "interpolated", line.components # <<>>
    PROVE  LET slow == SlowestIn(line.components)
               amount == LastAmount(line.components)[slow]
           IN  /\ amount \in Nat /\ MaxFlow[slow] \in Nat \ {0}
               /\ end = time + Duration(amount, MaxFlow[slow])
               /\ separated = PumpsIn(line.components) \ CanWait(line.components)
<1> DEFINE slow == SlowestIn(line.components)
           amount == LastAmount(line.components)[slow]
<1>1. line \in NaturalLines \cup {NoLine} /\ line.components \in Mixture
  BY LineParts DEF Inv, NatTypeOK
<1>2. slow \in PumpsIn(line.components)
  BY <1>1, SlowestFacts
<1>3. amount \in Nat /\ amount >= 0
  BY <1>1, <1>2, NaturalParts
<1>4. MaxFlow[slow] \in Nat \ {0} /\ end = time + Duration(amount, MaxFlow[slow])
  BY AnyInterpolatedEnd DEF Inv
<1>. QED
  BY <1>3, <1>4 DEF Inv, AnyInv, SeparatedInv

\* What a component writes and where the line then stands.
Writes(c, to, flow) ==
    /\ to \in Nat /\ flow \in Nat /\ time <= to
    /\ timeprogram' = Run(timeprogram, time, to, c.pump, flow)
    /\ \/ /\ line.timing # "interpolated" /\ flow = MaxFlow[c.pump]
          /\ to = time + Duration(c.amount, MaxFlow[c.pump]) /\ to <= end'
       \/ /\ line.timing = "interpolated"
          /\ c.pump \in separated \/ MinFlow[c.pump] = MaxFlow[c.pump]
          /\ flow = MinFlow[c.pump] /\ to = time + Duration(c.amount, MinFlow[c.pump])
       \/ /\ line.timing = "interpolated" /\ c.pump \notin separated
          /\ MinFlow[c.pump] # MaxFlow[c.pump]
          /\ flow = InterpolatedFlow(c) /\ to = end

LEMMA ComponentEffect ==
    ASSUME Inv, Component
    PROVE  LET c == line.components[next]
           IN  /\ c.pump \in Pumps /\ c.amount \in Nat
               /\ next \in 1 .. Len(line.components)
               /\ time' \in Nat /\ end' \in Nat
               /\ time <= time' /\ time' <= end' /\ end <= end'
               /\ IF line.timing = "sequential" THEN time' = end' ELSE time' = time
               /\ line.timing = "interpolated" => end' = end
               /\ \E to, flow : Writes(c, to, flow)
<1> DEFINE c == line.components[next]
<1>1. /\ line \in NaturalLines /\ line.components \in Mixture
      /\ start \in Nat /\ end \in Nat /\ time \in Nat /\ start <= time /\ time <= end
  BY LineParts DEF Component, Inv, NatTypeOK, InOrder, Open
<1>2. /\ next \in 1 .. Len(line.components) /\ c.pump \in Pumps
      /\ time' \in Int /\ end' \in Int /\ end <= end'
      /\ IF line.timing = "sequential" THEN time' = end' ELSE time' = time
      /\ line.timing = "interpolated" => end' = end
  BY ComponentSets DEF Inv
<1>3. PICK to, flow : Sets(c, to, flow)
  BY ComponentSets DEF Inv
<1>4. c.amount \in Nat /\ HasNoNegative(line, c.pump) /\ line.components # <<>>
  BY <1>1, <1>2, NaturalParts, MixtureParts
<1>5. time <= to
  BY <1>3, <1>4, SetsForward DEF Inv
<1> HIDE DEF c
<1>6. to \in Nat
  BY <1>1, <1>3, <1>5 DEF Sets
<1>7. MaxFlow[c.pump] \in Nat \ {0} /\ MinFlow[c.pump] \in Nat \ {0}
  BY <1>2, FlowsArePositive
<1>8. /\ EndTime(c.amount, MaxFlow[c.pump]) = time + Duration(c.amount, MaxFlow[c.pump])
      /\ EndTime(c.amount, MinFlow[c.pump]) = time + Duration(c.amount, MinFlow[c.pump])
  BY <1>1, <1>4, <1>7, EndTimeIs
<1>9. flow \in Nat
  <2>1. CASE flow = InterpolatedFlow(c) /\ line.timing = "interpolated"
    <3> DEFINE slow == SlowestIn(line.components)
               amount == LastAmount(line.components)[slow]
    <3>1. amount \in Nat /\ MaxFlow[slow] \in Nat
      BY <1>4, <2>1, InterpolatedEnd DEF Component
    <3> HIDE DEF slow, amount
    <3>2. c.amount * MaxFlow[slow] \in Nat
      BY <1>4, <3>1
    <3>3. amount # 0 => (c.amount * MaxFlow[slow]) \div amount \in Nat
      BY <3>1, <3>2, Quotient
    <3>. QED
      BY <2>1, <3>3 DEF InterpolatedFlow, amount, slow, Off
  <2>. QED
    BY <1>3, <1>7, <2>1 DEF Sets
<1>10. Writes(c, to, flow)
  BY <1>3, <1>5, <1>6, <1>8, <1>9 DEF Sets, Writes
<1>11. time' \in Nat /\ end' \in Nat /\ time <= time' /\ time' <= end'
  BY <1>1, <1>2
<1>. QED
  BY <1>2, <1>4, <1>10, <1>11 DEF c

LEMMA ComponentKeepsInv ==
    ASSUME Inv, Component PROVE Inv'
<1> DEFINE c == line.components[next]
<1>1. PICK to, flow : Writes(c, to, flow)
  BY ComponentEffect
<1>2. /\ c.pump \in Pumps /\ time' \in Nat /\ end' \in Nat
      /\ time <= time' /\ time' <= end'
  BY ComponentEffect
<1>3. phase = "components" /\ UNCHANGED <<phase, line, start, separated, compiled>>
  BY DEF Component
<1>4. time \in Nat /\ start \in Nat /\ start <= time
  BY <1>3 DEF Inv, NatTypeOK, InOrder, Open
<1>5. AnyInv'
  BY ComponentKeepsAnyInv DEF Inv
<1>6. IsTimeProgram(timeprogram', Nat, Pumps, Nat)
  <2>1. 0 \in Nat /\ to \in Nat /\ flow \in Nat
        /\ timeprogram' = Run(timeprogram, time, to, c.pump, flow)
    BY <1>1 DEF Writes
  <2>. QED
    BY <1>2, <1>4, <2>1, RunType DEF Inv, NatTypeOK
<1>7. NatTypeOK'
  <2>1. next' \in 1 .. Len(line'.components) + 1
    BY <1>5 DEF AnyInv, TypeOK
  <2>. QED
    BY <1>2, <1>3, <1>6, <2>1 DEF Inv, NatTypeOK
<1>8. InOrder'
  BY <1>2, <1>3, <1>4 DEF Inv, InOrder, Open
<1>. QED
  BY <1>5, <1>7, <1>8 DEF Inv

LEMMA SeparateKeepsInv ==
    ASSUME Inv, SeparateTooFastIngredients \/ ComputeEnd PROVE Inv'
<1>1. AnyInv'
  BY SeparateKeepsAnyInv DEF Inv
<1>2. next' \in 1 .. Len(line'.components) + 1 /\ separated' \in SUBSET Pumps
  BY <1>1 DEF AnyInv, TypeOK
<1>3. /\ UNCHANGED <<timeprogram, time, line, start, compiled>>
      /\ phase = "separate" /\ Open
  BY DEF SeparateTooFastIngredients, ComputeEnd, Open
<1>4. time \in Nat /\ end \in Nat /\ start <= time /\ time <= end /\ line \in NaturalLines
  BY <1>3 DEF Inv, NatTypeOK, InOrder
<1>5. end' \in Nat /\ time <= end'
  <2>1. CASE SeparateTooFastIngredients
    BY <1>4, <2>1 DEF SeparateTooFastIngredients
  <2>2. CASE ComputeEnd /\ line.components = <<>>
    BY <1>4, <2>2 DEF ComputeEnd
  <2>3. CASE ComputeEnd /\ line.components # <<>>
    <3> DEFINE slow == SlowestIn(line.components)
               amount == LastAmount(line.components)[slow]
    <3>1. slow \in PumpsIn(line.components) /\ slow \in Pumps
      BY <1>4, <2>3, NaturalParts, SlowestFacts
    <3>2. amount \in Nat /\ MaxFlow[slow] \in Nat \ {0}
      BY <1>4, <3>1, NaturalParts, FlowsArePositive
    <3>3. end' = time + Duration(amount, MaxFlow[slow])
      BY <2>3 DEF ComputeEnd
    <3> HIDE DEF slow, amount
    <3>. QED
      BY <1>4, <3>2, <3>3, DurationType
  <2>. QED
    BY <2>1, <2>2, <2>3
<1>6. NatTypeOK'
  BY <1>2, <1>3, <1>4, <1>5 DEF Inv, NatTypeOK
<1>7. InOrder'
  BY <1>3, <1>4, <1>5 DEF InOrder
<1>. QED
  BY <1>1, <1>6, <1>7 DEF Inv

LEMMA EndLineKeepsInv ==
    ASSUME Inv, EndLine PROVE Inv'
<1>1. /\ phase = "components"
      /\ time' = end + line.sleep + 1
      /\ compiled' = Append(compiled, [line |-> line, start |-> start, end |-> end])
      /\ phase' = "lines" /\ line' = NoLine
      /\ UNCHANGED <<timeprogram, start, end>>
  BY DEF EndLine
<1>2. AnyInv'
  BY EndLineKeepsAnyInv DEF Inv
<1>3. line \in NaturalLines /\ line.sleep \in Nat /\ end \in Nat /\ start \in Nat
  BY <1>1, LineParts DEF Inv, NatTypeOK, InOrder, Open
<1>4. compiled' \in Seq([line : NaturalLines, start : Nat, end : Nat])
  <2> DEFINE Entry == [line : NaturalLines, start : Nat, end : Nat]
             entry == [line |-> line, start |-> start, end |-> end]
  <2>1. entry \in Entry
    BY <1>3
  <2>2. compiled \in Seq(Entry)
    BY DEF Inv, NatTypeOK
  <2> HIDE DEF Entry, entry
  <2>3. Append(compiled, entry) \in Seq(Entry)
    BY <2>1, <2>2
  <2>. QED
    BY <1>1, <2>3 DEF entry, Entry
<1>5. next' \in 1 .. Len(line'.components) + 1 /\ separated' \in SUBSET Pumps
  BY <1>2 DEF AnyInv, TypeOK
<1>6. time' \in Nat
  BY <1>1, <1>3
<1>7. NatTypeOK' /\ InOrder'
  BY <1>1, <1>3, <1>4, <1>5, <1>6 DEF Inv, NatTypeOK, InOrder, Open
<1>. QED
  BY <1>2, <1>7 DEF Inv

LEMMA OthersKeepInv ==
    ASSUME Inv,
           (\E l \in NaturalLines : BeginLine(l)) \/ Fail \/ Finish \/ Ended \/ UNCHANGED vars
    PROVE  Inv'
<1>1. AnyInv'
  BY OthersKeepAnyInv, StutterKeepsAnyInv DEF Inv, NaturalLines
<1>2. next' \in 1 .. Len(line'.components) + 1 /\ separated' \in SUBSET Pumps
  BY <1>1 DEF AnyInv, TypeOK
<1>3. CASE \E l \in NaturalLines : BeginLine(l)
  <2>1. /\ phase = "lines" /\ line' \in NaturalLines /\ start' = time /\ end' = time
        /\ UNCHANGED <<timeprogram, time, compiled>>
    BY <1>3 DEF BeginLine
  <2>2. time \in Nat
    BY <2>1 DEF Inv, NatTypeOK
  <2>. QED
    BY <1>1, <1>2, <2>1, <2>2 DEF Inv, NatTypeOK, InOrder
<1>4. CASE Fail
  <2>1. /\ phase' = "failed" /\ time' = -1
        /\ UNCHANGED <<timeprogram, line, start, end, compiled>>
    BY <1>4 DEF Fail
  <2>. QED
    BY <1>1, <1>2, <2>1 DEF Inv, NatTypeOK, InOrder, Open
<1>5. CASE Finish
  <2>1. /\ phase = "lines" /\ phase' = "done"
        /\ UNCHANGED <<timeprogram, time, line, start, end, compiled>>
    BY <1>5 DEF Finish
  <2>. QED
    BY <1>1, <1>2, <2>1 DEF Inv, NatTypeOK, InOrder, Open
<1>6. CASE Ended \/ UNCHANGED vars
  <2>1. UNCHANGED vars
    BY <1>6 DEF Ended
  <2>. QED
    BY <1>1, <1>2, <2>1 DEF vars, Inv, NatTypeOK, InOrder, Open
<1>. QED
  BY <1>3, <1>4, <1>5, <1>6

\* The steps that read nothing negative.
NatNext ==
    \/ \E l \in NaturalLines : BeginLine(l)
    \/ SeparateTooFastIngredients \/ ComputeEnd \/ Component
    \/ EndLine \/ Fail \/ Finish \/ Ended

LEMMA NextInv == Inv /\ [NatNext]_vars => Inv'
BY ComponentKeepsInv, SeparateKeepsInv, EndLineKeepsInv, OthersKeepInv DEF NatNext

\* What has been read without a negative number has been read in such steps.
LEMMA NothingNegativeYet ==
    ASSUME AnyInv, [Next]_vars, NothingNegative'
    PROVE  NothingNegative /\ [NatNext]_vars
<1>1. NothingNegative
  BY LinesStay DEF NothingNegative, NaturalLines
<1>2. ASSUME NEW l \in Lines, BeginLine(l) PROVE l \in NaturalLines
  <2>1. line' = l
    BY <1>2 DEF BeginLine
  <2>2. l \in NaturalLines \cup {NoLine}
    BY <2>1 DEF NothingNegative, LinesRead, NaturalLines
  <2>3. NoLine \in Lines => NoLine \in NaturalLines
    BY DEF NaturalLines, NoLine
  <2>. QED
    BY <2>2, <2>3
<1>. QED
  BY <1>1, <1>2 DEF Next, NatNext

-----------------------------------------------------------------------------
(* The lines of a recipe without negative numbers do not get in each       *)
(* other's way, provided that no interpolated line names a pump twice that *)
(* runs for a time of its own.                                             *)

\* A component of an interpolated line and the slowest one of the line.
LEMMA InterpolatedPump ==
    ASSUME FixedPumpsOnce, Inv, Component, line.timing = "interpolated"
    PROVE  LET c == line.components[next]
               p == c.pump
               slow == SlowestIn(line.components)
               amount == LastAmount(line.components)
           IN  /\ amount[slow] \in Nat /\ MaxFlow[slow] \in Nat \ {0}
               /\ end = time + Duration(amount[slow], MaxFlow[slow])
               /\ end' = end /\ time = start /\ time \in Nat /\ end \in Nat
               /\ p \in PumpsIn(line.components) /\ line.components \in Mixture
               /\ amount[p] \in Nat
               /\ c.amount # amount[p] =>
                     /\ p \in PumpsLeft'
                     /\ p \in CanWait(line.components) /\ MinFlow[p] # MaxFlow[p]
               /\ MinFlow[p] \in Nat \ {0} /\ MaxFlow[p] \in Nat \ {0}
               /\ MinFlow[p] <= MaxFlow[p]
               /\ Longer(amount[slow], MaxFlow[slow], amount[p], MaxFlow[p])
               /\ p \in CanWait(line.components) <=>
                     Longer(amount[p], MinFlow[p], amount[slow], MaxFlow[slow])
               /\ p \in separated <=> p \notin CanWait(line.components)
<1> DEFINE c == line.components[next]
           p == c.pump
           slow == SlowestIn(line.components)
           amount == LastAmount(line.components)
<1>1. /\ p \in Pumps /\ c.amount \in Nat /\ next \in 1 .. Len(line.components)
      /\ line.components \in Mixture /\ line.components # <<>>
      /\ DOMAIN line.components = 1 .. Len(line.components)
  <2>1. p \in Pumps /\ c.amount \in Nat /\ next \in 1 .. Len(line.components)
    BY ComponentEffect
  <2>2. line.components \in Mixture
    BY LineParts DEF Inv, NatTypeOK
  <2>. QED
    BY <2>1, <2>2, MixtureParts
<1>2. /\ amount[slow] \in Nat /\ MaxFlow[slow] \in Nat \ {0}
      /\ end = time + Duration(amount[slow], MaxFlow[slow])
      /\ end' = end
  BY <1>1, InterpolatedEnd, ComponentEffect DEF Component
<1>3. ASSUME c.amount # amount[p]
      PROVE  /\ p \in PumpsLeft'
             /\ p \in CanWait(line.components) /\ MinFlow[p] # MaxFlow[p]
  <2>1. line \in NaturalLines
    BY DEF Inv, AnyInv, LineInv, InOrder, Open, Component
  <2>2. PICK i \in next + 1 .. Len(line.components) : line.components[i].pump = p
    BY <1>1, <1>3, AmountIsLast
  <2>3. p \in PumpsLeft'
    BY <2>2 DEF PumpsLeft, Component
  <2>4. i \in DOMAIN line.components /\ next \in DOMAIN line.components /\ next # i
    BY <1>1, <2>2
  <2>. QED
    BY <2>1, <2>2, <2>3, <2>4 DEF FixedPumpsOnce
<1>4. /\ p \in PumpsIn(line.components)
      /\ amount[p] \in Nat /\ MinFlow[p] \in Nat \ {0} /\ MaxFlow[p] \in Nat \ {0}
      /\ MinFlow[p] <= MaxFlow[p]
      /\ Longer(amount[slow], MaxFlow[slow], amount[p], MaxFlow[p])
  <2>1. p \in PumpsIn(line.components)
    BY <1>1 DEF PumpsIn
  <2>2. amount[p] \in Nat
    BY <2>1, NaturalParts DEF Inv, NatTypeOK
  <2>. QED
    BY <1>1, <2>1, <2>2, SlowestFacts, FlowsArePositive
<1>5. time = start /\ time \in Nat /\ end \in Nat
  BY DEF Inv, NatTypeOK, AnyInv, LineInv, InOrder, Open, Component
<1>6. p \in CanWait(line.components) <=> Longer(amount[p], MinFlow[p], amount[slow], MaxFlow[slow])
  BY <1>4, CanWaitIsLonger
<1>7. p \in separated <=> p \notin CanWait(line.components)
  BY <1>1, <1>4, InterpolatedEnd DEF Component
<1>. QED
  BY <1>1, <1>2, <1>3, <1>4, <1>5, <1>6, <1>7

\* No pump runs longer than its line, and one that can wait until the end does.
LEMMA WrittenInTime ==
    ASSUME FixedPumpsOnce, Inv, Component,
           NEW to, NEW flow, Writes(line.components[next], to, flow)
    PROVE  LET p == line.components[next].pump
           IN  /\ to <= end'
               /\ line.timing = "interpolated" /\ p \in CanWait(line.components) =>
                     /\ to = end
                     /\ end > start /\ p \notin PumpsLeft' => flow # Off
<1> DEFINE c == line.components[next]
           p == c.pump
           slow == SlowestIn(line.components)
           amount == LastAmount(line.components)
<1>1. CASE line.timing # "interpolated"
  BY <1>1 DEF Writes
<1>2. CASE line.timing = "interpolated"
  <2>1. /\ amount[slow] \in Nat /\ MaxFlow[slow] \in Nat \ {0}
        /\ end = time + Duration(amount[slow], MaxFlow[slow])
        /\ end' = end /\ time = start /\ time \in Nat /\ end \in Nat
        /\ line.components \in Mixture
    BY <1>2, InterpolatedPump
  <2>2. c.amount # amount[p] =>
           /\ p \in PumpsLeft'
           /\ p \in CanWait(line.components) /\ MinFlow[p] # MaxFlow[p]
    BY <1>2, InterpolatedPump
  <2>3. /\ amount[p] \in Nat /\ MinFlow[p] \in Nat \ {0} /\ MaxFlow[p] \in Nat \ {0}
        /\ Longer(amount[slow], MaxFlow[slow], amount[p], MaxFlow[p])
    BY <1>2, InterpolatedPump
  <2>4. p \in CanWait(line.components) <=> Longer(amount[p], MinFlow[p], amount[slow], MaxFlow[slow])
    BY <1>2, InterpolatedPump
  <2>5. p \in separated <=> p \notin CanWait(line.components)
    BY <1>2, InterpolatedPump
  <2>6. CASE /\ p \notin separated /\ MinFlow[p] # MaxFlow[p]
             /\ flow = InterpolatedFlow(c) /\ to = end
    <3>1. ASSUME end > start, p \notin PumpsLeft' PROVE flow # Off
      <4>1. amount[slow] # 0
        <5> SUFFICES ASSUME amount[slow] = 0 PROVE FALSE
          OBVIOUS
        <5>1. Longer(0, 1, amount[slow], MaxFlow[slow])
          BY <2>1 DEF Longer
        <5>2. Duration(amount[slow], MaxFlow[slow]) <= Duration(0, 1)
          BY <2>1, <5>1, DurationMonotone
        <5>3. Duration(0, 1) = 0
          <6>1. Duration(0, 1) = (0 * Unit) \div 1 /\ 0 * Unit = 0
            BY DurationType, RecipeAssumption
          <6>. QED
            BY <6>1
        <5>4. Duration(amount[slow], MaxFlow[slow]) \in Nat
          BY <2>1, DurationType
        <5>. QED
          BY <2>1, <3>1, <5>2, <5>3, <5>4
      <4>2. flow = (amount[p] * MaxFlow[slow]) \div amount[slow]
        BY <2>2, <2>6, <3>1, <4>1 DEF InterpolatedFlow
      <4>3. flow \in MinFlow[p] .. MaxFlow[p]
        BY <2>1, <2>5, <2>6, <4>1, <4>2, InterpolatedFlowFits
      <4>. QED
        BY <2>3, <4>3 DEF Off
    <3>. QED
      BY <2>1, <2>6, <3>1
  <2>7. CASE /\ p \in separated \/ MinFlow[p] = MaxFlow[p]
             /\ flow = MinFlow[p] /\ to = time + Duration(c.amount, MinFlow[p])
    <3>a. to = time + Duration(amount[p], MinFlow[p])
      BY <2>2, <2>5, <2>7
    <3>1. Longer(amount[slow], MaxFlow[slow], amount[p], MinFlow[p])
      <4>1. CASE p \in separated
        <5>1. ~ Longer(amount[p], MinFlow[p], amount[slow], MaxFlow[slow])
          BY <2>4, <2>5, <4>1, Zenon
        <5>2. \/ Longer(amount[slow], MaxFlow[slow], amount[p], MinFlow[p])
              \/ Longer(amount[p], MinFlow[p], amount[slow], MaxFlow[slow])
          BY <2>1, <2>3, LongerTotal
        <5>. QED
          BY <5>1, <5>2, Zenon
      <4>2. CASE MinFlow[p] = MaxFlow[p]
        BY <2>3, <4>2, Zenon
      <4>. QED
        BY <2>7, <4>1, <4>2, Zenon
    <3>2. Duration(amount[p], MinFlow[p]) <= Duration(amount[slow], MaxFlow[slow])
      BY <2>1, <2>3, <3>1, DurationMonotone
    <3>3. Duration(amount[p], MinFlow[p]) \in Nat /\ Duration(amount[slow], MaxFlow[slow]) \in Nat
      BY <2>1, <2>3, DurationType
    <3>4. ASSUME p \in CanWait(line.components)
          PROVE  Duration(amount[slow], MaxFlow[slow]) <= Duration(amount[p], MinFlow[p])
      BY <2>1, <2>3, <2>4, <3>4, DurationMonotone
    <3>5. PICK d, e \in Nat : /\ d = Duration(amount[p], MinFlow[p])
                              /\ e = Duration(amount[slow], MaxFlow[slow])
      BY <3>3, Zenon
    <3>6. /\ to = time + d /\ end = time + e /\ end' = end /\ d <= e
          /\ p \in CanWait(line.components) => e <= d
      BY <2>1, <3>a, <3>2, <3>4, <3>5, Zenon
    <3>7. to <= end' /\ (p \in CanWait(line.components) => to = end)
      BY <2>1, <3>6
    <3>8. flow # Off
      BY <2>3, <2>7 DEF Off
    <3>. QED
      BY <3>7, <3>8, Zenon
  <2>. QED
    BY <1>2, <2>6, <2>7 DEF Writes
<1>. QED
  BY <1>1, <1>2

\* The last command for p up to time e.
LastUpto(tp, e, p, t) ==
    /\ Commands(tp, t, p) /\ t <= e
    /\ \A u : Commands(tp, u, p) /\ u <= e => u <= t

\* Every pump is off at time e.
OffUpto(tp, e) == \A p, t : LastUpto(tp, e, p, t) => tp[t][p] = Off

\* Pump p is switched on at one time and not commanded again before another.
RunsThrough(tp, p, from, to) ==
    /\ Commands(tp, from, p) /\ tp[from][p] # Off
    /\ \A t : Commands(tp, t, p) => ~ (from < t /\ t < to)

LEMMA SettledIsOff ==
    ASSUME NEW tp, DOMAIN tp \in SUBSET Nat, Settles(tp),
           NEW e \in Nat, \A t \in DOMAIN tp : t <= e
    PROVE  OffUpto(tp, e)
<1> SUFFICES ASSUME NEW p, NEW t, LastUpto(tp, e, p, t) PROVE tp[t][p] = Off
  BY DEF OffUpto
<1>1. \A u, q : Commands(tp, u, q) => u \in Nat /\ u <= e
  BY DEF Commands
<1>2. PICK last : LastAt(tp, p, last) /\ tp[last][p] = Off
  BY SettlesMeans DEF LastUpto, LeavesOff
<1>3. t = last
  BY <1>1, <1>2 DEF LastUpto, LastAt
<1>. QED
  BY <1>2, <1>3

\* What is written later changes nothing before.
LEMMA PastStays ==
    ASSUME NEW tp, NEW r, NEW from \in Nat, NEW to \in Nat, from <= to,
           NEW p, NEW flow, IsRun(r, tp, from, to, p, flow),
           NEW e \in Nat, e < from
    PROVE  /\ OffUpto(tp, e) => OffUpto(r, e)
           /\ \A q : \A s \in Nat : s < e /\ RunsThrough(tp, q, s, e) => RunsThrough(r, q, s, e)
<1>1. \A u, q : u <= e => /\ Commands(r, u, q) <=> Commands(tp, u, q)
                          /\ Commands(r, u, q) => r[u][q] = tp[u][q]
  <2>1. \A u : u <= e => u \notin {from, to}
    OBVIOUS
  <2>. QED
    BY <2>1 DEF IsRun
<1>2. OffUpto(tp, e) => OffUpto(r, e)
  BY <1>1 DEF OffUpto, LastUpto
<1>3. ASSUME NEW q, NEW s \in Nat, s < e, RunsThrough(tp, q, s, e)
      PROVE  RunsThrough(r, q, s, e)
  <2>1. Commands(r, s, q) /\ r[s][q] # Off
    BY <1>1, <1>3 DEF RunsThrough
  <2>2. ASSUME NEW t, Commands(r, t, q), s < t, t < e PROVE FALSE
    <3>1. Commands(tp, t, q) \/ t \in {from, to}
      BY <2>2 DEF IsRun
    <3>2. t \notin {from, to}
      BY <2>2
    <3>. QED
      BY <1>3, <2>2, <3>1, <3>2 DEF RunsThrough
  <2>. QED
    BY <2>1, <2>2 DEF RunsThrough
<1>. QED
  BY <1>2, <1>3

\* The end of what is known to be over.
Base == IF Open THEN start ELSE time

\* No entry lies after the end of its line.
EntriesInv ==
    \A t \in DOMAIN timeprogram :
        /\ phase \in {"lines", "done"} => t < time
        /\ phase = "separate" => t <= start
        /\ phase = "components" => t <= end

Following(i) == IF i < Len(compiled) THEN compiled[i + 1].start ELSE Base

\* Each line has its own stretch of time, with nothing in the pause behind it and every
\* pump off there.
ApartInv ==
    phase # "failed" =>
        \A i \in DOMAIN compiled :
            /\ compiled[i].start <= compiled[i].end
            /\ compiled[i].end + compiled[i].line.sleep < Following(i)
            /\ Following(i) <= Base
            /\ \A t \in DOMAIN timeprogram : t <= compiled[i].end \/ t >= Following(i)
            /\ OffUpto(timeprogram, compiled[i].end)

\* The pumps of the components so far.
PumpsDone == {line.components[i].pump : i \in 1 .. next - 1}

\* In the interpolated lines so far, and in the one being compiled, the pumps that can
\* wait run until the end; one that is named twice does so after its last component.
TogetherInv ==
    /\ \A i \in DOMAIN compiled :
          compiled[i].line.timing = "interpolated" /\ compiled[i].end > compiled[i].start =>
              \A p \in CanWait(compiled[i].line.components) :
                  RunsThrough(timeprogram, p, compiled[i].start, compiled[i].end)
    /\ Open /\ line.timing = "interpolated" =>
          /\ \A t, p : Commands(timeprogram, t, p) /\ t >= start => p \in PumpsDone
          /\ phase = "components" =>
                \A p \in CanWait(line.components) :
                    /\ \A t : Commands(timeprogram, t, p) /\ t >= start => t \in {start, end}
                    /\ end > start /\ p \in PumpsDone \ PumpsLeft =>
                          RunsThrough(timeprogram, p, start, end)

OrderInv == Inv /\ EntriesInv /\ ApartInv /\ TogetherInv

LEMMA CompiledType ==
    ASSUME NatTypeOK
    PROVE  /\ Len(compiled) \in Nat /\ DOMAIN compiled = 1 .. Len(compiled)
           /\ \A i \in DOMAIN compiled :
                 /\ compiled[i].line \in NaturalLines /\ compiled[i].line.sleep \in Nat
                 /\ compiled[i].start \in Nat /\ compiled[i].end \in Nat
<1> DEFINE Entry == [line : NaturalLines, start : Nat, end : Nat]
<1>1. compiled \in Seq(Entry)
  BY DEF NatTypeOK
<1> HIDE DEF Entry
<1>2. Len(compiled) \in Nat /\ DOMAIN compiled = 1 .. Len(compiled)
      /\ \A i \in DOMAIN compiled : compiled[i] \in Entry
  BY <1>1
<1>. QED
  BY <1>2, NaturalParts DEF Entry

LEMMA InitOrderInv == Init => OrderInv
<1> SUFFICES ASSUME Init PROVE OrderInv
  OBVIOUS
<1>1. DOMAIN timeprogram = {} /\ DOMAIN compiled = {} /\ phase = "lines" /\ line = NoLine
  BY DEF Init
<1>2. EntriesInv /\ ApartInv /\ TogetherInv
  BY <1>1 DEF EntriesInv, ApartInv, TogetherInv, Open
<1>. QED
  BY <1>2, InitInv DEF OrderInv

\* A component.
LEMMA ComponentKeepsApart ==
    ASSUME FixedPumpsOnce, OrderInv, Component
    PROVE  EntriesInv' /\ ApartInv'
<1> DEFINE c == line.components[next]
<1>1. PICK to, flow : Writes(c, to, flow)
  BY ComponentEffect DEF OrderInv
<1>2. to <= end' /\ end <= end' /\ end' \in Nat /\ time' \in Nat
  BY <1>1, WrittenInTime, ComponentEffect DEF OrderInv
<1>3. /\ to \in Nat /\ time <= to
      /\ IsRun(timeprogram', timeprogram, time, to, c.pump, flow)
  BY <1>1, RunEffect DEF Writes
<1>4. /\ phase = "components" /\ UNCHANGED <<phase, line, start, compiled>>
      /\ time \in Nat /\ start \in Nat /\ end \in Nat /\ start <= time
      /\ DOMAIN timeprogram \in SUBSET Nat
  BY DEF Component, OrderInv, Inv, NatTypeOK, AnyInv, LineInv, InOrder, Open, IsTimeProgram
<1>5. /\ Open /\ Open' /\ Base = start /\ Base' = start
      /\ \A i \in DOMAIN compiled : Following(i)' = Following(i)
  BY <1>4 DEF Open, Base, Following
<1>6. DOMAIN timeprogram' = DOMAIN timeprogram \cup {time, to}
  BY <1>3 DEF IsRun
<1> HIDE DEF c
<1>7. EntriesInv'
  BY <1>2, <1>3, <1>4, <1>5, <1>6 DEF OrderInv, EntriesInv
<1>8. ASSUME NEW i \in DOMAIN compiled
      PROVE  /\ compiled[i].start <= compiled[i].end
             /\ compiled[i].end + compiled[i].line.sleep < Following(i)
             /\ Following(i) <= Base
             /\ \A t \in DOMAIN timeprogram' : t <= compiled[i].end \/ t >= Following(i)
             /\ OffUpto(timeprogram', compiled[i].end)
  <2>1. /\ compiled[i].start <= compiled[i].end
        /\ compiled[i].end + compiled[i].line.sleep < Following(i)
        /\ Following(i) <= Base
        /\ \A t \in DOMAIN timeprogram : t <= compiled[i].end \/ t >= Following(i)
        /\ OffUpto(timeprogram, compiled[i].end)
    BY <1>4 DEF OrderInv, ApartInv
  <2>2. /\ compiled[i].end \in Nat /\ compiled[i].line.sleep \in Nat
        /\ Following(i) \in Nat
    BY <1>4, <1>5, <1>8, CompiledType DEF OrderInv, Inv, Following
  <2>3. compiled[i].end < time /\ Following(i) <= time /\ Following(i) <= to
    BY <1>3, <1>4, <1>5, <2>1, <2>2
  <2>4. OffUpto(timeprogram', compiled[i].end)
    BY <1>3, <1>4, <2>1, <2>2, <2>3, PastStays
  <2>. QED
    BY <1>6, <2>1, <2>3, <2>4
<1>9. ApartInv'
  BY <1>4, <1>5, <1>8 DEF ApartInv
<1>. QED
  BY <1>7, <1>9

LEMMA ComponentKeepsTogether ==
    ASSUME FixedPumpsOnce, OrderInv, Component
    PROVE  TogetherInv'
<1> DEFINE c == line.components[next]
<1>1. PICK to, flow : Writes(c, to, flow)
  BY ComponentEffect DEF OrderInv
<1>2. /\ to \in Nat /\ time <= to
      /\ IsRun(timeprogram', timeprogram, time, to, c.pump, flow)
  BY <1>1, RunEffect DEF Writes
<1>3. /\ phase = "components" /\ UNCHANGED <<phase, line, start, compiled>>
      /\ next' = next + 1 /\ next \in 1 .. Len(line.components)
      /\ time \in Nat /\ start \in Nat /\ end \in Nat /\ start <= time
      /\ DOMAIN timeprogram \in SUBSET Nat
      /\ Open /\ Open'
  BY ComponentEffect
  DEF Component, OrderInv, Inv, NatTypeOK, AnyInv, LineInv, InOrder, Open, IsTimeProgram
<1>4. ASSUME NEW i \in DOMAIN compiled, NEW p,
             RunsThrough(timeprogram, p, compiled[i].start, compiled[i].end),
             compiled[i].end > compiled[i].start
      PROVE  RunsThrough(timeprogram', p, compiled[i].start, compiled[i].end)
  <2>1. /\ compiled[i].end + compiled[i].line.sleep < Following(i)
        /\ Following(i) <= start
    BY <1>3 DEF OrderInv, ApartInv, Base
  <2>2. /\ compiled[i].end \in Nat /\ compiled[i].line.sleep \in Nat
        /\ compiled[i].start \in Nat /\ Following(i) \in Nat
    BY <1>3, CompiledType DEF OrderInv, Inv, Following, Base
  <2>3. compiled[i].end < time
    BY <1>3, <2>1, <2>2
  <2>. QED
    BY <1>2, <1>3, <1>4, <2>2, <2>3, PastStays
<1>5. CASE line.timing = "interpolated"
  <2>1. time = start /\ end' = end /\ line \in NaturalLines
    BY <1>3, <1>5, ComponentEffect DEF OrderInv, Inv, AnyInv, LineInv, InOrder, Open
  <2>2. PumpsDone' = PumpsDone \cup {c.pump} /\ PumpsLeft \subseteq PumpsLeft' \cup {c.pump}
    <3>1. \A i : /\ i \in 1 .. next' - 1 <=> i \in 1 .. next - 1 \/ i = next
                /\ i \in next .. Len(line.components) =>
                      i = next \/ i \in next' .. Len(line.components)
      <4>1. Len(line.components) \in Nat
        BY LineParts DEF OrderInv, Inv, NatTypeOK
      <4>. QED
        BY <1>3, <4>1
    <3>. QED
      BY <1>3, <3>1 DEF PumpsDone, PumpsLeft
  <2>3. ASSUME NEW t, NEW p, Commands(timeprogram', t, p), t >= start
        PROVE  p \in PumpsDone'
    <3>1. Commands(timeprogram, t, p) \/ p = c.pump
      BY <1>2, <2>3 DEF IsRun
    <3>2. Commands(timeprogram, t, p) => p \in PumpsDone
      BY <1>3, <1>5, <2>3 DEF OrderInv, TogetherInv
    <3>. QED
      BY <2>2, <3>1, <3>2
  <2>4. ASSUME NEW p \in CanWait(line.components), NEW t,
               Commands(timeprogram', t, p), t >= start
        PROVE  t \in {start, end}
    <3>1. Commands(timeprogram, t, p) => t \in {start, end}
      BY <1>3, <1>5, <2>4 DEF OrderInv, TogetherInv
    <3>2. p = c.pump => to = end
      BY <1>1, <1>5, <2>4, WrittenInTime DEF OrderInv
    <3>. QED
      BY <1>2, <2>1, <2>4, <3>1, <3>2 DEF IsRun
  <2>5. ASSUME end > start, NEW p \in CanWait(line.components),
               p \in PumpsDone', p \notin PumpsLeft'
        PROVE  RunsThrough(timeprogram', p, start, end)
    <3>1. Commands(timeprogram', start, p) /\ timeprogram'[start][p] # Off
      <4>1. CASE p = c.pump
        <5>1. to = end /\ flow # Off
          BY <1>1, <1>5, <2>5, <4>1, WrittenInTime DEF OrderInv
        <5>. QED
          BY <1>2, <1>3, <2>1, <2>5, <4>1, <5>1 DEF IsRun
      <4>2. CASE p # c.pump
        <5>1. RunsThrough(timeprogram, p, start, end)
          BY <1>3, <1>5, <2>2, <2>5, <4>2 DEF OrderInv, TogetherInv
        <5>2. \A u : /\ Commands(timeprogram', u, p) <=> Commands(timeprogram, u, p)
                     /\ Commands(timeprogram', u, p) => timeprogram'[u][p] = timeprogram[u][p]
          BY <1>2, <4>2 DEF IsRun
        <5>. QED
          BY <5>1, <5>2 DEF RunsThrough
      <4>. QED
        BY <4>1, <4>2
    <3>2. ASSUME NEW t, Commands(timeprogram', t, p), start < t, t < end PROVE FALSE
      <4>1. t \in Nat
        BY <1>2, <1>3, <3>2 DEF IsRun, Commands
      <4>. QED
        BY <1>3, <2>4, <3>2, <4>1
    <3>. QED
      BY <3>1, <3>2 DEF RunsThrough
  <2>. QED
    BY <1>3, <1>4, <2>1, <2>3, <2>4, <2>5 DEF OrderInv, TogetherInv
<1>6. CASE line.timing # "interpolated"
  BY <1>3, <1>4, <1>6 DEF OrderInv, TogetherInv
<1>. QED
  BY <1>5, <1>6

\* The steps that begin a line or prepare its components.
LEMMA PreparationKeepsOrder ==
    ASSUME OrderInv,
           \/ \E l \in NaturalLines : BeginLine(l)
           \/ SeparateTooFastIngredients \/ ComputeEnd
    PROVE  EntriesInv' /\ ApartInv' /\ TogetherInv'
<1>1. CASE \E l \in NaturalLines : BeginLine(l)
  <2>1. PICK l \in NaturalLines : BeginLine(l)
    BY <1>1
  <2>2. /\ phase = "lines" /\ phase' \in {"separate", "components"}
        /\ line' = l /\ start' = time /\ end' = time
        /\ (l.timing = "interpolated" => phase' = "separate")
        /\ UNCHANGED <<timeprogram, time, compiled>>
    BY <2>1 DEF BeginLine
  <2>3. time \in Nat /\ DOMAIN timeprogram \in SUBSET Nat
    BY <2>2 DEF OrderInv, Inv, NatTypeOK, IsTimeProgram
  <2>4. \A t \in DOMAIN timeprogram : t < time
    BY <2>2 DEF OrderInv, EntriesInv
  <2>5. ~ Open /\ Open' /\ Base = time /\ Base' = time
    BY <2>2 DEF Open, Base
  <2>6. EntriesInv'
    BY <2>2, <2>3, <2>4, <2>5 DEF EntriesInv
  <2>7. \A i \in DOMAIN compiled : Following(i)' = Following(i)
    BY <2>2, <2>5 DEF Following
  <2>8. ApartInv'
    BY <2>2, <2>5, <2>7 DEF OrderInv, ApartInv
  <2>9. TogetherInv'
    <3>1. \A t, p : ~ (Commands(timeprogram, t, p) /\ t >= time)
      BY <2>3, <2>4 DEF Commands
    <3>. QED
      BY <2>2, <3>1 DEF OrderInv, TogetherInv
  <2>. QED
    BY <2>6, <2>8, <2>9
<1>2. CASE SeparateTooFastIngredients
  <2>1. UNCHANGED <<timeprogram, time, phase, line, start, end, next, compiled>>
    BY <1>2 DEF SeparateTooFastIngredients
  <2>2. (Open <=> Open') /\ Base' = Base /\ PumpsDone' = PumpsDone /\ PumpsLeft' = PumpsLeft
        /\ \A i \in DOMAIN compiled : Following(i)' = Following(i)
    BY <2>1 DEF Open, Base, PumpsDone, PumpsLeft, Following
  <2>. QED
    BY <2>1, <2>2 DEF OrderInv, EntriesInv, ApartInv, TogetherInv
<1>3. CASE ComputeEnd
  <2>1. /\ UNCHANGED <<timeprogram, time, line, start, next, compiled>>
        /\ phase = "separate" /\ phase' = "components" /\ next = 1
        /\ time = start /\ time \in Nat /\ DOMAIN timeprogram \in SUBSET Nat
        /\ line.timing = "interpolated"
    BY <1>3
    DEF ComputeEnd, OrderInv, Inv, AnyInv, LineInv, InOrder, NatTypeOK, Open, IsTimeProgram
  <2>2. end' \in Nat /\ time <= end'
    BY <1>3, <2>1, SeparateKeepsInv DEF OrderInv, Inv, NatTypeOK, AnyInv, LineInv, InOrder, Open
  <2>3. Open /\ Open' /\ Base' = Base /\ PumpsDone = {} /\ PumpsDone' = {}
        /\ \A i \in DOMAIN compiled : Following(i)' = Following(i)
    BY <2>1 DEF Open, Base, PumpsDone, Following
  <2>. QED
    BY <2>1, <2>2, <2>3 DEF OrderInv, EntriesInv, ApartInv, TogetherInv
<1>. QED
  BY <1>1, <1>2, <1>3

\* The end of a line: its pumps are off, and it joins the lines that are apart.
LEMMA EndLineKeepsOrder ==
    ASSUME OrderInv, EndLine
    PROVE  EntriesInv' /\ ApartInv' /\ TogetherInv'
<1> DEFINE entry == [line |-> line, start |-> start, end |-> end]
           n == Len(compiled)
<1>1. /\ phase = "components" /\ next > Len(line.components)
      /\ time' = end + line.sleep + 1
      /\ compiled' = Append(compiled, entry)
      /\ phase' = "lines" /\ line' = NoLine
      /\ UNCHANGED <<timeprogram, start, end>>
  BY DEF EndLine
<1>2. /\ line.sleep \in Nat /\ end \in Nat /\ start \in Nat /\ time \in Nat
      /\ start <= time /\ time <= end
      /\ line.components \in Mixture /\ Len(line.components) \in Nat
      /\ next \in 1 .. Len(line.components) + 1
      /\ DOMAIN timeprogram \in SUBSET Nat /\ Settles(timeprogram)
  BY <1>1, LineParts, InvSettles
  DEF OrderInv, Inv, NatTypeOK, InOrder, Open, IsTimeProgram
<1>3. \A t \in DOMAIN timeprogram : t <= end
  BY <1>1 DEF OrderInv, EntriesInv
<1>4. /\ n \in Nat /\ DOMAIN compiled = 1 .. n
      /\ DOMAIN compiled' = 1 .. n + 1 /\ Len(compiled') = n + 1
      /\ \A i \in 1 .. n : compiled'[i] = compiled[i]
      /\ compiled'[n + 1] = entry
  BY <1>1, CompiledType DEF OrderInv, Inv, NatTypeOK
<1>5. entry.line = line /\ entry.start = start /\ entry.end = end
  OBVIOUS
<1> HIDE DEF entry
<1>6. ~ Open' /\ Open /\ Base = start /\ Base' = time' /\ time' \in Nat /\ start <= time'
  BY <1>1, <1>2 DEF Open, Base
<1>7. EntriesInv'
  BY <1>1, <1>2, <1>3, <1>6 DEF EntriesInv, Open
<1>8. \A i \in 1 .. n : Following(i)' = Following(i)
  <2>1. \A i \in 1 .. n : i < n => (compiled'[i + 1]).start = compiled[i + 1].start
    BY <1>4
  <2>. QED
    BY <1>4, <1>5, <1>6, <2>1 DEF Following
<1>9. ASSUME NEW i \in 1 .. n + 1
      PROVE  /\ (compiled'[i]).start <= (compiled'[i]).end
             /\ (compiled'[i]).end + (compiled'[i]).line.sleep < Following(i)'
             /\ Following(i)' <= Base'
             /\ \A t \in DOMAIN timeprogram' : t <= (compiled'[i]).end \/ t >= Following(i)'
             /\ OffUpto(timeprogram', (compiled'[i]).end)
  <2>1. CASE i = n + 1
    <3>1. OffUpto(timeprogram, end)
      BY <1>2, <1>3, SettledIsOff
    <3>2. (compiled'[i]).start = start /\ (compiled'[i]).end = end /\ (compiled'[i]).line = line
      BY <1>4, <1>5, <2>1
    <3>3. Following(i)' = time' /\ Base' = time' /\ timeprogram' = timeprogram
      BY <1>1, <1>4, <1>6, <2>1 DEF Following
    <3>4. start <= end /\ end + line.sleep < time' /\ time' <= time'
      BY <1>1, <1>2
    <3>. QED
      BY <1>3, <3>1, <3>2, <3>3, <3>4
  <2>2. CASE i \in 1 .. n
    <3>1. /\ compiled[i].start <= compiled[i].end
          /\ compiled[i].end + compiled[i].line.sleep < Following(i)
          /\ Following(i) <= Base
          /\ \A t \in DOMAIN timeprogram : t <= compiled[i].end \/ t >= Following(i)
          /\ OffUpto(timeprogram, compiled[i].end)
      BY <1>1, <1>4, <2>2 DEF OrderInv, ApartInv
    <3>2. Following(i) \in Nat
      <4>1. ASSUME i < n PROVE compiled[i + 1].start \in Nat
        <5>1. i + 1 \in DOMAIN compiled
          BY <1>4, <2>2, <4>1
        <5>. QED
          BY <5>1, CompiledType DEF OrderInv, Inv
      <4>. QED
        BY <1>2, <1>6, <4>1 DEF Following
    <3>3. Following(i) <= Base'
      BY <1>2, <1>6, <3>1, <3>2
    <3>. QED
      BY <1>1, <1>4, <1>8, <2>2, <3>1, <3>3
  <2>. QED
    BY <1>4, <2>1, <2>2
<1>10. ApartInv'
  BY <1>4, <1>9 DEF ApartInv
<1>11. TogetherInv'
  <2>1. ASSUME NEW i \in 1 .. n + 1,
               (compiled'[i]).line.timing = "interpolated",
               (compiled'[i]).end > (compiled'[i]).start,
               NEW p \in CanWait((compiled'[i]).line.components)
        PROVE  RunsThrough(timeprogram', p, (compiled'[i]).start, (compiled'[i]).end)
    <3>1. CASE i = n + 1
      <4>1. CanWait(line.components) \in SUBSET PumpsIn(line.components)
        BY DEF CanWait
      <4>2. PumpsDone = PumpsIn(line.components)
        <5>1. DOMAIN line.components = 1 .. Len(line.components)
          BY <1>2, MixtureParts
        <5>2. next - 1 = Len(line.components)
          <6>1. /\ Len(line.components) \in Nat /\ next > Len(line.components)
                /\ next \in 1 .. Len(line.components) + 1
            BY <1>1, <1>2
          <6>. QED
            BY <6>1
        <5>. QED
          BY <5>1, <5>2 DEF PumpsDone, PumpsIn
      <4>3. PumpsLeft = {}
        BY <1>1, <1>2 DEF PumpsLeft
      <4>4. /\ line.timing = "interpolated" /\ end > start
            /\ p \in CanWait(line.components) /\ p \in PumpsDone \ PumpsLeft
        BY <1>4, <1>5, <2>1, <3>1, <4>1, <4>2, <4>3
      <4>5. RunsThrough(timeprogram, p, start, end)
        BY <1>1, <1>6, <4>4 DEF OrderInv, TogetherInv
      <4>. QED
        BY <1>1, <1>4, <1>5, <3>1, <4>5
    <3>2. CASE i \in 1 .. n
      BY <1>1, <1>4, <2>1, <3>2 DEF OrderInv, TogetherInv
    <3>. QED
      BY <1>4, <3>1, <3>2
  <2>. QED
    BY <1>4, <1>6, <2>1 DEF TogetherInv
<1>. QED
  BY <1>7, <1>10, <1>11

\* The steps that end a recipe, and those that do nothing.
LEMMA EndingsKeepOrder ==
    ASSUME OrderInv, Fail \/ Finish \/ Ended \/ UNCHANGED vars
    PROVE  EntriesInv' /\ ApartInv' /\ TogetherInv'
<1>1. CASE Fail
  <2>1. phase' = "failed" /\ UNCHANGED <<timeprogram, line, start, end, next, compiled>>
    BY <1>1 DEF Fail
  <2>. QED
    BY <2>1 DEF OrderInv, EntriesInv, ApartInv, TogetherInv, Open
<1>2. CASE Finish
  <2>1. /\ phase = "lines" /\ phase' = "done"
        /\ UNCHANGED <<timeprogram, time, line, start, end, next, compiled>>
    BY <1>2 DEF Finish
  <2>2. ~ Open /\ ~ Open' /\ Base' = Base
        /\ \A i \in DOMAIN compiled : Following(i)' = Following(i)
    BY <2>1 DEF Open, Base, Following
  <2>. QED
    BY <2>1, <2>2 DEF OrderInv, EntriesInv, ApartInv, TogetherInv
<1>3. CASE Ended \/ UNCHANGED vars
  <2>1. UNCHANGED <<timeprogram, time, phase, line, start, end, next, compiled>>
    BY <1>3 DEF Ended, vars
  <2>2. (Open <=> Open') /\ Base' = Base /\ PumpsDone' = PumpsDone /\ PumpsLeft' = PumpsLeft
        /\ \A i \in DOMAIN compiled : Following(i)' = Following(i)
    BY <2>1 DEF Open, Base, PumpsDone, PumpsLeft, Following
  <2>. QED
    BY <2>1, <2>2 DEF OrderInv, EntriesInv, ApartInv, TogetherInv
<1>. QED
  BY <1>1, <1>2, <1>3

LEMMA NextOrderInv == FixedPumpsOnce /\ OrderInv /\ [NatNext]_vars => OrderInv'
<1> SUFFICES ASSUME FixedPumpsOnce, OrderInv, [NatNext]_vars PROVE OrderInv'
  OBVIOUS
<1>1. Inv'
  BY NextInv DEF OrderInv
<1>2. EntriesInv' /\ ApartInv' /\ TogetherInv'
  BY ComponentKeepsApart, ComponentKeepsTogether, PreparationKeepsOrder,
     EndLineKeepsOrder, EndingsKeepOrder DEF NatNext
<1>. QED
  BY <1>1, <1>2 DEF OrderInv

LEMMA OrderInvariance ==
    ASSUME FixedPumpsOnce PROVE Spec => [](NothingNegative => OrderInv)
<1>1. AnyInv /\ (NothingNegative => OrderInv) /\ [Next]_vars => (NothingNegative => OrderInv)'
  BY NothingNegativeYet, NextOrderInv
<1>. QED
  BY <1>1, InitOrderInv, AnyInvariance, PTL DEF Spec

\* The flow of a pump is that of its last command.
LEMMA FlowOfLast ==
    ASSUME NEW tp, DOMAIN tp \in SUBSET Nat, NEW p, NEW e \in Nat
    PROVE  /\ (\A t : ~ LastUpto(tp, e, p, t)) => FlowIn(tp, p, e) = Off
           /\ \A t : LastUpto(tp, e, p, t) => FlowIn(tp, p, e) = tp[t][p]
<1> DEFINE commands == {u \in DOMAIN tp : u <= e /\ p \in DOMAIN tp[u]}
<1>1. \A u : u \in commands <=> Commands(tp, u, p) /\ u <= e
  BY DEF Commands
<1>2. FlowIn(tp, p, e) = IF commands = {} THEN Off ELSE tp[Max(commands)][p]
  BY DEF FlowIn
<1>3. commands \in SUBSET Nat /\ \A u \in commands : u <= e
  OBVIOUS
<1> HIDE DEF commands
<1>4. CASE commands = {}
  BY <1>1, <1>2, <1>4 DEF LastUpto
<1>5. CASE commands # {}
  <2>1. /\ Max(commands) \in commands
        /\ \A u \in commands : u <= Max(commands)
    BY <1>3, <1>5, MaxIsGreatest
  <2>2. LastUpto(tp, e, p, Max(commands))
    BY <1>1, <2>1 DEF LastUpto
  <2>3. ASSUME NEW t, LastUpto(tp, e, p, t) PROVE t = Max(commands)
    <3>1. t \in commands /\ t <= Max(commands) /\ Max(commands) <= t
      BY <1>1, <2>1, <2>3 DEF LastUpto
    <3>2. t \in Nat /\ Max(commands) \in Nat
      BY <1>3, <2>1, <3>1
    <3>. QED
      BY <3>1, <3>2
  <2>. QED
    BY <1>2, <1>5, <2>2, <2>3
<1>. QED
  BY <1>4, <1>5

LEMMA ApartMeansLinesAreApart == (NothingNegative => OrderInv) => LinesAreApart
<1> SUFFICES ASSUME OrderInv, phase \in {"lines", "done"},
                    NEW i \in DOMAIN compiled
             PROVE  LET following == IF i < Len(compiled) THEN compiled[i + 1].start ELSE time
                    IN  /\ following - compiled[i].end > compiled[i].line.sleep
                        /\ \A p \in Pumps : \A t \in compiled[i].end .. (following - 1) :
                              FlowAt(p, t) = Off
  BY DEF OrderInv, EntriesInv, LinesAreApart
<1>1. phase # "failed" /\ ~ Open /\ Base = time /\ time \in Nat
      /\ DOMAIN timeprogram \in SUBSET Nat
  BY DEF OrderInv, Inv, NatTypeOK, IsTimeProgram, Open, Base
<1>2. Following(i) = IF i < Len(compiled) THEN compiled[i + 1].start ELSE time
  BY <1>1 DEF Following
<1>3. Following(i) \in Nat
  <2>1. ASSUME i < Len(compiled) PROVE compiled[i + 1].start \in Nat
    <3>1. i + 1 \in DOMAIN compiled
      BY <2>1, CompiledType DEF OrderInv, Inv
    <3>. QED
      BY <3>1, CompiledType DEF OrderInv, Inv
  <2>. QED
    BY <1>1, <1>2, <2>1
<1>4. compiled[i].end \in Nat /\ compiled[i].line.sleep \in Nat
  BY CompiledType DEF OrderInv, Inv
<1>5. /\ compiled[i].end + compiled[i].line.sleep < Following(i)
      /\ \A t \in DOMAIN timeprogram : t <= compiled[i].end \/ t >= Following(i)
      /\ OffUpto(timeprogram, compiled[i].end)
  BY <1>1 DEF OrderInv, ApartInv
<1>6. ASSUME NEW p, NEW t \in compiled[i].end .. (Following(i) - 1)
      PROVE  FlowAt(p, t) = Off
  <2>1. t \in Nat /\ compiled[i].end <= t /\ t < Following(i)
    BY <1>3, <1>4
  <2>2. ASSUME NEW u, LastUpto(timeprogram, t, p, u)
        PROVE  timeprogram[u][p] = Off
    <3>1. u \in DOMAIN timeprogram /\ u \in Nat /\ u <= t
      BY <1>1, <2>2 DEF LastUpto, Commands
    <3>2. u <= compiled[i].end
      BY <1>3, <1>4, <1>5, <2>1, <3>1
    <3>3. ASSUME NEW v, Commands(timeprogram, v, p), v <= compiled[i].end PROVE v <= u
      <4>1. v \in Nat
        BY <1>1, <3>3 DEF Commands
      <4>2. v <= t
        BY <1>4, <2>1, <3>3, <4>1
      <4>. QED
        BY <2>2, <3>3, <4>2 DEF LastUpto
    <3>4. LastUpto(timeprogram, compiled[i].end, p, u)
      BY <2>2, <3>2, <3>3 DEF LastUpto
    <3>. QED
      BY <1>5, <3>4 DEF OffUpto
  <2>. QED
    BY <1>1, <2>1, <2>2, FlowOfLast DEF FlowAt
<1>7. Following(i) - compiled[i].end > compiled[i].line.sleep
  BY <1>3, <1>4, <1>5
<1>. QED
  BY <1>2, <1>6, <1>7

\* Whatever the lines of a recipe are, as long as nothing in it is negative and no
\* interpolated line names a pump twice that runs for a time of its own: between two
\* lines, and for the whole sleep, every pump is off, and the result of CreateTimeProgram
\* lies after every entry.
THEOREM RecipesKeepLinesApart == FixedPumpsOnce /\ Spec => []LinesAreApart
<1> SUFFICES ASSUME FixedPumpsOnce PROVE Spec => []LinesAreApart
  OBVIOUS
<1>. QED
  BY OrderInvariance, ApartMeansLinesAreApart, PTL

LEMMA TogetherMeansEndTogether == (NothingNegative => OrderInv) => InterpolatedEndTogether
<1> SUFFICES ASSUME OrderInv, NEW i \in DOMAIN compiled,
                    compiled[i].line.timing = "interpolated",
                    compiled[i].end > compiled[i].start,
                    NEW p \in CanWait(compiled[i].line.components)
             PROVE  FlowAt(p, compiled[i].end - 1) # Off
  BY DEF InterpolatedEndTogether
<1>1. compiled[i].start \in Nat /\ compiled[i].end \in Nat
      /\ DOMAIN timeprogram \in SUBSET Nat
  BY CompiledType DEF OrderInv, Inv, NatTypeOK, IsTimeProgram
<1>2. RunsThrough(timeprogram, p, compiled[i].start, compiled[i].end)
  BY DEF OrderInv, TogetherInv
<1>3. ASSUME NEW u, Commands(timeprogram, u, p), u <= compiled[i].end - 1
      PROVE  u <= compiled[i].start
  <2>1. u \in Nat
    BY <1>1, <1>3 DEF Commands
  <2>2. ~ (compiled[i].start < u /\ u < compiled[i].end)
    BY <1>2, <1>3 DEF RunsThrough
  <2>. QED
    BY <1>1, <1>3, <2>1, <2>2
<1>4. LastUpto(timeprogram, compiled[i].end - 1, p, compiled[i].start)
  BY <1>1, <1>2, <1>3 DEF LastUpto, RunsThrough
<1>5. FlowAt(p, compiled[i].end - 1) = timeprogram[compiled[i].start][p]
  <2>1. compiled[i].end - 1 \in Nat
    BY <1>1
  <2>. QED
    BY <1>1, <1>4, <2>1, FlowOfLast DEF FlowAt
<1>. QED
  BY <1>2, <1>5 DEF RunsThrough

\* And with the same provisos: in every interpolated line all pumps that can be slowed
\* down enough run until the line ends.
THEOREM RecipesEndTogether == FixedPumpsOnce /\ Spec => []InterpolatedEndTogether
<1> SUFFICES ASSUME FixedPumpsOnce PROVE Spec => []InterpolatedEndTogether
  OBVIOUS
<1>. QED
  BY OrderInvariance, TogetherMeansEndTogether, PTL

-----------------------------------------------------------------------------
(* Sums.  The folds of the library are defined by an equation that a       *)
(* function solves; a set of numbers that is closed under the successor    *)
(* stands for the induction.                                               *)

\* Induction, for a set of numbers.
LEMMA AllNumbers ==
    ASSUME NEW S, 0 \in S, \A n \in Nat : n \in S => n + 1 \in S
    PROVE  Nat \subseteq S
<1> SUFFICES ASSUME Nat \ S # {} PROVE FALSE
  OBVIOUS
<1> DEFINE m == Min(Nat \ S)
<1>1. m \in Nat \ S /\ \A n \in Nat \ S : m <= n
  BY MinIsLeast
<1> HIDE DEF m
<1>2. m - 1 \in Nat /\ m - 1 \in S
  BY <1>1
<1>3. (m - 1) + 1 = m
  BY <1>1
<1>. QED
  BY <1>1, <1>2, <1>3

Any(s) == CHOOSE x \in s : TRUE

\* g sums up the values of w over every subset of S.
IsSum(g, w, S) ==
    g = [s \in SUBSET S |-> IF s = {} THEN 0 ELSE w[Any(s)] + g[s \ {Any(s)}]]

LEMMA AnyIsOne == \A s : s # {} => Any(s) \in s
BY DEF Any

\* The equation has a solution.
LEMMA SumExists ==
    ASSUME NEW S, IsFiniteSet(S), NEW w
    PROVE  \E g : IsSum(g, w, S)
<1> DEFINE Small(n) == {s \in SUBSET S : Cardinality(s) <= n}
           Solves(h, n) == h = [s \in Small(n) |->
                                  IF s = {} THEN 0 ELSE w[Any(s)] + h[s \ {Any(s)}]]
           Good == {n \in Nat : \E h : Solves(h, n)}
<1>1. \A s \in SUBSET S : /\ IsFiniteSet(s) /\ Cardinality(s) \in Nat
                          /\ Cardinality(s) <= Cardinality(S)
                          /\ Cardinality(s) = 0 <=> s = {}
  BY FS_Subset, FS_CardinalityType, FS_EmptySet
<1>2. \A s \in SUBSET S : s # {} => /\ s \ {Any(s)} \in SUBSET S
                                    /\ Cardinality(s \ {Any(s)}) = Cardinality(s) - 1
  BY <1>1, AnyIsOne, FS_RemoveElement
<1>3. 0 \in Good
  <2> DEFINE h == [s \in Small(0) |-> 0]
  <2>1. \A s \in Small(0) : s = {}
    BY <1>1
  <2>2. Solves(h, 0)
    BY <2>1
  <2>. QED
    BY <2>2
<1>4. ASSUME NEW n \in Nat, n \in Good PROVE n + 1 \in Good
  <2>1. PICK h : Solves(h, n)
    BY <1>4
  <2> DEFINE next1 == [s \in Small(n + 1) |-> IF s = {} THEN 0 ELSE w[Any(s)] + h[s \ {Any(s)}]]
  <2>2. \A s \in Small(n + 1) : s # {} => s \ {Any(s)} \in Small(n)
    BY <1>1, <1>2
  <2>3. \A s \in Small(n) : s \in Small(n + 1)
    BY <1>1
  <2> HIDE DEF Small
  <2>4. \A s \in Small(n) : next1[s] = h[s]
    BY <2>1, <2>3
  <2>5. \A s \in Small(n + 1) :
           next1[s] = IF s = {} THEN 0 ELSE w[Any(s)] + next1[s \ {Any(s)}]
    BY <2>2, <2>4
  <2>6. Solves(next1, n + 1)
    BY <2>5, Zenon
  <2> HIDE DEF next1, Solves
  <2>. QED
    BY <2>6
<1> HIDE DEF Good
<1>5. Cardinality(S) \in Good
  BY <1>1, <1>3, <1>4, AllNumbers
<1>6. Small(Cardinality(S)) = SUBSET S
  BY <1>1
<1> USE DEF Good
<1>7. PICK h : Solves(h, Cardinality(S))
  BY <1>5
<1>8. IsSum(h, w, S)
  BY <1>6, <1>7 DEF IsSum
<1>. QED
  BY <1>8

\* Of the subset s, g is the sum, whatever is added last.
SumsUp(g, w, s) == g[s] \in Nat /\ \A x \in s : g[s] = w[x] + g[s \ {x}]

\* A sum can be taken in any order.
LEMMA SumInAnyOrder ==
    ASSUME NEW S, IsFiniteSet(S), NEW w, \A x \in S : w[x] \in Nat, NEW g, IsSum(g, w, S)
    PROVE  g[{}] = 0 /\ \A s \in SUBSET S : SumsUp(g, w, s)
<1> DEFINE Good == {n \in Nat : \A s \in SUBSET S : Cardinality(s) <= n => SumsUp(g, w, s)}
<1>1. \A s \in SUBSET S : /\ Cardinality(s) \in Nat
                          /\ Cardinality(s) = 0 <=> s = {}
  BY FS_Subset, FS_CardinalityType, FS_EmptySet
<1>2. \A s \in SUBSET S : \A x \in s : s \ {x} \in SUBSET S
                                       /\ Cardinality(s \ {x}) = Cardinality(s) - 1
  BY FS_Subset, FS_RemoveElement
<1>3. g[{}] = 0 /\ \A s \in SUBSET S : s # {} => g[s] = w[Any(s)] + g[s \ {Any(s)}]
  BY DEF IsSum
<1>4. 0 \in Good
  <2>1. \A s \in SUBSET S : Cardinality(s) <= 0 => s = {}
    BY <1>1
  <2>2. SumsUp(g, w, {})
    BY <1>3 DEF SumsUp
  <2>. QED
    BY <2>1, <2>2
<1>5. ASSUME NEW n \in Nat, n \in Good PROVE n + 1 \in Good
  <2>1. ASSUME NEW s \in SUBSET S, Cardinality(s) = n + 1 PROVE SumsUp(g, w, s)
    <3>1. PICK c \in s : g[s] = w[c] + g[s \ {c}]
      <4>1. s # {}
        BY <1>1, <2>1
      <4>. QED
        BY <1>3, <4>1, AnyIsOne
    <3>2. \A x \in s : s \ {x} \in SUBSET S /\ SumsUp(g, w, s \ {x})
      BY <1>2, <1>5, <2>1
    <3>3. \A x \in s : w[x] \in Nat /\ g[s \ {x}] \in Nat
      BY <3>2 DEF SumsUp
    <3>4. ASSUME NEW x \in s, x # c PROVE g[s] = w[x] + g[s \ {x}]
      <4>1. x \in s \ {c} /\ c \in s \ {x} /\ (s \ {c}) \ {x} = (s \ {x}) \ {c}
        BY <3>4
      <4>2. (s \ {c}) \ {x} \in SUBSET S /\ Cardinality((s \ {c}) \ {x}) = n - 1
        <5>1. s \ {c} \in SUBSET S /\ Cardinality(s \ {c}) = n
          BY <1>2, <2>1
        <5>. QED
          BY <1>2, <4>1, <5>1
      <4>3. g[(s \ {c}) \ {x}] \in Nat
        BY <1>5, <4>2 DEF SumsUp
      <4>4. g[s \ {c}] = w[x] + g[(s \ {c}) \ {x}]
        BY <3>2, <4>1 DEF SumsUp
      <4>5. g[s \ {x}] = w[c] + g[(s \ {c}) \ {x}]
        BY <3>2, <4>1 DEF SumsUp
      <4>. QED
        BY <3>1, <3>3, <4>3, <4>4, <4>5
    <3>5. \A x \in s : g[s] = w[x] + g[s \ {x}]
      BY <3>1, <3>4, Zenon
    <3>6. g[s] \in Nat
      BY <3>1, <3>3
    <3>. QED
      BY <3>5, <3>6 DEF SumsUp
  <2>2. ASSUME NEW s \in SUBSET S, Cardinality(s) <= n + 1 PROVE SumsUp(g, w, s)
    <3>1. Cardinality(s) <= n \/ Cardinality(s) = n + 1
      BY <1>1, <2>2
    <3>2. CASE Cardinality(s) <= n
      BY <1>5, <3>2
    <3>3. CASE Cardinality(s) = n + 1
      BY <2>1, <3>3
    <3>. QED
      BY <3>1, <3>2, <3>3
  <2>. QED
    BY <2>2
<1>6. Nat \subseteq Good
  <2> HIDE DEF Good
  <2>. QED
    BY <1>4, <1>5, AllNumbers
<1>. QED
  BY <1>1, <1>3, <1>6

\* G counts up from a to b what w has in S.
CountsUp(G, w, S, a, b) ==
    /\ G[a] = 0
    /\ \A t \in a .. b - 1 : G[t + 1] = G[t] + IF t \in S THEN w[t] ELSE 0

\* And so it can be taken in the order of time.
LEMMA SumIsCount ==
    ASSUME NEW a \in Nat, NEW b \in Nat, a <= b, NEW S \in SUBSET (a .. b - 1),
           NEW w, \A x \in S : w[x] \in Nat, NEW g, IsSum(g, w, S),
           NEW G, CountsUp(G, w, S, a, b)
    PROVE  g[S] = G[b]
<1> DEFINE Upto(n) == S \cap (a .. a + n - 1)
           Good == {n \in Nat : a + n <= b => g[Upto(n)] = G[a + n]}
<1>1. IsFiniteSet(S)
  <2>1. IsFiniteSet(a .. b - 1)
    BY FS_Interval
  <2>. QED
    BY <2>1, FS_Subset
<1>2. g[{}] = 0 /\ \A s \in SUBSET S : SumsUp(g, w, s)
  BY <1>1, SumInAnyOrder
<1>3. 0 \in Good
  <2>1. Upto(0) = {}
    OBVIOUS
  <2>. QED
    BY <1>2, <2>1 DEF CountsUp
<1>4. ASSUME NEW n \in Nat, n \in Good PROVE n + 1 \in Good
  <2> SUFFICES ASSUME a + (n + 1) <= b PROVE g[Upto(n + 1)] = G[a + (n + 1)]
    OBVIOUS
  <2>1. g[Upto(n)] = G[a + n]
    BY <1>4
  <2>2. a + n \in a .. b - 1
    OBVIOUS
  <2>3. G[a + (n + 1)] = G[a + n] + IF a + n \in S THEN w[a + n] ELSE 0
    <3>1. (a + n) + 1 = a + (n + 1)
      OBVIOUS
    <3>. QED
      BY <2>2, <3>1 DEF CountsUp
  <2>4. Upto(n) \in SUBSET S /\ g[Upto(n)] \in Nat
    BY <1>2 DEF SumsUp
  <2>5. CASE a + n \in S
    <3>1. Upto(n + 1) \ {a + n} = Upto(n) /\ a + n \in Upto(n + 1)
      BY <2>5
    <3> HIDE DEF Upto
    <3>2. Upto(n + 1) \in SUBSET S
      BY DEF Upto
    <3>3. g[Upto(n + 1)] = w[a + n] + g[Upto(n)]
      BY <1>2, <3>1, <3>2 DEF SumsUp
    <3>. QED
      BY <2>1, <2>3, <2>4, <2>5, <3>3
  <2>6. CASE a + n \notin S
    <3>1. Upto(n + 1) = Upto(n)
      BY <2>6
    <3>. QED
      BY <2>1, <2>3, <2>4, <2>6, <3>1
  <2>. QED
    BY <2>5, <2>6
<1>5. b - a \in Good
  <2> HIDE DEF Good
  <2>. QED
    BY <1>3, <1>4, AllNumbers
<1>6. b - a \in Nat /\ a + (b - a) = b /\ Upto(b - a) = S
  <2>1. b - a \in Nat /\ a + (b - a) = b /\ a + (b - a) - 1 = b - 1
    OBVIOUS
  <2>. QED
    BY <2>1
<1> HIDE DEF Upto
<1>. QED
  BY <1>5, <1>6

\* Pump p delivers v in [from, to).
Delivers(tp, p, from, to, v) ==
    \E G : /\ G[from] = 0 /\ G[to] = v
          /\ \A t \in from .. to - 1 : G[t + 1] = G[t] + FlowIn(tp, p, t)

\* Volume is what is delivered.
LEMMA VolumeIsDelivered ==
    ASSUME NEW p, NEW from \in Nat, NEW to \in Nat, from <= to, NEW v,
           Delivers(timeprogram, p, from, to, v), \A t \in Nat : FlowAt(p, t) \in Nat
    PROVE  Volume(p, from, to) = v
<1> DEFINE S == from .. to - 1
           w == [t \in S |-> FlowAt(p, t)]
           Is(g) == g = [s \in SUBSET S |->
                           IF s = {} THEN 0 ELSE FlowAt(p, Any(s)) + g[s \ {Any(s)}]]
<1>1. Volume(p, from, to) = (CHOOSE g : Is(g))[S]
  BY DEF Volume, MapThenSumSet, MapThenFoldSet, Any
<1>2. \A g : Is(g) <=> IsSum(g, w, S)
  <2>1. \A s \in SUBSET S : s # {} => w[Any(s)] = FlowAt(p, Any(s))
    BY AnyIsOne
  <2> HIDE DEF S, w
  <2>2. ASSUME NEW g
        PROVE  [s \in SUBSET S |-> IF s = {} THEN 0 ELSE FlowAt(p, Any(s)) + g[s \ {Any(s)}]]
               = [s \in SUBSET S |-> IF s = {} THEN 0 ELSE w[Any(s)] + g[s \ {Any(s)}]]
    BY <2>1
  <2>. QED
    BY <2>2 DEF IsSum
<1>3. IsFiniteSet(S) /\ S \in SUBSET Nat
  <2>1. from \in Int /\ to - 1 \in Int
    OBVIOUS
  <2>2. S \in SUBSET Nat
    OBVIOUS
  <2> HIDE DEF Is, w
  <2>3. IsFiniteSet(S)
    BY <2>1, FS_Interval
  <2>. QED
    BY <2>2, <2>3
<1>4. \A x \in S : w[x] \in Nat
  BY <1>3
<1>5. \E g : Is(g)
  BY <1>2, <1>3, SumExists
<1>6. PICK g : g = (CHOOSE h : Is(h)) /\ Is(g)
  <2> HIDE DEF Is
  <2>. QED
    BY <1>5
<1>7. PICK G : /\ G[from] = 0 /\ G[to] = v
               /\ \A t \in from .. to - 1 : G[t + 1] = G[t] + FlowAt(p, t)
  BY DEF Delivers, FlowAt
<1>8. CountsUp(G, w, S, from, to)
  BY <1>7 DEF CountsUp
<1> HIDE DEF S, w, Is
<1>9. IsSum(g, w, S)
  BY <1>2, <1>6
<1>10. S \in SUBSET (from .. to - 1)
  BY DEF S
<1>11. g[S] = G[to]
  BY <1>4, <1>8, <1>9, <1>10, SumIsCount
<1>. QED
  BY <1>1, <1>6, <1>7, <1>11

\* The first k components of line l ask for amount a of pump p.
Asks(l, p, k, a) ==
    \E G : /\ G[1] = 0 /\ G[k + 1] = a
          /\ \A i \in 1 .. k :
                G[i + 1] = G[i] + IF l.components[i].pump = p THEN l.components[i].amount ELSE 0

LEMMA WantedIsAsked ==
    ASSUME NEW l \in NaturalLines, NEW p, NEW a, Asks(l, p, Len(l.components), a)
    PROVE  Wanted(l, p) = a * Unit
<1> DEFINE S == Components(l, p)
           n == Len(l.components)
           w == [i \in S |-> l.components[i].amount]
           Is(g) == g = [s \in SUBSET S |->
                           IF s = {} THEN 0
                           ELSE l.components[Any(s)].amount + g[s \ {Any(s)}]]
<1>1. Wanted(l, p) = (CHOOSE g : Is(g))[S] * Unit
  BY DEF Wanted, MapThenSumSet, MapThenFoldSet, Any
<1>2. \A g : Is(g) <=> IsSum(g, w, S)
  <2>1. \A s \in SUBSET S : s # {} => w[Any(s)] = l.components[Any(s)].amount
    BY AnyIsOne
  <2> HIDE DEF S, w
  <2>2. ASSUME NEW g
        PROVE  [s \in SUBSET S |->
                  IF s = {} THEN 0 ELSE l.components[Any(s)].amount + g[s \ {Any(s)}]]
               = [s \in SUBSET S |-> IF s = {} THEN 0 ELSE w[Any(s)] + g[s \ {Any(s)}]]
    BY <2>1
  <2>. QED
    BY <2>2 DEF IsSum
<1>3. /\ n \in Nat /\ DOMAIN l.components = 1 .. n
      /\ \A i \in 1 .. n : l.components[i].amount \in Nat
  BY NaturalParts
<1>4. /\ S \in SUBSET (1 .. (n + 1) - 1)
      /\ \A i \in 1 .. n : i \in S <=> l.components[i].pump = p
      /\ \A i \in S : w[i] \in Nat
  BY <1>3 DEF Components
<1>5. IsFiniteSet(S)
  <2>1. IsFiniteSet(1 .. (n + 1) - 1)
    BY <1>3, FS_Interval
  <2>. QED
    BY <1>4, <2>1, FS_Subset
<1>6. PICK G : /\ G[1] = 0 /\ G[n + 1] = a
               /\ \A i \in 1 .. n :
                     G[i + 1] = G[i] + IF l.components[i].pump = p THEN l.components[i].amount ELSE 0
  BY DEF Asks
<1>7. CountsUp(G, w, S, 1, n + 1)
  BY <1>3, <1>4, <1>6 DEF CountsUp
<1> HIDE DEF S, n, w
<1>8. \E g : Is(g)
  BY <1>2, <1>5, SumExists
<1>9. PICK g : g = (CHOOSE h : Is(h)) /\ Is(g)
  <2> HIDE DEF Is
  <2>. QED
    BY <1>8
<1> HIDE DEF Is
<1>10. IsSum(g, w, S)
  BY <1>2, <1>9
<1>11. g[S] = G[n + 1]
  <2>1. PICK m : m \in Nat /\ m = n + 1 /\ 1 <= m
    BY <1>3
  <2>2. S \in SUBSET (1 .. m - 1) /\ CountsUp(G, w, S, 1, m)
    BY <1>4, <1>7, <2>1, Zenon
  <2>3. \A i \in S : w[i] \in Nat
    BY <1>4, Zenon
  <2>4. g[S] = G[m]
    BY <1>10, <2>1, <2>2, <2>3, SumIsCount
  <2>. QED
    BY <2>1, <2>4, Zenon
<1>. QED
  BY <1>1, <1>6, <1>9, <1>11

\* The first k components of line l that are pump p's.
Portions(l, p, k) == {i \in 1 .. k : l.components[i].pump = p}

LEMMA NextPortion ==
    ASSUME NEW l, NEW p, NEW k \in Nat, NEW a \in Nat, Asks(l, p, k, a)
    PROVE  LET c == l.components[k + 1]
           IN  /\ c.pump = p => Asks(l, p, k + 1, a + c.amount)
               /\ c.pump # p => Asks(l, p, k + 1, a)
               /\ c.pump = p => Portions(l, p, k + 1) = Portions(l, p, k) \cup {k + 1}
               /\ c.pump # p => Portions(l, p, k + 1) = Portions(l, p, k)
               /\ IsFiniteSet(Portions(l, p, k)) /\ Cardinality(Portions(l, p, k)) \in Nat
               /\ Cardinality(Portions(l, p, k + 1)) =
                     Cardinality(Portions(l, p, k)) + IF c.pump = p THEN 1 ELSE 0
<1> DEFINE c == l.components[k + 1]
           more == IF c.pump = p THEN c.amount ELSE 0
<1>1. PICK G : /\ G[1] = 0 /\ G[k + 1] = a
               /\ \A i \in 1 .. k :
                     G[i + 1] = G[i] + IF l.components[i].pump = p THEN l.components[i].amount ELSE 0
  BY DEF Asks
<1>2. Asks(l, p, k + 1, a + more)
  <2> DEFINE H == [i \in 1 .. k + 2 |-> IF i = k + 2 THEN a + more ELSE G[i]]
  <2>1. H[1] = 0 /\ H[(k + 1) + 1] = a + more /\ H[k + 1] = a
    BY <1>1
  <2>2. ASSUME NEW i \in 1 .. k + 1
        PROVE  H[i + 1] = H[i] + IF l.components[i].pump = p THEN l.components[i].amount ELSE 0
    <3>1. CASE i \in 1 .. k
      BY <1>1, <3>1
    <3>2. CASE i = k + 1
      BY <2>1, <3>2
    <3>. QED
      BY <3>1, <3>2
  <2> HIDE DEF H
  <2>. QED
    BY <2>1, <2>2 DEF Asks
<1>3. Portions(l, p, k + 1) =
         IF c.pump = p THEN Portions(l, p, k) \cup {k + 1} ELSE Portions(l, p, k)
  <2>1. \A i : i \in 1 .. k + 1 <=> i \in 1 .. k \/ i = k + 1
    OBVIOUS
  <2>. QED
    BY <2>1 DEF Portions
<1>4. IsFiniteSet(Portions(l, p, k)) /\ Cardinality(Portions(l, p, k)) \in Nat
      /\ k + 1 \notin Portions(l, p, k)
  <2>1. IsFiniteSet(1 .. k)
    BY FS_Interval
  <2>2. Portions(l, p, k) \in SUBSET (1 .. k)
    BY DEF Portions
  <2>3. IsFiniteSet(Portions(l, p, k))
    BY <2>1, <2>2, FS_Subset
  <2>. QED
    BY <2>2, <2>3, FS_CardinalityType
<1>5. Cardinality(Portions(l, p, k + 1)) =
         Cardinality(Portions(l, p, k)) + IF c.pump = p THEN 1 ELSE 0
  <2>1. Cardinality(Portions(l, p, k) \cup {k + 1}) = Cardinality(Portions(l, p, k)) + 1
    BY <1>4, FS_AddElement
  <2>. QED
    BY <1>3, <1>4, <2>1
<1>6. a + 0 = a
  OBVIOUS
<1>. QED
  BY <1>2, <1>3, <1>4, <1>5, <1>6

-----------------------------------------------------------------------------
(* What a pump does when a component has been written.                     *)

LEMMA FlowType ==
    ASSUME NEW tp, IsTimeProgram(tp, Nat, Pumps, Nat), NEW p, NEW t \in Nat
    PROVE  FlowIn(tp, p, t) \in Nat
<1>1. DOMAIN tp \in SUBSET Nat /\ \A u \in DOMAIN tp : \A q \in DOMAIN tp[u] : tp[u][q] \in Nat
  BY DEF IsTimeProgram
<1>2. CASE \E u : LastUpto(tp, t, p, u)
  <2>1. PICK u : LastUpto(tp, t, p, u)
    BY <1>2
  <2>2. FlowIn(tp, p, t) = tp[u][p]
    BY <1>1, <2>1, FlowOfLast
  <2>. QED
    BY <1>1, <2>1, <2>2 DEF LastUpto, Commands
<1>3. CASE \A u : ~ LastUpto(tp, t, p, u)
  BY <1>1, <1>3, FlowOfLast DEF Off
<1>. QED
  BY <1>2, <1>3

\* The flow at a time depends on the commands up to then.
LEMMA FlowDepends ==
    ASSUME NEW tp, DOMAIN tp \in SUBSET Nat, NEW r, DOMAIN r \in SUBSET Nat, NEW p,
           NEW t \in Nat,
           \A u : u <= t => /\ Commands(r, u, p) <=> Commands(tp, u, p)
                            /\ Commands(r, u, p) => r[u][p] = tp[u][p]
    PROVE  FlowIn(r, p, t) = FlowIn(tp, p, t)
<1>1. \A u : LastUpto(r, t, p, u) <=> LastUpto(tp, t, p, u)
  BY DEF LastUpto
<1>2. CASE \E u : LastUpto(tp, t, p, u)
  <2>1. PICK u : LastUpto(tp, t, p, u)
    BY <1>2
  <2>2. FlowIn(tp, p, t) = tp[u][p] /\ FlowIn(r, p, t) = r[u][p]
    BY <1>1, <2>1, FlowOfLast
  <2>. QED
    BY <1>1, <2>1, <2>2 DEF LastUpto
<1>3. CASE \A u : ~ LastUpto(tp, t, p, u)
  BY <1>1, <1>3, FlowOfLast
<1>. QED
  BY <1>2, <1>3

\* After its last command a pump is off.
LEMMA SettledFlow ==
    ASSUME NEW tp, DOMAIN tp \in SUBSET Nat, Settles(tp), NEW p,
           NEW t \in Nat, \A u : Commands(tp, u, p) => u <= t
    PROVE  FlowIn(tp, p, t) = Off
<1>1. CASE \E u : Commands(tp, u, p)
  <2>1. PICK u : LastAt(tp, p, u) /\ tp[u][p] = Off
    BY <1>1, SettlesMeans DEF LeavesOff
  <2>2. LastUpto(tp, t, p, u)
    BY <2>1 DEF LastAt, LastUpto
  <2>. QED
    BY <2>1, <2>2, FlowOfLast
<1>2. CASE \A u : ~ Commands(tp, u, p)
  BY <1>2, FlowOfLast DEF LastUpto
<1>. QED
  BY <1>1, <1>2

\* A component changes the flow of its own pump, from its beginning on.
LEMMA RunFlow ==
    ASSUME NEW tp, DOMAIN tp \in SUBSET Nat, NEW r, NEW p, NEW flow,
           NEW from \in Nat, NEW to \in Nat, from <= to, IsRun(r, tp, from, to, p, flow)
    PROVE  /\ \A q, t : t \in Nat /\ (q # p \/ t < from) => FlowIn(r, q, t) = FlowIn(tp, q, t)
           /\ (\A u : Commands(tp, u, p) => u <= from) =>
                 \A t \in Nat : t >= from => FlowIn(r, p, t) = IF t < to THEN flow ELSE Off
<1>1. DOMAIN r \in SUBSET Nat
  BY DEF IsRun
<1>2. ASSUME NEW q, NEW t \in Nat, q # p \/ t < from
      PROVE  FlowIn(r, q, t) = FlowIn(tp, q, t)
  <2>1. \A u : u <= t => /\ Commands(r, u, q) <=> Commands(tp, u, q)
                         /\ Commands(r, u, q) => r[u][q] = tp[u][q]
    <3>1. \A u : u <= t => u \notin {from, to} \/ q # p
      BY <1>2
    <3>. QED
      BY <3>1 DEF IsRun
  <2>. QED
    BY <1>1, <2>1, FlowDepends
<1>3. ASSUME \A u : Commands(tp, u, p) => u <= from, NEW t \in Nat, t >= from
      PROVE  FlowIn(r, p, t) = IF t < to THEN flow ELSE Off
  <2>1. \A u : Commands(r, u, p) => u \in Nat /\ (u <= from \/ u = to)
    BY <1>1, <1>3 DEF IsRun, Commands
  <2>2. CASE t < to
    <3>1. LastUpto(r, t, p, from) /\ r[from][p] = flow
      BY <1>3, <2>1, <2>2 DEF LastUpto, IsRun
    <3>. QED
      BY <1>1, <2>2, <3>1, FlowOfLast
  <2>3. CASE t >= to
    <3>1. LastUpto(r, t, p, to) /\ r[to][p] = Off
      BY <1>3, <2>1, <2>3 DEF LastUpto, IsRun
    <3>. QED
      BY <1>1, <2>3, <3>1, FlowOfLast
  <2>. QED
    BY <2>2, <2>3
<1>. QED
  BY <1>2, <1>3

LEMMA NothingIsDelivered ==
    ASSUME NEW tp, NEW p, NEW from \in Nat
    PROVE  Delivers(tp, p, from, from, 0)
<1> DEFINE G == [t \in {from} |-> 0]
<1>1. G[from] = 0 /\ from .. from - 1 = {}
  OBVIOUS
<1> HIDE DEF G
<1>. QED
  BY <1>1 DEF Delivers

\* What has been delivered and what a steady flow adds.
LEMMA SteadyDelivery ==
    ASSUME NEW tp, NEW p, NEW from \in Nat, NEW mid \in Nat, NEW to \in Nat,
           from <= mid, mid <= to, NEW v \in Nat, Delivers(tp, p, from, mid, v),
           NEW flow \in Nat, \A t \in mid .. to - 1 : FlowIn(tp, p, t) = flow
    PROVE  Delivers(tp, p, from, to, v + flow * (to - mid))
<1>1. PICK G : /\ G[from] = 0 /\ G[mid] = v
               /\ \A t \in from .. mid - 1 : G[t + 1] = G[t] + FlowIn(tp, p, t)
  BY DEF Delivers
<1> DEFINE H == [t \in from .. to |-> IF t <= mid THEN G[t] ELSE v + flow * (t - mid)]
<1>2. H[from] = 0 /\ H[mid] = v
  BY <1>1
<1>3. \A t \in mid .. to : H[t] = v + flow * (t - mid)
  <2>1. H[mid] = v + flow * (mid - mid)
    BY <1>2
  <2>2. \A t \in mid .. to : t # mid => H[t] = v + flow * (t - mid)
    OBVIOUS
  <2>. QED
    BY <2>1, <2>2
<1>4. ASSUME NEW t \in from .. to - 1 PROVE H[t + 1] = H[t] + FlowIn(tp, p, t)
  <2>1. CASE t < mid
    BY <1>1, <2>1
  <2>2. CASE t >= mid
    <3>0. t \in mid .. to /\ t + 1 \in mid .. to
      BY <2>2
    <3> HIDE DEF H
    <3>1. H[t] = v + flow * (t - mid)
      BY <1>3, <3>0
    <3>2. H[t + 1] = v + flow * ((t + 1) - mid)
      BY <1>3, <3>0
    <3>3. flow * ((t + 1) - mid) = flow * (t - mid) + flow
      BY <2>2
    <3>4. flow * (t - mid) \in Nat
      BY <2>2
    <3>. QED
      BY <2>2, <3>1, <3>2, <3>3, <3>4
  <2>. QED
    BY <2>1, <2>2
<1> HIDE DEF H
<1>. QED
  BY <1>2, <1>3, <1>4 DEF Delivers

\* While a pump is off nothing is added.
LEMMA NothingIsAdded ==
    ASSUME NEW tp, NEW p, NEW from \in Nat, NEW mid \in Nat, NEW to \in Nat,
           from <= mid, mid <= to, NEW v \in Nat, Delivers(tp, p, from, mid, v),
           \A t \in mid .. to - 1 : FlowIn(tp, p, t) = Off
    PROVE  Delivers(tp, p, from, to, v)
<1> DEFINE gap == to - mid
<1>1. gap \in Nat
  OBVIOUS
<1>2. Delivers(tp, p, from, to, v + 0 * gap)
  <2>1. 0 \in Nat /\ \A t \in mid .. to - 1 : FlowIn(tp, p, t) = 0
    BY DEF Off
  <2>. QED
    BY <2>1, SteadyDelivery
<1> HIDE DEF gap
<1>3. v + 0 * gap = v
  BY <1>1
<1>. QED
  BY <1>2, <1>3

LEMMA SameDelivery ==
    ASSUME NEW tp, NEW r, NEW p, NEW from \in Nat, NEW to \in Nat, NEW v,
           Delivers(tp, p, from, to, v),
           \A t \in from .. to - 1 : FlowIn(r, p, t) = FlowIn(tp, p, t)
    PROVE  Delivers(r, p, from, to, v)
BY DEF Delivers

-----------------------------------------------------------------------------
(* A component delivers its amount, short of less than a millisecond's     *)
(* flow.                                                                   *)

LEMMA WholeDose ==
    ASSUME NEW a \in Nat, NEW flow \in Nat \ {0}
    PROVE  /\ flow * Duration(a, flow) <= a * Unit
           /\ a * Unit < flow * Duration(a, flow) + flow
<1>1. a * Unit \in Nat
  BY RecipeAssumption
<1> DEFINE x == a * Unit
<1> HIDE DEF x
<1>2. flow * (x \div flow) <= x /\ x < flow * (x \div flow) + flow
  BY <1>1 DEF x
<1>3. Duration(a, flow) = x \div flow
  BY DurationType DEF x
<1>. QED
  BY <1>2, <1>3 DEF x

\* Also when it is slowed down to last as long as amount b at flow g.
LEMMA SlowedDose ==
    ASSUME NEW a \in Nat, NEW flow \in Nat \ {0}, NEW b \in Nat \ {0}, NEW g \in Nat \ {0},
           flow * b = a * g
    PROVE  /\ flow * Duration(b, g) <= a * Unit
           /\ a * Unit < flow * Duration(b, g) + flow
<1> DEFINE d == Duration(b, g)
<1>1. d \in Nat /\ Unit \in Nat \ {0}
  BY DurationType, RecipeAssumption
<1>2. g * d <= b * Unit /\ b * Unit < g * d + g
  BY WholeDose
<1> HIDE DEF d
<1>3. flow * d <= a * Unit
  <2>1. (g * d) * a <= (b * Unit) * a
    BY <1>1, <1>2, Multiply
  <2>2. (g * d) * a = (flow * d) * b
    <3>1. (g * d) * a = (a * g) * d
      BY <1>1
    <3>2. (flow * d) * b = (flow * b) * d
      BY <1>1
    <3>. QED
      BY <3>1, <3>2
  <2>3. (b * Unit) * a = (a * Unit) * b
    BY <1>1
  <2>4. flow * d \in Nat /\ a * Unit \in Nat
    BY <1>1
  <2>. QED
    BY <2>1, <2>2, <2>3, <2>4, Cancel
<1>4. a * Unit < flow * d + flow
  <2> SUFFICES ASSUME flow * d + flow <= a * Unit PROVE FALSE
    <3>1. flow * d + flow \in Nat /\ a * Unit \in Nat
      BY <1>1
    <3>. QED
      BY <3>1
  <2>1. a > 0
    <3> SUFFICES ASSUME a = 0 PROVE FALSE
      OBVIOUS
    <3>1. a * Unit = 0 /\ flow * d \in Nat
      BY <1>1
    <3>. QED
      BY <3>1
  <2>2. (flow * (d + 1)) * b <= (a * Unit) * b
    <3>1. flow * (d + 1) = flow * d + flow /\ flow * (d + 1) \in Nat /\ a * Unit \in Nat
      BY <1>1
    <3>. QED
      BY <3>1, Multiply
  <2>3. (flow * (d + 1)) * b = (g * (d + 1)) * a
    <3>1. (flow * (d + 1)) * b = (flow * b) * (d + 1)
      BY <1>1
    <3>2. (g * (d + 1)) * a = (a * g) * (d + 1)
      BY <1>1
    <3>. QED
      BY <3>1, <3>2
  <2>4. (a * Unit) * b = (b * Unit) * a
    BY <1>1
  <2>5. g * (d + 1) \in Nat /\ b * Unit \in Nat
    BY <1>1
  <2>6. g * (d + 1) <= b * Unit
    BY <2>1, <2>2, <2>3, <2>4, <2>5, Cancel
  <2>7. g * (d + 1) = g * d + g
    BY <1>1
  <2>. QED
    BY <1>2, <2>5, <2>6, <2>7
<1>. QED
  BY <1>3, <1>4 DEF d

\* The lines whose doses of pump p are right: those that do not name it twice at once.
OneAtATime(l, p) == Cardinality(Components(l, p)) <= 1 \/ l.timing = "sequential"

\* A pump with one component has no other one.
LEMMA OnlyComponent ==
    ASSUME NEW l \in NaturalLines, NEW k \in 1 .. Len(l.components), l.timing # "sequential",
           OneAtATime(l, l.components[k].pump),
           NEW j \in 1 .. Len(l.components), l.components[j].pump = l.components[k].pump
    PROVE  j = k
<1> DEFINE p == l.components[k].pump
           S == Components(l, p)
<1> SUFFICES ASSUME j # k PROVE FALSE
  OBVIOUS
<1>2. Len(l.components) \in Nat /\ DOMAIN l.components = 1 .. Len(l.components)
  BY NaturalParts
<1>3. IsFiniteSet(S) /\ Cardinality(S) <= 1
  <2>1. IsFiniteSet(1 .. Len(l.components))
    BY <1>2, FS_Interval
  <2>2. S \in SUBSET (1 .. Len(l.components))
    BY <1>2 DEF Components
  <2>. QED
    BY <2>1, <2>2, FS_Subset DEF OneAtATime
<1>4. j \in S /\ k \in S /\ j # k
  BY <1>2 DEF Components
<1> HIDE DEF S
<1>5. IsFiniteSet(S \ {j}) /\ Cardinality(S \ {j}) = Cardinality(S) - 1
  BY <1>3, <1>4, FS_RemoveElement
<1>6. S \ {j} # {} /\ Cardinality(S) \in Nat /\ Cardinality(S \ {j}) \in Nat
  BY <1>3, <1>4, <1>5, FS_CardinalityType
<1>7. Cardinality(S \ {j}) = 0
  BY <1>3, <1>5, <1>6
<1>. QED
  BY <1>5, <1>6, <1>7, FS_EmptySet

LEMMA WrittenDose ==
    ASSUME FixedPumpsOnce, FlowsAreWhole, Inv, Component,
           OneAtATime(line, line.components[next].pump),
           NEW to, NEW flow, Writes(line.components[next], to, flow)
    PROVE  LET c == line.components[next]
           IN  /\ flow * (to - time) <= c.amount * Unit
               /\ c.amount * Unit < flow * (to - time) + MaxFlow[c.pump]
<1> DEFINE c == line.components[next]
           p == c.pump
           slow == SlowestIn(line.components)
           amount == LastAmount(line.components)
<1>1. /\ p \in Pumps /\ c.amount \in Nat
      /\ MinFlow[p] \in Nat \ {0} /\ MaxFlow[p] \in Nat \ {0} /\ MinFlow[p] <= MaxFlow[p]
  BY ComponentEffect, FlowsArePositive
<1>2. time \in Nat /\ to \in Nat /\ flow \in Nat /\ time <= to /\ Unit \in Nat
  BY RecipeAssumption DEF Inv, NatTypeOK, Component, Writes
<1>3. ASSUME flow \in {MinFlow[p], MaxFlow[p]}, to = time + Duration(c.amount, flow)
      PROVE  /\ flow * (to - time) <= c.amount * Unit
             /\ c.amount * Unit < flow * (to - time) + MaxFlow[p]
  <2> DEFINE d == Duration(c.amount, flow)
  <2>1. flow \in Nat \ {0} /\ flow <= MaxFlow[p]
    BY <1>1, <1>3
  <2>2. d \in Nat /\ flow * d <= c.amount * Unit /\ c.amount * Unit < flow * d + flow
    BY <1>1, <2>1, DurationType, WholeDose
  <2>3. to - time = d
    BY <1>2, <1>3, <2>2
  <2> HIDE DEF d
  <2>4. flow * d \in Nat /\ c.amount * Unit \in Nat
    BY <1>1, <1>2, <2>1, <2>2
  <2>. QED
    BY <1>1, <2>1, <2>2, <2>3, <2>4
<1>4. CASE line.timing = "interpolated" /\ p \notin separated
           /\ flow = InterpolatedFlow(c) /\ to = end
  <2>5. line \in NaturalLines
    BY DEF Inv, AnyInv, LineInv, InOrder, Open, Component
  <2>1. /\ amount[slow] \in Nat /\ MaxFlow[slow] \in Nat \ {0}
        /\ end = time + Duration(amount[slow], MaxFlow[slow])
    BY <1>4, InterpolatedPump
  <2>2. /\ c.amount = amount[p] /\ amount[p] \in Nat
        /\ Longer(amount[slow], MaxFlow[slow], amount[p], MaxFlow[p])
    <3>1. p \notin PumpsLeft'
      <4> SUFFICES ASSUME NEW i \in next + 1 .. Len(line.components),
                          line.components[i].pump = p
                   PROVE  FALSE
        BY DEF PumpsLeft, Component
      <4>1. /\ next \in 1 .. Len(line.components) /\ i \in 1 .. Len(line.components)
            /\ next # i
        BY ComponentEffect
      <4>. QED
        BY <1>4, <2>5, <4>1, OnlyComponent
    <3>. QED
      BY <1>4, <3>1, InterpolatedPump
  <2>3. p \in CanWait(line.components)
    BY <1>4, InterpolatedPump
  <2>4. to - time = Duration(amount[slow], MaxFlow[slow])
        /\ Duration(amount[slow], MaxFlow[slow]) \in Nat
    BY <1>2, <1>4, <2>1, DurationType
  <2>6. CASE amount[slow] = 0
    <3>1. amount[p] * MaxFlow[slow] <= 0
      BY <1>1, <2>1, <2>2, <2>6 DEF Longer
    <3>2. amount[p] = 0
      BY <2>1, <2>2, <3>1
    <3>3. flow = 0
      BY <1>4, <2>6 DEF InterpolatedFlow, Off
    <3>4. flow * (to - time) = 0 /\ c.amount * Unit = 0
      BY <1>2, <2>2, <3>2, <3>3
    <3>. QED
      BY <1>1, <3>4
  <2>7. CASE amount[slow] # 0
    <3>1. PICK f \in MinFlow[p] .. MaxFlow[p] : f * amount[slow] = amount[p] * MaxFlow[slow]
      BY <1>4, <2>3, <2>5 DEF FlowsAreWhole
    <3>2. f \in Nat \ {0} /\ f <= MaxFlow[p]
      BY <1>1, <3>1
    <3>3. flow = (f * amount[slow]) \div amount[slow]
      BY <1>4, <2>2, <2>7, <3>1 DEF InterpolatedFlow
    <3>4. flow = f
      <4> HIDE DEF amount, slow
      <4>1. amount[slow] \in Nat \ {0}
        BY <2>1, <2>7
      <4>2. f * amount[slow] \in Nat
        BY <3>2, <4>1
      <4>3. f <= flow /\ flow * amount[slow] <= f * amount[slow]
        BY <1>2, <3>2, <3>3, <4>1, <4>2, Quotient
      <4>. QED
        BY <1>2, <3>2, <4>1, <4>3, Cancel
    <3>5. /\ f * Duration(amount[slow], MaxFlow[slow]) <= amount[p] * Unit
          /\ amount[p] * Unit < f * Duration(amount[slow], MaxFlow[slow]) + f
      BY <2>1, <2>2, <2>7, <3>1, <3>2, SlowedDose
    <3>6. f * Duration(amount[slow], MaxFlow[slow]) \in Nat /\ amount[p] * Unit \in Nat
      BY <1>2, <2>2, <2>4, <3>2
    <3>. QED
      BY <1>1, <2>2, <2>4, <3>2, <3>4, <3>5, <3>6
  <2>. QED
    BY <2>1, <2>6, <2>7
<1>. QED
  BY <1>3, <1>4 DEF Writes

-----------------------------------------------------------------------------
(* The amounts of the lines so far.                                        *)

\* In [from, to) pump p delivers what the first k components of line l ask for.
Dosed(tp, l, p, k, from, to) ==
    \E v, a \in Nat :
        /\ Delivers(tp, p, from, to, v) /\ Asks(l, p, k, a)
        /\ v <= a * Unit
        /\ IF Portions(l, p, k) = {} THEN a = 0
           ELSE a * Unit < v + Cardinality(Portions(l, p, k)) * MaxFlow[p]

\* Every line so far dispenses its amounts, and the one being compiled those of the
\* components so far; the other pumps have not been commanded since it began.
DosesInv ==
    /\ \A i \in DOMAIN compiled : \A p \in Pumps :
          LET l == compiled[i].line
          IN  /\ compiled[i].start <= compiled[i].end
              /\ OneAtATime(l, p) =>
                    Dosed(timeprogram, l, p, Len(l.components),
                          compiled[i].start, compiled[i].end)
    /\ Open => \A t, p : Commands(timeprogram, t, p) /\ t >= start => p \in PumpsDone
    /\ phase = "components" =>
          \A p \in Pumps :
              OneAtATime(line, p) => Dosed(timeprogram, line, p, next - 1, start, end)

LEMMA PortionsAreComponents ==
    ASSUME NEW l \in NaturalLines, NEW p
    PROVE  Portions(l, p, Len(l.components)) = Components(l, p)
BY NaturalParts DEF Portions, Components

LEMMA NothingIsAsked ==
    ASSUME NEW l, NEW p, NEW tp, NEW from \in Nat, NEW to \in Nat, from <= to,
           \A t \in from .. to - 1 : FlowIn(tp, p, t) = Off
    PROVE  Dosed(tp, l, p, 0, from, to)
<1>1. Asks(l, p, 0, 0)
  <2> DEFINE G == [i \in {1} |-> 0]
  <2>1. G[1] = 0 /\ G[0 + 1] = 0 /\ 1 .. 0 = {}
    OBVIOUS
  <2> HIDE DEF G
  <2>. QED
    BY <2>1 DEF Asks
<1>2. Delivers(tp, p, from, to, 0)
  <2>1. Delivers(tp, p, from, from, 0) /\ 0 \in Nat /\ from <= from
    BY NothingIsDelivered
  <2>. QED
    BY <2>1, NothingIsAdded
<1>3. Portions(l, p, 0) = {}
  BY DEF Portions
<1>4. 0 <= 0 * Unit
  BY RecipeAssumption
<1>. QED
  BY <1>1, <1>2, <1>3, <1>4 DEF Dosed

\* Another pump's component, or one in a later line, leaves a dose as it is.
LEMMA DoseStays ==
    ASSUME NEW tp, NEW r, NEW l, NEW p, NEW k, NEW from \in Nat, NEW to \in Nat,
           Dosed(tp, l, p, k, from, to),
           \A t \in from .. to - 1 : FlowIn(r, p, t) = FlowIn(tp, p, t)
    PROVE  Dosed(r, l, p, k, from, to)
BY SameDelivery DEF Dosed

LEMMA Distribute ==
    ASSUME NEW x \in Nat, NEW y \in Nat, NEW z \in Nat
    PROVE  (x + y) * z = x * z + y * z /\ x * z \in Nat /\ y * z \in Nat
OBVIOUS

\* Doses add up, and what is missing of them.
LEMMA AddDose ==
    ASSUME NEW v \in Nat, NEW d \in Nat, NEW a \in Nat, NEW b \in Nat, NEW u \in Nat,
           NEW n \in Nat, NEW m \in Nat,
           v <= a * u, a * u <= v + n * m, d <= b * u, b * u < d + m
    PROVE  v + d <= (a + b) * u /\ (a + b) * u < (v + d) + (n + 1) * m
<1> DEFINE x == a * u
           y == b * u
           z == n * m
<1>1. (a + b) * u = x + y /\ x \in Nat /\ y \in Nat
  BY Distribute
<1>2. (n + 1) * m = z + 1 * m /\ z \in Nat /\ 1 * m = m
  BY Distribute
<1>3. v <= x /\ x <= v + z /\ d <= y /\ y < d + m
  OBVIOUS
<1> HIDE DEF x, y, z
<1>4. v + d <= x + y /\ x + y < (v + d) + (z + m)
  BY <1>1, <1>2, <1>3
<1>. QED
  BY <1>1, <1>2, <1>4

LEMMA ComponentKeepsOwnDose ==
    ASSUME FixedPumpsOnce, FlowsAreWhole, OrderInv, DosesInv, Component,
           OneAtATime(line, line.components[next].pump)
    PROVE  Dosed(timeprogram', line, line.components[next].pump, next, start, end')
<1> DEFINE c == line.components[next]
           p == c.pump
           k == next - 1
           n == Cardinality(Portions(line, p, k))
<1>1. PICK to, flow : Writes(c, to, flow)
  BY ComponentEffect DEF OrderInv
<1>2. /\ p \in Pumps /\ c.amount \in Nat /\ MaxFlow[p] \in Nat \ {0}
      /\ next \in 1 .. Len(line.components) /\ k \in Nat /\ k + 1 = next
      /\ end' \in Nat /\ Unit \in Nat
  <2>1. /\ p \in Pumps /\ c.amount \in Nat /\ next \in 1 .. Len(line.components) /\ end' \in Nat
        /\ Len(line.components) \in Nat
    BY ComponentEffect, LineParts DEF OrderInv, Inv, NatTypeOK
  <2>2. MaxFlow[p] \in Nat \ {0} /\ Unit \in Nat
    BY <2>1, FlowsArePositive, RecipeAssumption
  <2> HIDE DEF c
  <2>3. k \in Nat /\ k + 1 = next
    BY <2>1
  <2>. QED
    BY <2>1, <2>2, <2>3
<1>3. /\ phase = "components" /\ line \in NaturalLines /\ start \in Nat /\ time \in Nat /\ end \in Nat
      /\ start <= time /\ time <= end /\ DOMAIN timeprogram \in SUBSET Nat
  BY DEF Component, OrderInv, Inv, NatTypeOK, AnyInv, LineInv, InOrder, Open, IsTimeProgram
<1>4. /\ to \in Nat /\ flow \in Nat /\ time <= to /\ to <= end'
      /\ IsRun(timeprogram', timeprogram, time, to, p, flow)
  BY <1>1, RunEffect, WrittenInTime DEF Writes, OrderInv
<1>5. /\ flow * (to - time) <= c.amount * Unit
      /\ c.amount * Unit < flow * (to - time) + MaxFlow[p]
  BY <1>1, WrittenDose DEF OrderInv
<1>6. PICK v \in Nat, a \in Nat :
         /\ Delivers(timeprogram, p, start, end, v) /\ Asks(line, p, k, a)
         /\ v <= a * Unit
         /\ IF Portions(line, p, k) = {} THEN a = 0
            ELSE a * Unit < v + n * MaxFlow[p]
  BY <1>2, <1>3 DEF DosesInv, Dosed
<1> HIDE DEF c, k
<1>7. /\ Delivers(timeprogram', p, start, time, v)
      /\ \A u : Commands(timeprogram, u, p) => u <= time
  <2>1. CASE line.timing = "sequential"
    <3>1. time = end
      BY <1>3, <2>1 DEF OrderInv, Inv, AnyInv, LineInv, InOrder
    <3>2. \A u : Commands(timeprogram, u, p) => u <= time
      BY <1>3, <3>1 DEF OrderInv, EntriesInv, Commands
    <3>3. \A t \in start .. time - 1 : FlowIn(timeprogram', p, t) = FlowIn(timeprogram, p, t)
      BY <1>3, <1>4, RunFlow
    <3>. QED
      BY <1>3, <1>6, <3>1, <3>2, <3>3, SameDelivery
  <2>2. CASE line.timing # "sequential"
    <3>1. time = start
      BY <1>3, <2>2 DEF OrderInv, Inv, AnyInv, LineInv, InOrder, Open
    <3>2. Portions(line, p, k) = {}
      <4> SUFFICES ASSUME NEW j \in 1 .. k, line.components[j].pump = p PROVE FALSE
        BY DEF Portions
      <4>1. j \in 1 .. Len(line.components) /\ j # next
        BY <1>2
      <4>. QED
        BY <1>2, <1>3, <2>2, <4>1, OnlyComponent DEF c
    <3>3. p \notin PumpsDone
      BY <3>2 DEF PumpsDone, Portions, k
    <3>4. \A u : Commands(timeprogram, u, p) => u \in Nat /\ u < start
      BY <1>3, <3>3 DEF DosesInv, Open, Commands
    <3>5. v = 0
      <4>1. a * Unit = 0
        BY <1>2, <1>6, <3>2
      <4>. QED
        BY <1>6, <4>1
    <3>. QED
      BY <1>3, <3>1, <3>4, <3>5, NothingIsDelivered
  <2>. QED
    BY <2>1, <2>2
<1>8. \A t \in Nat : t >= time => FlowIn(timeprogram', p, t) = IF t < to THEN flow ELSE Off
  BY <1>3, <1>4, <1>7, RunFlow
<1> DEFINE d == flow * (to - time)
<1>9. d \in Nat
  BY <1>3, <1>4
<1>10. Delivers(timeprogram', p, start, end', v + d)
  <2>1. \A t \in time .. to - 1 : FlowIn(timeprogram', p, t) = flow
    BY <1>3, <1>4, <1>8
  <2>2. start <= to
    BY <1>3, <1>4
  <2>3. Delivers(timeprogram', p, start, to, v + d)
    BY <1>3, <1>4, <1>7, <2>1, SteadyDelivery
  <2>4. \A t \in to .. end' - 1 : FlowIn(timeprogram', p, t) = Off
    BY <1>2, <1>3, <1>4, <1>8, SMTT(60)
  <2> DEFINE e == v + d
  <2>5. e \in Nat /\ Delivers(timeprogram', p, start, to, e)
    BY <1>9, <2>3
  <2> HIDE DEF d, e
  <2>6. Delivers(timeprogram', p, start, end', e)
    BY <1>2, <1>3, <1>4, <2>2, <2>4, <2>5, NothingIsAdded
  <2>. QED
    BY <2>6 DEF e
<1>11. /\ Asks(line, p, next, a + c.amount)
       /\ IsFiniteSet(Portions(line, p, k)) /\ n \in Nat
       /\ Cardinality(Portions(line, p, next)) = n + 1 /\ Portions(line, p, next) # {}
  <2>1. /\ Asks(line, p, k + 1, a + c.amount)
        /\ IsFiniteSet(Portions(line, p, k)) /\ n \in Nat
        /\ Cardinality(Portions(line, p, k + 1)) = n + 1
    BY <1>2, <1>6, NextPortion DEF c
  <2>2. next \in Portions(line, p, next)
    BY <1>2 DEF Portions, c
  <2>. QED
    BY <1>2, <2>1, <2>2
<1>12. v + d <= (a + c.amount) * Unit
       /\ (a + c.amount) * Unit < (v + d) + (n + 1) * MaxFlow[p]
  <2>1. a * Unit <= v + n * MaxFlow[p]
    <3>1. n * MaxFlow[p] \in Nat /\ a * Unit \in Nat
      BY <1>2, <1>11, Distribute
    <3>2. CASE Portions(line, p, k) = {}
      <4>1. a * Unit = 0
        BY <1>2, <1>6, <3>2
      <4>. QED
        BY <1>6, <3>1, <4>1
    <3>3. CASE Portions(line, p, k) # {}
      BY <1>6, <3>1, <3>3
    <3>. QED
      BY <3>2, <3>3
  <2>2. d <= c.amount * Unit /\ c.amount * Unit < d + MaxFlow[p]
    BY <1>5
  <2>3. v <= a * Unit /\ c.amount \in Nat /\ MaxFlow[p] \in Nat /\ Unit \in Nat /\ n \in Nat
    BY <1>2, <1>6, <1>11
  <2> HIDE DEF d, n
  <2>. QED
    BY <1>9, <2>1, <2>2, <2>3, AddDose
<1>13. v + d \in Nat /\ a + c.amount \in Nat
  BY <1>2, <1>6, <1>9, SMTT(60)
<1> HIDE DEF d, n
<1>14. Dosed(timeprogram', line, p, next, start, end')
  BY <1>10, <1>11, <1>12, <1>13 DEF Dosed
<1>. QED
  BY <1>14 DEF c

LEMMA ComponentKeepsOtherDose ==
    ASSUME FixedPumpsOnce, OrderInv, DosesInv, Component,
           NEW q \in Pumps, q # line.components[next].pump, OneAtATime(line, q)
    PROVE  Dosed(timeprogram', line, q, next, start, end')
<1> DEFINE c == line.components[next]
           k == next - 1
<1>1. PICK to, flow : Writes(c, to, flow)
  BY ComponentEffect DEF OrderInv
<1>2. /\ next \in 1 .. Len(line.components) /\ Len(line.components) \in Nat
      /\ end' \in Nat /\ end <= end'
  BY ComponentEffect, LineParts DEF OrderInv, Inv, NatTypeOK
<1>3. k \in Nat /\ k + 1 = next
  BY <1>2
<1>4. /\ phase = "components" /\ start \in Nat /\ time \in Nat /\ end \in Nat
      /\ start <= time /\ time <= end /\ DOMAIN timeprogram \in SUBSET Nat
      /\ Settles(timeprogram)
  BY InvSettles DEF Component, OrderInv, Inv, NatTypeOK, InOrder, Open, IsTimeProgram
<1>5. /\ to \in Nat /\ time <= to
      /\ IsRun(timeprogram', timeprogram, time, to, c.pump, flow)
  BY <1>1, RunEffect DEF Writes
<1>6. PICK v \in Nat, a \in Nat :
         /\ Delivers(timeprogram, q, start, end, v) /\ Asks(line, q, k, a)
         /\ v <= a * Unit
         /\ IF Portions(line, q, k) = {} THEN a = 0
            ELSE a * Unit < v + Cardinality(Portions(line, q, k)) * MaxFlow[q]
  BY <1>4 DEF DosesInv, Dosed
<1> HIDE DEF c, k
<1>7. \A t \in Nat : FlowIn(timeprogram', q, t) = FlowIn(timeprogram, q, t)
  <2>1. \A x, t : t \in Nat /\ (x # c.pump \/ t < time) =>
           FlowIn(timeprogram', x, t) = FlowIn(timeprogram, x, t)
    BY <1>4, <1>5, RunFlow, SMTT(60)
  <2>. QED
    BY <2>1 DEF c
<1>8. Delivers(timeprogram', q, start, end, v)
  BY <1>4, <1>6, <1>7, SameDelivery
<1>9. Delivers(timeprogram', q, start, end', v)
  <2>1. ASSUME NEW t \in end .. end' - 1 PROVE FlowIn(timeprogram', q, t) = Off
    <3>1. t \in Nat /\ end <= t
      BY <1>2, <1>4
    <3>2. \A u : Commands(timeprogram, u, q) => u <= t
      BY <1>4, <3>1 DEF OrderInv, EntriesInv, Commands
    <3>. QED
      BY <1>4, <1>7, <3>1, <3>2, SettledFlow
  <2>2. start <= end
    BY <1>4
  <2>. QED
    BY <1>2, <1>4, <1>8, <2>1, <2>2, NothingIsAdded
<1>10. Asks(line, q, next, a) /\ Portions(line, q, next) = Portions(line, q, k)
  <2>1. line.components[k + 1].pump # q /\ k \in Nat
    BY <1>3
  <2>2. Asks(line, q, k, a)
    BY <1>6
  <2>3. Asks(line, q, k + 1, a)
    BY <2>1, <2>2, NextPortion
  <2>4. Portions(line, q, k + 1) = Portions(line, q, k)
    BY <2>1, <2>2, NextPortion
  <2>. QED
    BY <1>3, <2>3, <2>4
<1>. QED
  BY <1>6, <1>9, <1>10 DEF Dosed

\* A component.
LEMMA ComponentKeepsDoses ==
    ASSUME FixedPumpsOnce, FlowsAreWhole, OrderInv, DosesInv, Component
    PROVE  DosesInv'
<1> DEFINE c == line.components[next]
<1>1. PICK to, flow : Writes(c, to, flow)
  BY ComponentEffect DEF OrderInv
<1>2. /\ to \in Nat /\ time <= to
      /\ IsRun(timeprogram', timeprogram, time, to, c.pump, flow)
  BY <1>1, RunEffect DEF Writes
<1>3. /\ phase = "components" /\ UNCHANGED <<phase, line, start, compiled>>
      /\ next' = next + 1 /\ next \in 1 .. Len(line.components)
      /\ time \in Nat /\ start \in Nat /\ end \in Nat /\ start <= time
      /\ DOMAIN timeprogram \in SUBSET Nat
      /\ Open /\ Open'
  BY ComponentEffect
  DEF Component, OrderInv, Inv, NatTypeOK, AnyInv, LineInv, InOrder, Open, IsTimeProgram
<1> HIDE DEF c
<1>4. ASSUME NEW i \in DOMAIN compiled, NEW p \in Pumps, OneAtATime(compiled[i].line, p)
      PROVE  Dosed(timeprogram', compiled[i].line, p, Len(compiled[i].line.components),
                   compiled[i].start, compiled[i].end)
  <2>1. /\ compiled[i].end + compiled[i].line.sleep < Following(i)
        /\ Following(i) <= start
    BY <1>3 DEF OrderInv, ApartInv, Base
  <2>2. /\ compiled[i].end \in Nat /\ compiled[i].line.sleep \in Nat
        /\ compiled[i].start \in Nat /\ Following(i) \in Nat
    BY <1>3, CompiledType DEF OrderInv, Inv, Following, Base
  <2>3. compiled[i].end < time
    BY <1>3, <2>1, <2>2
  <2>4. \A t \in compiled[i].start .. compiled[i].end - 1 : t \in Nat /\ t < time
    BY <1>3, <2>2, <2>3
  <2>a. \A x, t : t \in Nat /\ (x # c.pump \/ t < time) =>
           FlowIn(timeprogram', x, t) = FlowIn(timeprogram, x, t)
    <3>1. time \in Nat /\ DOMAIN timeprogram \in SUBSET Nat
      BY <1>3
    <3>. QED
      BY <1>2, <3>1, RunFlow
  <2>5. \A t \in compiled[i].start .. compiled[i].end - 1 :
           FlowIn(timeprogram', p, t) = FlowIn(timeprogram, p, t)
    BY <2>4, <2>a
  <2>6. Dosed(timeprogram, compiled[i].line, p, Len(compiled[i].line.components),
              compiled[i].start, compiled[i].end)
    BY <1>4 DEF DosesInv
  <2>. QED
    BY <2>2, <2>5, <2>6, DoseStays
<1>5. ASSUME NEW t, NEW p, Commands(timeprogram', t, p), t >= start
      PROVE  p \in PumpsDone'
  <2>1. PumpsDone' = PumpsDone \cup {c.pump}
    <3>1. \A i : i \in 1 .. next' - 1 <=> i \in 1 .. next - 1 \/ i = next
      BY <1>3
    <3>. QED
      BY <1>3, <3>1 DEF PumpsDone, c
  <2>2. Commands(timeprogram, t, p) \/ p = c.pump
    BY <1>2, <1>5 DEF IsRun
  <2>3. Commands(timeprogram, t, p) => p \in PumpsDone
    BY <1>3, <1>5 DEF DosesInv
  <2>. QED
    BY <2>1, <2>2, <2>3
<1>6. ASSUME NEW p \in Pumps, OneAtATime(line, p)
      PROVE  Dosed(timeprogram', line, p, next' - 1, start, end')
  <2>1. next' - 1 = next
    BY <1>3
  <2>2. Dosed(timeprogram', line, p, next, start, end')
    BY <1>6, ComponentKeepsOwnDose, ComponentKeepsOtherDose
  <2>. QED
    BY <2>1, <2>2
<1>7. \A i \in DOMAIN compiled : \A p \in Pumps : compiled[i].start <= compiled[i].end
  BY DEF DosesInv
<1>. QED
  BY <1>3, <1>4, <1>5, <1>6, <1>7 DEF DosesInv

\* The steps that begin a line or prepare its components.
LEMMA PreparationKeepsDoses ==
    ASSUME OrderInv, DosesInv,
           \/ \E l \in NaturalLines : BeginLine(l)
           \/ SeparateTooFastIngredients \/ ComputeEnd
    PROVE  DosesInv'
<1>1. CASE \E l \in NaturalLines : BeginLine(l)
  <2>1. PICK l \in NaturalLines : BeginLine(l)
    BY <1>1
  <2>2. /\ phase = "lines"
        /\ line' = l /\ start' = time /\ end' = time /\ next' = 1
        /\ UNCHANGED <<timeprogram, time, compiled>>
    BY <2>1 DEF BeginLine
  <2>3. time \in Nat /\ DOMAIN timeprogram \in SUBSET Nat
    BY <2>2 DEF OrderInv, Inv, NatTypeOK, IsTimeProgram
  <2>4. \A t, p : ~ (Commands(timeprogram, t, p) /\ t >= time)
    BY <2>2, <2>3 DEF OrderInv, EntriesInv, Commands
  <2>5. \A p : Dosed(timeprogram, l, p, 0, time, time)
    <3>1. time <= time /\ time .. time - 1 = {}
      BY <2>3
    <3>. QED
      BY <2>3, <3>1, NothingIsAsked
  <2>6. next' - 1 = 0
    BY <2>2
  <2>. QED
    BY <2>2, <2>4, <2>5, <2>6 DEF DosesInv
<1>2. CASE SeparateTooFastIngredients
  <2>1. UNCHANGED <<timeprogram, time, phase, line, start, end, next, compiled>>
    BY <1>2 DEF SeparateTooFastIngredients
  <2>2. (Open <=> Open') /\ PumpsDone' = PumpsDone
    BY <2>1 DEF Open, PumpsDone
  <2>. QED
    BY <2>1, <2>2 DEF DosesInv
<1>3. CASE ComputeEnd
  <2>1. /\ UNCHANGED <<timeprogram, time, line, start, next, compiled>>
        /\ phase = "separate" /\ next = 1 /\ next' = 1
        /\ time = start /\ start \in Nat /\ DOMAIN timeprogram \in SUBSET Nat
        /\ Settles(timeprogram) /\ phase' = "components"
    BY <1>3, InvSettles
    DEF ComputeEnd, OrderInv, Inv, AnyInv, LineInv, NatTypeOK, Open, IsTimeProgram
  <2>2. end' \in Nat /\ start <= end'
    BY <1>3, <2>1, SeparateKeepsInv DEF OrderInv, Inv, NatTypeOK, AnyInv, LineInv, InOrder, Open
  <2>3. Open /\ Open' /\ PumpsDone = {} /\ PumpsDone' = {}
    BY <2>1 DEF Open, PumpsDone
  <2>4. \A t, p : ~ (Commands(timeprogram, t, p) /\ t >= start)
    BY <2>3 DEF DosesInv
  <2>5. ASSUME NEW p PROVE Dosed(timeprogram, line, p, 0, start, end')
    <3>1. ASSUME NEW t \in start .. end' - 1 PROVE FlowIn(timeprogram, p, t) = Off
      <4>1. t \in Nat /\ start <= t
        BY <2>1, <2>2
      <4>2. \A u : Commands(timeprogram, u, p) => u <= t
        <5>1. ASSUME NEW u, Commands(timeprogram, u, p) PROVE u <= t
          <6>1. u \in Nat /\ ~ (u >= start)
            BY <2>1, <2>4, <5>1 DEF Commands
          <6>. QED
            BY <2>1, <4>1, <6>1
        <5>. QED
          BY <5>1
      <4>. QED
        BY <2>1, <4>1, <4>2, SettledFlow
    <3>. QED
      BY <2>1, <2>2, <3>1, NothingIsAsked
  <2>6. next' - 1 = 0
    BY <2>1
  <2>. QED
    BY <2>1, <2>3, <2>4, <2>5, <2>6 DEF DosesInv
<1>. QED
  BY <1>1, <1>2, <1>3

\* The end of a line: all of its components are written.
LEMMA EndLineKeepsDoses ==
    ASSUME OrderInv, DosesInv, EndLine
    PROVE  DosesInv'
<1> DEFINE entry == [line |-> line, start |-> start, end |-> end]
           n == Len(compiled)
<1>1. /\ phase = "components" /\ next > Len(line.components)
      /\ compiled' = Append(compiled, entry)
      /\ phase' = "lines" /\ UNCHANGED <<timeprogram, start, end>>
  BY DEF EndLine
<1>2. /\ start \in Nat /\ time \in Nat /\ end \in Nat /\ start <= time /\ time <= end
      /\ Len(line.components) \in Nat /\ next \in 1 .. Len(line.components) + 1
  BY <1>1, LineParts DEF OrderInv, Inv, NatTypeOK, AnyInv, LineInv, InOrder, Open
<1>3. start <= end /\ next - 1 = Len(line.components)
  BY <1>1, <1>2
<1>4. /\ n \in Nat /\ DOMAIN compiled = 1 .. n
      /\ DOMAIN compiled' = 1 .. n + 1
      /\ \A i \in 1 .. n : compiled'[i] = compiled[i]
      /\ compiled'[n + 1] = entry
  BY <1>1, CompiledType DEF OrderInv, Inv, NatTypeOK
<1>5. entry.line = line /\ entry.start = start /\ entry.end = end
  OBVIOUS
<1> HIDE DEF entry
<1>6. ASSUME NEW i \in 1 .. n + 1, NEW p \in Pumps
      PROVE  LET l == (compiled'[i]).line
             IN  /\ (compiled'[i]).start <= (compiled'[i]).end
                 /\ OneAtATime(l, p) =>
                       Dosed(timeprogram', l, p, Len(l.components),
                             (compiled'[i]).start, (compiled'[i]).end)
  <2>1. CASE i = n + 1
    <3>1. OneAtATime(line, p) => Dosed(timeprogram, line, p, Len(line.components), start, end)
      BY <1>1, <1>3 DEF DosesInv
    <3>. QED
      BY <1>1, <1>3, <1>4, <1>5, <2>1, <3>1
  <2>2. CASE i \in 1 .. n
    BY <1>1, <1>4, <2>2 DEF DosesInv
  <2>. QED
    BY <1>4, <2>1, <2>2
<1>7. ~ Open' /\ phase' # "components"
  BY <1>1 DEF Open
<1>. QED
  BY <1>4, <1>6, <1>7 DEF DosesInv

LEMMA EndingsKeepDoses ==
    ASSUME DosesInv, Fail \/ Finish \/ Ended \/ UNCHANGED vars
    PROVE  DosesInv'
<1>1. CASE Fail \/ Finish
  <2>1. phase' \in {"failed", "done"} /\ UNCHANGED <<timeprogram, compiled>>
    BY <1>1 DEF Fail, Finish
  <2>. QED
    BY <2>1 DEF DosesInv, Open
<1>2. CASE Ended \/ UNCHANGED vars
  <2>1. UNCHANGED <<timeprogram, phase, line, start, end, next, compiled>>
    BY <1>2 DEF Ended, vars
  <2>2. (Open <=> Open') /\ PumpsDone' = PumpsDone
    BY <2>1 DEF Open, PumpsDone
  <2>. QED
    BY <2>1, <2>2 DEF DosesInv
<1>. QED
  BY <1>1, <1>2

LEMMA DosesInvariance ==
    ASSUME FixedPumpsOnce, FlowsAreWhole
    PROVE  Spec => [](NothingNegative => OrderInv /\ DosesInv)
<1>1. Init => OrderInv /\ DosesInv
  <2>1. Init => DosesInv
    BY DEF Init, DosesInv, Open
  <2>. QED
    BY <2>1, InitOrderInv
<1>2. AnyInv /\ (NothingNegative => OrderInv /\ DosesInv) /\ [Next]_vars
         => (NothingNegative => OrderInv /\ DosesInv)'
  <2> SUFFICES ASSUME AnyInv, NothingNegative => OrderInv /\ DosesInv, [Next]_vars,
                      NothingNegative'
               PROVE  OrderInv' /\ DosesInv'
    OBVIOUS
  <2>1. OrderInv /\ DosesInv /\ [NatNext]_vars
    BY NothingNegativeYet
  <2>2. OrderInv'
    BY <2>1, NextOrderInv
  <2>3. DosesInv'
    BY <2>1, ComponentKeepsDoses, PreparationKeepsDoses, EndLineKeepsDoses, EndingsKeepDoses
    DEF NatNext
  <2>. QED
    BY <2>2, <2>3
<1>. QED
  BY <1>1, <1>2, AnyInvariance, PTL DEF Spec

LEMMA DosesMeanRight == (NothingNegative => OrderInv /\ DosesInv) => DosesAreRight
<1> SUFFICES ASSUME OrderInv, DosesInv, NEW i \in DOMAIN compiled, NEW p \in Pumps,
                    OneAtATime(compiled[i].line, p)
             PROVE  LET l == compiled[i].line
                        n == Cardinality(Components(l, p))
                        volume == Volume(p, compiled[i].start, compiled[i].end)
                    IN  volume <= Wanted(l, p) /\ (n > 0 => Wanted(l, p) - n * MaxFlow[p] < volume)
  BY DEF DosesAreRight, OneAtATime
<1> DEFINE l == compiled[i].line
           from == compiled[i].start
           to == compiled[i].end
           n == Cardinality(Components(l, p))
<1>1. l \in NaturalLines /\ from \in Nat /\ to \in Nat
  BY CompiledType DEF OrderInv, Inv
<1>2. IsTimeProgram(timeprogram, Nat, Pumps, Nat)
  BY DEF OrderInv, Inv, NatTypeOK
<1>3. from <= to
  BY DEF DosesInv
<1>4. PICK v \in Nat, a \in Nat :
         /\ Delivers(timeprogram, p, from, to, v) /\ Asks(l, p, Len(l.components), a)
         /\ v <= a * Unit
         /\ IF Portions(l, p, Len(l.components)) = {} THEN a = 0
            ELSE a * Unit < v + Cardinality(Portions(l, p, Len(l.components))) * MaxFlow[p]
  BY DEF DosesInv, Dosed
<1> HIDE DEF l, from, to
<1>5. Volume(p, from, to) = v
  <2>1. \A t \in Nat : FlowAt(p, t) \in Nat
    BY <1>2, FlowType DEF FlowAt
  <2>. QED
    BY <1>1, <1>3, <1>4, <2>1, VolumeIsDelivered
<1>6. Wanted(l, p) = a * Unit
  BY <1>1, <1>4, WantedIsAsked
<1>7. Portions(l, p, Len(l.components)) = Components(l, p)
  BY <1>1, PortionsAreComponents
<1>8. MaxFlow[p] \in Nat /\ Unit \in Nat /\ a * Unit \in Nat
  <2>1. MaxFlow[p] \in Nat /\ Unit \in Nat
    BY RecipeAssumption
  <2>. QED
    BY <2>1, Distribute
<1>9. ASSUME n > 0 PROVE Wanted(l, p) - n * MaxFlow[p] < v
  <2>1. Components(l, p) # {} /\ n \in Nat
    <3>1. Len(l.components) \in Nat /\ DOMAIN l.components = 1 .. Len(l.components)
      BY <1>1, NaturalParts
    <3>2. IsFiniteSet(1 .. Len(l.components))
      BY <3>1, FS_Interval
    <3>3. Components(l, p) \in SUBSET (1 .. Len(l.components))
      BY <3>1 DEF Components
    <3>4. IsFiniteSet(Components(l, p))
      BY <3>2, <3>3, FS_Subset
    <3>. QED
      BY <1>9, <3>4, FS_CardinalityType, FS_EmptySet
  <2>2. a * Unit < v + n * MaxFlow[p]
    BY <1>4, <1>7, <2>1
  <2>3. n * MaxFlow[p] \in Nat
    BY <1>8, <2>1, Distribute
  <2> HIDE DEF n
  <2>. QED
    BY <1>6, <1>8, <2>2, <2>3
<1>. QED
  BY <1>4, <1>5, <1>6, <1>9 DEF l, from, to

\* Every line of every recipe dispenses the amounts it asks for, short of less than a
\* millisecond's flow per component, with the same provisos and as long as the flows of
\* the interpolated lines are whole numbers of parts.
THEOREM DosesAreKept == FixedPumpsOnce /\ FlowsAreWhole /\ Spec => []DosesAreRight
<1> SUFFICES ASSUME FixedPumpsOnce, FlowsAreWhole PROVE Spec => []DosesAreRight
  OBVIOUS
<1>. QED
  BY DosesInvariance, DosesMeanRight, PTL
=============================================================================

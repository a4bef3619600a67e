---------------------------- MODULE PlannerProofs ----------------------------
(***************************************************************************)
(* Lemmas about the planner, for any number of credentials, evidence and   *)
(* options: how a tier is ordered, which priorities its clusters get, what *)
(* becomes of an item, and which plans agree.                              *)
(***************************************************************************)
EXTENDS Planner, EvidenceProofs

-----------------------------------------------------------------------------
(***************************************************************************)
(* Urgencies are fractions with a positive denominator.                    *)
(***************************************************************************)
Fraction(u) == u.num \in Int /\ u.den \in Nat \ {0}

\* Multiplying by a positive number keeps the order, both ways.
LEMMA Scaled ==
    ASSUME NEW x \in Int, NEW y \in Int, NEW z \in Nat \ {0}
    PROVE  (x > y <=> x * z > y * z) /\ (x >= y <=> x * z >= y * z)
<1>1. x * z - y * z = (x - y) * z /\ (x - y) \in Int
  OBVIOUS
<1>2. \A d \in Int, p \in Nat \ {0} : (d > 0 => d * p > 0) /\ (d <= 0 => d * p <= 0)
  OBVIOUS
<1>3. \A d \in Int, p \in Nat \ {0} : (d >= 0 => d * p >= 0) /\ (d < 0 => d * p < 0)
  OBVIOUS
<1>4. x * z \in Int /\ y * z \in Int
  OBVIOUS
<1> DEFINE xz == x * z
           yz == y * z
           dz == (x - y) * z
<1>5. xz \in Int /\ yz \in Int /\ dz \in Int /\ xz - yz = dz
  BY <1>1, <1>4
<1>6. /\ (x - y > 0 => dz > 0) /\ (x - y <= 0 => dz <= 0)
      /\ (x - y >= 0 => dz >= 0) /\ (x - y < 0 => dz < 0)
  BY <1>1, <1>2, <1>3
<1> HIDE DEF xz, yz, dz
<1>7. (x > y <=> xz > yz) /\ (x >= y <=> xz >= yz)
  BY <1>5, <1>6
<1>8. QED  BY <1>7 DEF xz, yz

\* Products of three factors, in any order.
LEMMA Regrouped ==
    ASSUME NEW x \in Int, NEW y \in Int, NEW z \in Int
    PROVE  /\ (x * y) * z \in Int
           /\ (x * y) * z = (x * z) * y
           /\ x * y \in Int
  OBVIOUS

\* What is not less urgent than something that is not less urgent than a third
\* is not less urgent than the third.
LEMMA UrgencyTransitive ==
    ASSUME NEW u, NEW v, NEW w, Fraction(u), Fraction(v), Fraction(w),
           ~MoreUrgent(v, u), ~MoreUrgent(w, v)
    PROVE  ~MoreUrgent(w, u)
<1> DEFINE uv == u.num * v.den
           vu == v.num * u.den
           vw == v.num * w.den
           wv == w.num * v.den
           uw == u.num * w.den
           wu == w.num * u.den
<1>1. /\ u.num \in Int /\ v.num \in Int /\ w.num \in Int
      /\ u.den \in Nat \ {0} /\ v.den \in Nat \ {0} /\ w.den \in Nat \ {0}
  BY DEF Fraction
<1>2. uv \in Int /\ vu \in Int /\ vw \in Int /\ wv \in Int /\ uw \in Int /\ wu \in Int
  BY <1>1
<1>3. uv >= vu /\ vw >= wv
  BY <1>2 DEF MoreUrgent
<1>4. /\ uv * w.den = uw * v.den
      /\ vu * w.den = vw * u.den
      /\ wv * u.den = wu * v.den
  BY <1>1, Regrouped
<1> HIDE DEF uv, vu, vw, wv, uw, wu
<1>5. uv * w.den >= vu * w.den /\ vw * u.den >= wv * u.den
  BY <1>1, <1>2, <1>3, Scaled
<1> DEFINE a == uv * w.den
           b == vu * w.den
           c == wv * u.den
<1>6. a \in Int /\ b \in Int /\ c \in Int
  BY <1>1, <1>2
<1>7. a >= b /\ b >= c
  BY <1>4, <1>5
<1> HIDE DEF a, b, c
<1>8. a >= c
  BY <1>6, <1>7
<1>9. uw * v.den >= wu * v.den
  BY <1>4, <1>8 DEF a, c
<1>10. uw >= wu
  BY <1>1, <1>2, <1>9, Scaled
<1>11. QED  BY <1>2, <1>10 DEF MoreUrgent, uw, wu

\* Two urgencies are never both above each other.
LEMMA UrgencyAsymmetric ==
    ASSUME NEW u, NEW v, Fraction(u), Fraction(v), MoreUrgent(u, v)
    PROVE  ~MoreUrgent(v, u)
<1>1. u.num * v.den \in Int /\ v.num * u.den \in Int
  BY DEF Fraction
<1>2. QED  BY <1>1 DEF MoreUrgent

\* What is apart from something less urgent is apart from all that is less
\* urgent than that.
LEMMA ApartFromAbove ==
    ASSUME NEW m, NEW u, NEW v, NEW tolerance \in Nat, Fraction(m), Fraction(u), Fraction(v),
           ~MoreUrgent(u, m), MoreUrgent(u, v), Apart(u, v, tolerance)
    PROVE  Apart(m, v, tolerance)
<1> DEFINE mv == m.num * v.den
           vm == v.num * m.den
           uv == u.num * v.den
           vu == v.num * u.den
           mu == m.num * u.den
           um == u.num * m.den
           tuv == tolerance * u.den * v.den
           tmv == tolerance * m.den * v.den
<1>1. /\ u.num \in Int /\ v.num \in Int /\ m.num \in Int
      /\ u.den \in Nat \ {0} /\ v.den \in Nat \ {0} /\ m.den \in Nat \ {0}
  BY DEF Fraction
<1>2. /\ mv \in Int /\ vm \in Int /\ uv \in Int /\ vu \in Int /\ mu \in Int /\ um \in Int
      /\ tuv \in Nat /\ tmv \in Nat
  <2>1. tolerance * u.den \in Nat /\ tolerance * m.den \in Nat
    BY <1>1
  <2>2. QED  BY <1>1, <2>1
<1>3. /\ um * v.den = uv * m.den
      /\ mu * v.den = mv * u.den
      /\ vu * m.den = vm * u.den
  BY <1>1, Regrouped
<1>4. tuv * m.den = tmv * u.den
  <2>1. tolerance * u.den \in Int /\ tolerance * m.den \in Int
    BY <1>1
  <2>2. tuv * m.den = ((tolerance * u.den) * m.den) * v.den
    BY <1>1, <2>1, Regrouped
  <2>3. (tolerance * u.den) * m.den = (tolerance * m.den) * u.den
    BY <1>1, Regrouped
  <2>4. ((tolerance * m.den) * u.den) * v.den = tmv * u.den
    BY <1>1, <2>1, Regrouped
  <2>5. QED  BY <2>2, <2>3, <2>4
<1>5. mu >= um /\ uv > vu /\ (uv - vu > tuv \/ vu - uv > tuv)
  BY <1>2 DEF MoreUrgent, Apart
<1>6. (mv - vm > tmv) => Apart(m, v, tolerance)
  BY DEF Apart
<1> HIDE DEF mv, vm, uv, vu, mu, um, tuv, tmv
<1>7. uv > vu + tuv /\ vu + tuv \in Int
  BY <1>2, <1>5
<1>8. mu * v.den >= um * v.den /\ uv * m.den > (vu + tuv) * m.den
  BY <1>1, <1>2, <1>5, <1>7, Scaled
<1>9. \A p, q, r \in Int : (p + q) * r = p * r + q * r
  OBVIOUS
<1>10. (vu + tuv) * m.den = (vm + tmv) * u.den /\ vm + tmv \in Int
  <2>1. (vu + tuv) * m.den = vu * m.den + tuv * m.den
    BY <1>1, <1>2, <1>9
  <2>2. (vm + tmv) * u.den = vm * u.den + tmv * u.den
    BY <1>1, <1>2, <1>9
  <2>3. QED  BY <1>2, <1>3, <1>4, <2>1, <2>2
<1> DEFINE a == mv * u.den
           b == um * v.den
           c == (vm + tmv) * u.den
<1>11. a \in Int /\ b \in Int /\ c \in Int
  BY <1>1, <1>2, <1>10
<1>12. a >= b /\ b > c
  BY <1>3, <1>8, <1>10
<1> HIDE DEF a, b, c
<1>13. a > c
  BY <1>11, <1>12
<1>14. mv > vm + tmv
  BY <1>1, <1>2, <1>10, <1>13, Scaled DEF a, c
<1>15. QED  BY <1>2, <1>6, <1>14

-----------------------------------------------------------------------------
(***************************************************************************)
(* The order of a tier.                                                    *)
(***************************************************************************)
StandingOK(s) == s.cred \in Int /\ s.t5 \in Int /\ Fraction(s.urgency)

\* A tier has at most one standing of a credential.
TierOK(tier) ==
    /\ IsFiniteSet(tier)
    /\ \A s \in tier : StandingOK(s)
    /\ \A s, t \in tier : s.cred = t.cred => s = t

\* Nothing comes before itself, and of two credentials one comes first.
LEMMA BeforeTotal ==
    ASSUME NEW s, NEW t, StandingOK(s), StandingOK(t)
    PROVE  /\ Before(s, t) => ~Before(t, s)
           /\ ~Before(s, s)
           /\ s.cred # t.cred => Before(s, t) \/ Before(t, s)
           /\ MoreUrgent(s.urgency, t.urgency) => Before(s, t)
           /\ Before(s, t) => ~MoreUrgent(t.urgency, s.urgency)
<1>1. /\ MoreUrgent(s.urgency, t.urgency) => ~MoreUrgent(t.urgency, s.urgency)
      /\ ~MoreUrgent(s.urgency, s.urgency)
  BY UrgencyAsymmetric DEF StandingOK
<1>2. s.cred \in Int /\ t.cred \in Int /\ s.t5 \in Int /\ t.t5 \in Int
  BY DEF StandingOK
<1>3. QED  BY <1>1, <1>2 DEF Before

\* It is transitive.
LEMMA BeforeTransitive ==
    ASSUME NEW s, NEW t, NEW v, StandingOK(s), StandingOK(t), StandingOK(v),
           Before(s, t), Before(t, v)
    PROVE  Before(s, v)
<1> DEFINE su == s.urgency
           tu == t.urgency
           vu == v.urgency
<1>1. Fraction(su) /\ Fraction(tu) /\ Fraction(vu)
  BY DEF StandingOK
<1>2. ~MoreUrgent(tu, su) /\ ~MoreUrgent(vu, tu)
  BY BeforeTotal
<1>3. ~MoreUrgent(vu, su)
  BY <1>1, <1>2, UrgencyTransitive
<1>4. ~MoreUrgent(su, vu) => ~MoreUrgent(su, tu) /\ ~MoreUrgent(tu, vu)
  <2>1. ~MoreUrgent(su, vu) /\ ~MoreUrgent(vu, tu) => ~MoreUrgent(su, tu)
    BY <1>1, UrgencyTransitive
  <2>2. ~MoreUrgent(tu, su) /\ ~MoreUrgent(su, vu) => ~MoreUrgent(tu, vu)
    BY <1>1, UrgencyTransitive
  <2>3. QED  BY <1>2, <2>1, <2>2
<1> HIDE DEF su, tu, vu
<1>5. CASE MoreUrgent(su, vu)
  BY <1>5 DEF Before, su, vu
<1>6. CASE ~MoreUrgent(su, vu)
  <2>1. /\ s.t5 < t.t5 \/ (s.t5 = t.t5 /\ s.cred < t.cred)
        /\ t.t5 < v.t5 \/ (t.t5 = v.t5 /\ t.cred < v.cred)
    BY <1>4, <1>6 DEF Before, su, tu, vu
  <2>2. /\ s.cred \in Int /\ t.cred \in Int /\ v.cred \in Int
        /\ s.t5 \in Int /\ t.t5 \in Int /\ v.t5 \in Int
    BY DEF StandingOK
  <2>3. s.t5 < v.t5 \/ (s.t5 = v.t5 /\ s.cred < v.cred)
    BY <2>1, <2>2
  <2>4. QED  BY <1>3, <2>3 DEF Before, su, vu
<1>7. QED  BY <1>5, <1>6

\* Places are numbers up to the size of the tier, and follow the order.
LEMMA PlaceOrder ==
    ASSUME NEW tier, TierOK(tier), NEW s \in tier
    PROVE  /\ Cardinality(tier) \in Nat
           /\ Place(tier, s) \in 1 .. Cardinality(tier)
           /\ \A t \in tier : Before(s, t) => Place(tier, s) < Place(tier, t)
<1> DEFINE above(x) == {t \in tier : Before(t, x)}
<1>1. IsFiniteSet(tier) /\ Cardinality(tier) \in Nat
  BY FS_CardinalityType DEF TierOK
<1>2. ASSUME NEW x \in tier
      PROVE  /\ IsFiniteSet(above(x)) /\ Cardinality(above(x)) \in Nat
             /\ Cardinality(above(x)) < Cardinality(tier)
             /\ Place(tier, x) = Cardinality(above(x)) + 1
  <2>1. above(x) \in SUBSET tier /\ x \notin above(x)
    BY BeforeTotal DEF TierOK
  <2>2. IsFiniteSet(above(x)) /\ Cardinality(above(x)) <= Cardinality(tier)
    BY <1>1, <2>1, FS_Subset
  <2>3. Cardinality(above(x)) # Cardinality(tier)
    BY <1>1, <2>1, FS_Subset
  <2>4. Place(tier, x) = Cardinality(above(x)) + 1
    BY DEF Place
  <2> HIDE DEF above
  <2>5. Cardinality(above(x)) \in Nat
    BY <2>2, FS_CardinalityType
  <2>6. QED  BY <1>1, <2>2, <2>3, <2>4, <2>5
<1>3. ASSUME NEW t \in tier, Before(s, t)
      PROVE  Place(tier, s) < Place(tier, t)
  <2>1. above(s) \subseteq above(t)
    BY <1>3, BeforeTransitive DEF TierOK
  <2>2. s \in above(t) /\ s \notin above(s)
    BY <1>3, BeforeTotal DEF TierOK
  <2>3. /\ IsFiniteSet(above(t)) /\ Cardinality(above(t)) \in Nat
        /\ Cardinality(above(s)) \in Nat
        /\ Place(tier, s) = Cardinality(above(s)) + 1 /\ Place(tier, t) = Cardinality(above(t)) + 1
    BY <1>2
  <2> HIDE DEF above
  <2>4. Cardinality(above(s)) <= Cardinality(above(t))
    BY <2>1, <2>3, FS_Subset
  <2>5. Cardinality(above(s)) # Cardinality(above(t))
    BY <2>1, <2>2, <2>3, FS_Subset
  <2>6. QED  BY <2>3, <2>4, <2>5
<1>4. Place(tier, s) \in 1 .. Cardinality(tier)
  <2>1. /\ Cardinality(above(s)) \in Nat
        /\ Cardinality(above(s)) < Cardinality(tier)
        /\ Place(tier, s) = Cardinality(above(s)) + 1
    BY <1>2
  <2> HIDE DEF above
  <2>2. QED  BY <1>1, <2>1
<1>5. QED  BY <1>1, <1>3, <1>4

\* Each place is taken by one standing.
LEMMA PlacesTaken ==
    ASSUME NEW tier, TierOK(tier), NEW n \in 1 .. Cardinality(tier)
    PROVE  AtPlace(tier, n) \in tier /\ Place(tier, AtPlace(tier, n)) = n
<1> DEFINE size == Cardinality(tier)
           place == [s \in tier |-> Place(tier, s)]
<1>1. IsFiniteSet(tier) /\ size \in Nat /\ \A s \in tier : Place(tier, s) \in 1 .. size
  BY PlaceOrder, FS_CardinalityType DEF TierOK
<1>2. ASSUME NEW s \in tier, NEW t \in tier, Place(tier, s) = Place(tier, t)
      PROVE  s = t
  <2>1. Place(tier, s) \in Nat /\ Place(tier, t) \in Nat
    BY <1>1
  <2>2. ~Before(s, t) /\ ~Before(t, s)
    BY <1>2, <2>1, PlaceOrder
  <2>3. s.cred = t.cred
    BY <2>2, BeforeTotal DEF TierOK
  <2>4. QED  BY <2>3 DEF TierOK
<1>3. IsFiniteSet(1 .. size) /\ Cardinality(1 .. size) = size
  BY <1>1, FS_Interval
<1> HIDE DEF size
<1>4. place \in Injection(tier, 1 .. size)
  BY <1>1, <1>2 DEF Injection, IsInjective
<1>5. place \in Surjection(tier, 1 .. size)
  BY <1>3, <1>4, FS_Injection DEF size
<1>6. \E s \in tier : place[s] = n
  BY <1>5 DEF Surjection, size
<1>7. QED  BY <1>6 DEF AtPlace

\* A standing is at its place.
LEMMA AtItsPlace ==
    ASSUME NEW tier, TierOK(tier), NEW s \in tier
    PROVE  AtPlace(tier, Place(tier, s)) = s
<1> DEFINE t == AtPlace(tier, Place(tier, s))
<1>1. Place(tier, s) \in 1 .. Cardinality(tier)
  BY PlaceOrder
<1>2. t \in tier /\ Place(tier, t) = Place(tier, s)
  BY <1>1, PlacesTaken
<1> HIDE DEF t
<1>3. Place(tier, s) \in Nat
  BY <1>1
<1>4. ~Before(s, t) /\ ~Before(t, s)
  BY <1>2, <1>3, PlaceOrder
<1>5. s.cred = t.cred
  BY <1>2, <1>4, BeforeTotal DEF TierOK
<1>6. QED  BY <1>2, <1>5 DEF TierOK, t

\* What is at an earlier place is at least as urgent.
LEMMA EarlierPlace ==
    ASSUME NEW tier, TierOK(tier), NEW s \in tier, NEW t \in tier,
           Place(tier, s) <= Place(tier, t)
    PROVE  ~MoreUrgent(t.urgency, s.urgency)
<1>1. Place(tier, s) \in Nat /\ Place(tier, t) \in Nat
  BY PlaceOrder
<1>2. ~Before(t, s)
  BY <1>1, PlaceOrder
<1>3. QED  BY <1>2, BeforeTotal DEF TierOK

-----------------------------------------------------------------------------
(***************************************************************************)
(* The clusters of a tier, place by place.                                 *)
(***************************************************************************)
First(tier, start) == [priority |-> start, anchor |-> AtPlace(tier, 1).urgency]

Walks(f, tier, start, tolerance, m) ==
    f = [n \in 1 .. m |-> IF n = 1 THEN First(tier, start)
                          ELSE Cluster(f[n - 1], AtPlace(tier, n), tolerance)]

\* The function that the recursion of Clusters describes exists.
LEMMA WalkExists ==
    ASSUME NEW tier, NEW start, NEW tolerance, NEW m \in Nat
    PROVE  \E f : Walks(f, tier, start, tolerance, m)
<1> DEFINE none == {k \in Nat : ~ \E f : Walks(f, tier, start, tolerance, k)}
           at(n) == AtPlace(tier, n)
<1> SUFFICES ASSUME none # {} PROVE FALSE
  OBVIOUS
<1>1. PICK k \in none : \A l \in none : k <= l
  BY LeastNatural
<1>2. CASE k = 0
  <2>1. Walks([n \in 1 .. 0 |-> First(tier, start)], tier, start, tolerance, 0)
    BY DEF Walks
  <2>2. QED  BY <1>1, <1>2, <2>1
<1>3. CASE k # 0
  <2>1. k - 1 \in Nat /\ k \in Nat /\ k - 1 \notin none
    BY <1>1, <1>3
  <2>2. PICK f : Walks(f, tier, start, tolerance, k - 1)
    BY <2>1
  <2> DEFINE last == IF k = 1 THEN First(tier, start) ELSE Cluster(f[k - 1], at(k), tolerance)
             next == [n \in 1 .. k |-> IF n = k THEN last ELSE f[n]]
  <2>3. \A n \in 1 .. k - 1 : next[n] = f[n]
    BY <2>1
  <2>4. \A n \in 1 .. k - 1 :
          f[n] = IF n = 1 THEN First(tier, start) ELSE Cluster(f[n - 1], at(n), tolerance)
    BY <2>2 DEF Walks
  <2>5. ASSUME NEW n \in 1 .. k
        PROVE  next[n] = IF n = 1 THEN First(tier, start)
                         ELSE Cluster(next[n - 1], at(n), tolerance)
    <3>1. n # 1 => n - 1 \in 1 .. k - 1 /\ next[n - 1] = f[n - 1]
      BY <2>1, <2>3
    <3>2. CASE n = k
      BY <2>1, <3>1, <3>2
    <3>3. CASE n # k
      <4>1. n \in 1 .. k - 1
        BY <2>1, <3>3
      <4>2. QED  BY <2>3, <2>4, <3>1, <4>1
    <3>4. QED  BY <3>2, <3>3
  <2>6. Walks(next, tier, start, tolerance, k)
    <3>1. next = [n \in 1 .. k |-> next[n]]
      OBVIOUS
    <3> HIDE DEF next
    <3>2. QED  BY <2>5, <3>1 DEF Walks
  <2>7. QED  BY <1>1, <2>6
<1>4. QED  BY <1>2, <1>3

\* Clusters is that function.
LEMMA ClusterSteps ==
    ASSUME NEW tier, NEW start, NEW tolerance, Cardinality(tier) \in Nat
    PROVE  LET f == Clusters(tier, start, tolerance)
               size == Cardinality(tier)
           IN /\ size # 0 => f[1] = First(tier, start)
              /\ \A n \in 2 .. size : f[n] = Cluster(f[n - 1], AtPlace(tier, n), tolerance)
<1> DEFINE f == Clusters(tier, start, tolerance)
           size == Cardinality(tier)
<1>1. Walks(f, tier, start, tolerance, size)
  <2> HIDE DEF size
  <2>1. \E g : Walks(g, tier, start, tolerance, size)
    BY WalkExists DEF size
  <2>2. \E g : g = [n \in 1 .. size |->
                      IF n = 1 THEN [priority |-> start, anchor |-> AtPlace(tier, 1).urgency]
                      ELSE Cluster(g[n - 1], AtPlace(tier, n), tolerance)]
    BY <2>1 DEF Walks, First
  <2>3. f = [n \in 1 .. size |->
                IF n = 1 THEN [priority |-> start, anchor |-> AtPlace(tier, 1).urgency]
                ELSE Cluster(f[n - 1], AtPlace(tier, n), tolerance)]
    BY <2>2 DEF Clusters, size
  <2> HIDE DEF f
  <2>4. QED  BY <2>3 DEF Walks, First
<1> HIDE DEF f
<1>2. \A n \in 1 .. size :
        f[n] = IF n = 1 THEN First(tier, start) ELSE Cluster(f[n - 1], AtPlace(tier, n), tolerance)
  BY <1>1 DEF Walks
<1>3. size # 0 => 1 \in 1 .. size
  OBVIOUS
<1>4. \A n \in 2 .. size : n \in 1 .. size /\ n # 1
  OBVIOUS
<1>5. QED  BY <1>2, <1>3, <1>4 DEF f

\* One step along a tier.
LEMMA ClusterStep ==
    ASSUME NEW old, old.priority \in Nat \ {0}, NEW s, StandingOK(s), NEW tolerance \in Nat
    PROVE  /\ Cluster(old, s, tolerance).priority \in Nat \ {0}
           /\ Cluster(old, s, tolerance).priority \in {old.priority, old.priority - 1}
           /\ Cluster(old, s, tolerance).anchor \in {old.anchor, s.urgency}
           /\ ~Apart(Cluster(old, s, tolerance).anchor, s.urgency, tolerance)
           /\ Cluster(old, s, tolerance).priority = old.priority /\ old.priority > MinPriority
                => Cluster(old, s, tolerance).anchor = old.anchor
<1> DEFINE u == s.urgency
           p == old.priority
<1>1. ~Apart(u, u, tolerance)
  <2>1. u.num \in Int /\ u.den \in Nat
    BY DEF StandingOK, Fraction
  <2>2. u.num * u.den \in Int /\ tolerance * u.den \in Nat
    BY <2>1
  <2>3. tolerance * u.den * u.den \in Nat
    BY <2>1, <2>2
  <2>4. QED  BY <2>2, <2>3 DEF Apart
<1>2. p \in Nat \ {0}
  OBVIOUS
<1> HIDE DEF u, p
<1>3. CASE Apart(old.anchor, u, tolerance)
  <2>1. Cluster(old, s, tolerance) = [priority |-> Most(p - 1, MinPriority), anchor |-> u]
    BY <1>3 DEF Cluster, u, p
  <2>2. /\ Most(p - 1, MinPriority) \in Nat \ {0}
        /\ Most(p - 1, MinPriority) \in {p, p - 1}
        /\ Most(p - 1, MinPriority) = p => ~(p > MinPriority)
    BY <1>2 DEF Most, MinPriority
  <2>3. QED  BY <1>1, <2>1, <2>2 DEF u, p
<1>4. CASE ~Apart(old.anchor, u, tolerance)
  <2>1. Cluster(old, s, tolerance) = old
    BY <1>4 DEF Cluster, u
  <2>2. QED  BY <1>2, <1>4, <2>1 DEF u, p
<1>5. QED  BY <1>3, <1>4

\* The priority at the n-th place, and the anchor it was given for.
ClusterOK(cluster, tier, start, tolerance, n) ==
    /\ cluster.priority \in Nat \ {0}
    /\ start - (n - 1) <= cluster.priority /\ cluster.priority <= start
    /\ \E m \in 1 .. n : cluster.anchor = AtPlace(tier, m).urgency
    /\ ~Apart(cluster.anchor, AtPlace(tier, n).urgency, tolerance)

LEMMA ClusterSound ==
    ASSUME NEW tier, TierOK(tier), NEW start \in Nat \ {0}, NEW tolerance \in Nat,
           NEW n \in 1 .. Cardinality(tier)
    PROVE  ClusterOK(Clusters(tier, start, tolerance)[n], tier, start, tolerance, n)
<1> DEFINE f == Clusters(tier, start, tolerance)
           size == Cardinality(tier)
           bad == {k \in 1 .. size : ~ClusterOK(f[k], tier, start, tolerance, k)}
<1> SUFFICES ASSUME bad # {} PROVE FALSE
  OBVIOUS
<1>1. size \in Nat
  BY FS_CardinalityType DEF TierOK
<1>2. \A k \in 1 .. size : AtPlace(tier, k) \in tier /\ StandingOK(AtPlace(tier, k))
  BY PlacesTaken DEF TierOK
<1>3. /\ size # 0 => f[1] = First(tier, start)
      /\ \A k \in 2 .. size : f[k] = Cluster(f[k - 1], AtPlace(tier, k), tolerance)
  BY <1>1, ClusterSteps
<1> HIDE DEF f, size
<1>4. bad \in SUBSET Nat
  BY <1>1
<1>5. PICK k \in bad : \A l \in bad : k <= l
  BY <1>4, LeastNatural
<1>6. k \in 1 .. size /\ ~ClusterOK(f[k], tier, start, tolerance, k) /\ k \in Nat
  BY <1>1, <1>5
<1>7. CASE k = 1
  <2> DEFINE s == AtPlace(tier, 1)
  <2>1. f[1].priority = start /\ f[1].anchor = s.urgency
    BY <1>1, <1>3, <1>6, <1>7 DEF First
  <2>2. StandingOK(s)
    BY <1>2, <1>6, <1>7
  <2> HIDE DEF s
  <2>3. ~Apart(s.urgency, s.urgency, tolerance)
    <3> DEFINE u == s.urgency
    <3>1. u.num \in Int /\ u.den \in Nat
      BY <2>2 DEF StandingOK, Fraction
    <3>2. u.num * u.den \in Int /\ tolerance * u.den \in Nat
      BY <3>1
    <3>3. tolerance * u.den * u.den \in Nat
      BY <3>1, <3>2
    <3>4. QED  BY <3>2, <3>3 DEF Apart
  <2>4. ClusterOK(f[1], tier, start, tolerance, 1)
    BY <2>1, <2>3 DEF ClusterOK, s
  <2>5. QED  BY <1>6, <1>7, <2>4
<1>8. CASE k # 1
  <2> DEFINE s == AtPlace(tier, k)
             p == f[k - 1].priority
             anchor == f[k - 1].anchor
  <2>1. k - 1 \in 1 .. size /\ k \in 2 .. size /\ ~(k <= k - 1)
    BY <1>1, <1>6, <1>8
  <2>2. ClusterOK(f[k - 1], tier, start, tolerance, k - 1)
    BY <1>5, <2>1
  <2>3. f[k] = Cluster(f[k - 1], s, tolerance) /\ StandingOK(s)
    BY <1>2, <1>3, <1>6, <2>1
  <2>4. p \in Nat \ {0} /\ start - (k - 2) <= p /\ p <= start
    <3>1. (k - 1) - 1 = k - 2
      BY <1>6
    <3>2. QED  BY <2>2, <3>1 DEF ClusterOK
  <2>5. PICK m \in 1 .. k - 1 : anchor = AtPlace(tier, m).urgency
    BY <2>2 DEF ClusterOK
  <2> HIDE DEF s
  <2>6. /\ f[k].priority \in Nat \ {0} /\ f[k].priority \in {p, p - 1}
        /\ f[k].anchor \in {anchor, s.urgency}
        /\ ~Apart(f[k].anchor, s.urgency, tolerance)
    <3> DEFINE old == f[k - 1]
    <3>1. old.priority \in Nat \ {0} /\ f[k] = Cluster(old, s, tolerance)
      BY <2>3, <2>4
    <3> HIDE DEF old
    <3>2. /\ f[k].priority \in Nat \ {0} /\ f[k].priority \in {old.priority, old.priority - 1}
          /\ f[k].anchor \in {old.anchor, s.urgency}
          /\ ~Apart(f[k].anchor, s.urgency, tolerance)
      BY <2>3, <3>1, ClusterStep
    <3>3. QED  BY <3>2 DEF old
  <2>7. start - (k - 1) <= f[k].priority /\ f[k].priority <= start
    <3> DEFINE q == f[k].priority
    <3> HIDE DEF p, q
    <3>1. q \in {p, p - 1} /\ q \in Nat
      BY <2>6 DEF q, p
    <3>2. start - (k - 1) <= q /\ q <= start
      BY <1>6, <2>4, <3>1
    <3>3. QED  BY <3>2 DEF q
  <2>8. \E i \in 1 .. k : f[k].anchor = AtPlace(tier, i).urgency
    <3>1. m \in 1 .. k /\ k \in 1 .. k
      BY <1>6, <2>1
    <3>2. QED  BY <2>5, <2>6, <3>1 DEF s
  <2>9. ClusterOK(f[k], tier, start, tolerance, k)
    BY <2>6, <2>7, <2>8 DEF ClusterOK, s
  <2>10. QED  BY <1>6, <2>9
<1>9. QED  BY <1>7, <1>8

\* Along a tier priorities do not rise, and where they stay above the least
\* one, so does the anchor.
LEMMA ClustersFall ==
    ASSUME NEW tier, TierOK(tier), NEW start \in Nat \ {0}, NEW tolerance \in Nat,
           NEW a \in 1 .. Cardinality(tier), NEW b \in a .. Cardinality(tier)
    PROVE  LET f == Clusters(tier, start, tolerance) IN
           /\ f[b].priority <= f[a].priority
           /\ f[b].priority = f[a].priority /\ f[b].priority > MinPriority
                => f[b].anchor = f[a].anchor
<1> DEFINE f == Clusters(tier, start, tolerance)
           size == Cardinality(tier)
           falls(k) == /\ f[k].priority <= f[a].priority
                       /\ f[k].priority = f[a].priority /\ f[k].priority > MinPriority
                            => f[k].anchor = f[a].anchor
           bad == {k \in a .. size : ~falls(k)}
<1> SUFFICES ASSUME bad # {} PROVE FALSE
  OBVIOUS
<1>1. size \in Nat
  BY FS_CardinalityType DEF TierOK
<1>2. \A k \in 1 .. size : StandingOK(AtPlace(tier, k)) /\ f[k].priority \in Nat \ {0}
  BY PlacesTaken, ClusterSound DEF TierOK, ClusterOK
<1>3. \A k \in 2 .. size : f[k] = Cluster(f[k - 1], AtPlace(tier, k), tolerance)
  BY <1>1, ClusterSteps
<1> HIDE DEF f, size
<1>4. bad \in SUBSET Nat /\ a \in Nat /\ a \in 1 .. size
  BY <1>1 DEF size
<1>5. PICK k \in bad : \A l \in bad : k <= l
  BY <1>4, LeastNatural
<1>6. k \in a .. size /\ ~falls(k) /\ k \in Nat
  BY <1>1, <1>4, <1>5
<1>7. k # a
  BY <1>2, <1>4, <1>6
<1>8. k - 1 \in a .. size /\ k \in 2 .. size /\ ~(k <= k - 1) /\ k - 1 \in 1 .. size /\ k \in 1 .. size
  BY <1>1, <1>4, <1>6, <1>7
<1>9. falls(k - 1)
  BY <1>5, <1>8
<1> DEFINE p == f[k - 1].priority
           q == f[k].priority
           r == f[a].priority
<1>10. p \in Nat \ {0} /\ q \in Nat \ {0} /\ r \in Nat \ {0}
  BY <1>2, <1>4, <1>8
<1>11. /\ q \in {p, p - 1}
       /\ q = p /\ p > MinPriority => f[k].anchor = f[k - 1].anchor
  <2> DEFINE old == f[k - 1]
             s == AtPlace(tier, k)
  <2>1. old.priority \in Nat \ {0} /\ f[k] = Cluster(old, s, tolerance) /\ StandingOK(s)
    BY <1>2, <1>3, <1>8, <1>10
  <2> HIDE DEF old, s
  <2>2. /\ f[k].priority \in {old.priority, old.priority - 1}
        /\ f[k].priority = old.priority /\ old.priority > MinPriority => f[k].anchor = old.anchor
    BY <2>1, ClusterStep
  <2>3. QED  BY <2>2 DEF old
<1>12. p <= r /\ (p = r /\ p > MinPriority => f[k - 1].anchor = f[a].anchor)
  BY <1>9
<1>13. ~(q <= r) \/ (q = r /\ q > MinPriority /\ f[k].anchor # f[a].anchor)
  BY <1>6
<1> HIDE DEF p, q, r
<1>14. q <= r /\ (q = r => q = p)
  BY <1>10, <1>11, <1>12
<1>15. QED  BY <1>11, <1>12, <1>13, <1>14

-----------------------------------------------------------------------------
(***************************************************************************)
(* The priorities of a tier.                                               *)
(***************************************************************************)

\* A priority is between 1 and the start, and room for the clusters above it.
LEMMA TierPriorityRange ==
    ASSUME NEW tier, TierOK(tier), NEW start \in Nat \ {0}, NEW tolerance \in Nat, NEW s \in tier
    PROVE  /\ TierPriority(tier, s, start, tolerance) \in 1 .. start
           /\ TierPriority(tier, s, start, tolerance) > start - Cardinality(tier)
           /\ Cardinality(tier) \in Nat
<1> DEFINE n == Place(tier, s)
           p == TierPriority(tier, s, start, tolerance)
<1>1. Cardinality(tier) \in Nat /\ n \in 1 .. Cardinality(tier)
  BY PlaceOrder
<1>2. p \in Nat \ {0} /\ start - (n - 1) <= p /\ p <= start
  BY <1>1, ClusterSound DEF ClusterOK, TierPriority
<1> HIDE DEF n, p
<1>3. p \in 1 .. start /\ p > start - Cardinality(tier)
  BY <1>1, <1>2
<1>4. QED  BY <1>1, <1>3 DEF p

\* The more urgent of two never has the lower priority, and the higher one if
\* they are apart, until priorities run out.
LEMMA TierUrgentFirst ==
    ASSUME NEW tier, TierOK(tier), NEW start \in Nat \ {0}, NEW tolerance \in Nat,
           NEW a \in tier, NEW b \in tier, MoreUrgent(a.urgency, b.urgency)
    PROVE  LET p == TierPriority(tier, a, start, tolerance)
               q == TierPriority(tier, b, start, tolerance)
           IN /\ p >= q
              /\ Apart(a.urgency, b.urgency, tolerance) /\ q > MinPriority => p > q
<1> DEFINE f == Clusters(tier, start, tolerance)
           i == Place(tier, a)
           j == Place(tier, b)
           size == Cardinality(tier)
           p == f[i].priority
           q == f[j].priority
<1>1. StandingOK(a) /\ StandingOK(b) /\ Fraction(a.urgency) /\ Fraction(b.urgency)
  BY DEF TierOK, StandingOK
<1>2. Before(a, b)
  BY <1>1, BeforeTotal
<1>3. i \in 1 .. size /\ j \in 1 .. size /\ i < j /\ size \in Nat
  BY <1>2, PlaceOrder
<1>4. j \in i .. size
  BY <1>3
<1>5. AtPlace(tier, i) = a /\ AtPlace(tier, j) = b
  BY AtItsPlace
<1> HIDE DEF f, i, j, size
<1>6. q <= p /\ (q = p /\ q > MinPriority => f[j].anchor = f[i].anchor)
  BY <1>3, <1>4, ClustersFall DEF f, size
<1>7. ClusterOK(f[i], tier, start, tolerance, i) /\ ClusterOK(f[j], tier, start, tolerance, j)
  BY <1>3, ClusterSound DEF f, size
<1>8. p \in Nat /\ q \in Nat
  BY <1>7 DEF ClusterOK
<1>9. ASSUME Apart(a.urgency, b.urgency, tolerance), q > MinPriority, q = p
      PROVE  FALSE
  <2>1. PICK k \in 1 .. i : f[i].anchor = AtPlace(tier, k).urgency
    BY <1>7 DEF ClusterOK
  <2> DEFINE m == AtPlace(tier, k)
  <2>2. k \in 1 .. size /\ k <= i
    BY <1>3
  <2>3. m \in tier /\ Place(tier, m) = k
    BY <2>2, PlacesTaken DEF size
  <2> HIDE DEF m
  <2>4. ~MoreUrgent(a.urgency, m.urgency) /\ Fraction(m.urgency)
    BY <2>2, <2>3, EarlierPlace DEF i, TierOK, StandingOK
  <2>5. Apart(m.urgency, b.urgency, tolerance)
    BY <1>1, <1>9, <2>4, ApartFromAbove
  <2>6. f[j].anchor = m.urgency
    BY <1>6, <1>9, <2>1 DEF m
  <2>7. ~Apart(f[j].anchor, b.urgency, tolerance)
    BY <1>5, <1>7 DEF ClusterOK
  <2>8. QED  BY <2>5, <2>6, <2>7
<1> HIDE DEF p, q
<1>10. p >= q /\ (Apart(a.urgency, b.urgency, tolerance) /\ q > MinPriority => p > q)
  BY <1>6, <1>8, <1>9
<1>11. QED  BY <1>10 DEF p, q, f, i, j, TierPriority

-----------------------------------------------------------------------------
(***************************************************************************)
(* Items.                                                                  *)
(***************************************************************************)
ItemShape(i) ==
    i = [cred |-> i.cred, host |-> i.host, priority |-> i.priority, disabled |-> i.disabled,
         reason |-> i.reason, known |-> i.known, fresh |-> i.fresh, urgency |-> i.urgency,
         t5 |-> i.t5]

\* Two items that differ at most in their priority and reason.
SameItem(i, j) ==
    /\ ItemShape(j)
    /\ j.cred = i.cred /\ j.host = i.host /\ j.disabled = i.disabled /\ j.known = i.known
    /\ j.fresh = i.fresh /\ j.urgency = i.urgency /\ j.t5 = i.t5

\* An item with another priority.
LEMMA ItemPriority ==
    ASSUME NEW i, ItemShape(i), NEW x
    PROVE  LET j == [i EXCEPT !.priority = x] IN
           SameItem(i, j) /\ j.priority = x /\ j.reason = i.reason
<1> DEFINE j == [i EXCEPT !.priority = x]
<1>1. j = [cred |-> i.cred, host |-> i.host, priority |-> x, disabled |-> i.disabled,
           reason |-> i.reason, known |-> i.known, fresh |-> i.fresh, urgency |-> i.urgency,
           t5 |-> i.t5]
  BY DEF ItemShape
<1> HIDE DEF j
<1>2. SameItem(i, j) /\ j.priority = x /\ j.reason = i.reason
  BY <1>1 DEF ItemShape, SameItem
<1>3. QED  BY <1>2 DEF j

\* An item with another reason.
LEMMA ItemReason ==
    ASSUME NEW i, ItemShape(i), NEW x
    PROVE  LET j == [i EXCEPT !.reason = x] IN
           SameItem(i, j) /\ j.reason = x /\ j.priority = i.priority
<1> DEFINE j == [i EXCEPT !.reason = x]
<1>1. j = [cred |-> i.cred, host |-> i.host, priority |-> i.priority, disabled |-> i.disabled,
           reason |-> x, known |-> i.known, fresh |-> i.fresh, urgency |-> i.urgency,
           t5 |-> i.t5]
  BY DEF ItemShape
<1> HIDE DEF j
<1>2. SameItem(i, j) /\ j.reason = x /\ j.priority = i.priority
  BY <1>1 DEF ItemShape, SameItem
<1>3. QED  BY <1>2 DEF j

\* Reasons by name.
CooldownReason == "429 cooldown"
DepletedReason == "weekly depleted"
IgnoredReason == "disabled on host"
BoostedReason == "boosted"
RegularReason == "remaining positive"

\* An item that nothing is known of keeps what the host says, and counts as
\* neither fresh nor healthy.
IsKept(i, c, h) ==
    /\ ItemShape(i) /\ i.cred = c /\ i.host = h /\ i.fresh = FALSE
    /\ i.priority = h.priority /\ i.disabled = h.disabled
    /\ i.reason \notin Healthy \cup {CooldownReason}
    /\ i.urgency = NoUrgency /\ i.t5 = 0

Ignored(c, h) == [Kept(c, h) EXCEPT !.reason = IgnoredReason]

LEMMA KeptItems ==
    ASSUME NEW c, NEW h
    PROVE  IsKept(Kept(c, h), c, h) /\ IsKept(Ignored(c, h), c, h)
<1> DEFINE kept == Kept(c, h)
           ignored == [kept EXCEPT !.reason = IgnoredReason]
<1>1. IsKept(kept, c, h)
  BY DEF Kept, ItemShape, IsKept, Healthy, CooldownReason
<1>2. IgnoredReason \notin Healthy \cup {CooldownReason}
  BY DEF Healthy, IgnoredReason, CooldownReason
<1>3. ignored = Ignored(c, h)
  BY DEF Ignored, IgnoredReason
<1> HIDE DEF kept
<1>4. SameItem(kept, ignored) /\ ignored.reason = IgnoredReason /\ ignored.priority = kept.priority
  BY <1>1, ItemReason DEF IsKept
<1> HIDE DEF ignored
<1>5. IsKept(ignored, c, h)
  BY <1>1, <1>2, <1>4 DEF IsKept, SameItem
<1>6. QED  BY <1>1, <1>3, <1>5 DEF kept

\* The evidence a credential is judged by.
Judging(c, fresh, historical) == IF \E e \in fresh : e.cred = c THEN fresh ELSE historical
Known(c, fresh, historical) == \E e \in Judging(c, fresh, historical) : e.cred = c
EvidenceOn(c, fresh, historical) ==
    CHOOSE q \in {e \in Judging(c, fresh, historical) : e.cred = c} : TRUE

LEMMA EvidenceFound ==
    ASSUME NEW c, NEW fresh, NEW historical, Known(c, fresh, historical)
    PROVE  LET e == EvidenceOn(c, fresh, historical) IN
           e \in fresh \cup historical /\ e \in Judging(c, fresh, historical) /\ e.cred = c
  BY DEF Known, EvidenceOn, Judging

\* What an item is judged to be from its evidence e.
ItemOn(c, h, e, fresh, now) == Judged(c, h, StateOf(e, now), e, e \in fresh, now)

LEMMA ItemOnFields ==
    ASSUME NEW c, NEW h, NEW e, NEW fresh, NEW now
    PROVE  LET i == ItemOn(c, h, e, fresh, now) IN
           /\ ItemShape(i) /\ i.cred = c /\ i.host = h /\ i.fresh = (e \in fresh)
           /\ i.reason = StateOf(e, now) /\ i.reason # CooldownReason
           /\ i.disabled = (i.reason = DepletedReason)
           /\ i.reason \notin Healthy => i.priority = DepletedPriority
           /\ i.urgency = Urgency(e, now) /\ i.t5 = T5h(e, now)
<1> DEFINE i == ItemOn(c, h, e, fresh, now)
<1>1. ItemShape(i) /\ i.cred = c /\ i.host = h /\ i.fresh = (e \in fresh)
  BY DEF ItemOn, Judged, ItemShape
<1>2. /\ i.reason = StateOf(e, now)
      /\ i.disabled = (StateOf(e, now) = DepletedReason)
      /\ i.priority = IF StateOf(e, now) \in Healthy THEN h.priority ELSE DepletedPriority
      /\ i.urgency = Urgency(e, now) /\ i.t5 = T5h(e, now)
  BY DEF ItemOn, Judged, DepletedReason
<1>3. StateOf(e, now) # CooldownReason
  BY DEF StateOf, CooldownReason
<1> HIDE DEF i
<1>4. QED  BY <1>1, <1>2, <1>3 DEF i

\* An item is left alone, or judged by its evidence.
LEMMA PlanItemIs ==
    ASSUME NEW c, NEW h, NEW fresh, NEW historical, NEW o
    PROVE  PlanItem(c, h, fresh, historical, o) =
             IF h.disabled /\ o.ignoreDisabled THEN Ignored(c, h)
             ELSE IF ~Known(c, fresh, historical) THEN Kept(c, h)
             ELSE ItemOn(c, h, EvidenceOn(c, fresh, historical), fresh, o.now)
<1> DEFINE judging == Judging(c, fresh, historical)
<1>1. PlanItem(c, h, fresh, historical, o) =
        IF h.disabled /\ o.ignoreDisabled THEN Ignored(c, h)
        ELSE IF \A e \in judging : e.cred # c THEN Kept(c, h)
        ELSE LET e == CHOOSE q \in {q \in judging : q.cred = c} : TRUE
             IN ItemOn(c, h, e, fresh, o.now)
  BY DEF PlanItem, Judging, Ignored, IgnoredReason, ItemOn
<1>2. QED  BY <1>1 DEF Known, EvidenceOn

\* Every item is well formed and belongs to its credential.
LEMMA PlanItemFields ==
    ASSUME NEW c, NEW h, NEW fresh, NEW historical, NEW o
    PROVE  LET i == PlanItem(c, h, fresh, historical, o) IN
           ItemShape(i) /\ i.cred = c /\ i.host = h /\ i.reason # CooldownReason
<1> DEFINE i == PlanItem(c, h, fresh, historical, o)
           e == EvidenceOn(c, fresh, historical)
           on == ItemOn(c, h, e, fresh, o.now)
<1>1. CASE IsKept(i, c, h)
  BY <1>1 DEF IsKept
<1>2. CASE i = on
  BY <1>2, ItemOnFields
<1>3. IsKept(Kept(c, h), c, h) /\ IsKept(Ignored(c, h), c, h)
  BY KeptItems
<1>4. QED  BY <1>1, <1>2, <1>3, PlanItemIs

\* It is fresh only if there is fresh evidence of its credential, and only if
\* the host's disabled flag is not to be left alone.
LEMMA PlanItemFresh ==
    ASSUME NEW c, NEW h, NEW fresh, NEW historical, NEW o,
           PlanItem(c, h, fresh, historical, o).fresh
    PROVE  /\ \E e \in fresh : e.cred = c
           /\ ~(h.disabled /\ o.ignoreDisabled)
           /\ Known(c, fresh, historical)
<1> DEFINE i == PlanItem(c, h, fresh, historical, o)
           e == EvidenceOn(c, fresh, historical)
           on == ItemOn(c, h, e, fresh, o.now)
<1>1. IsKept(Kept(c, h), c, h) /\ IsKept(Ignored(c, h), c, h)
  BY KeptItems
<1>2. i # Kept(c, h) /\ i # Ignored(c, h)
  BY <1>1 DEF IsKept
<1>3. i = on /\ Known(c, fresh, historical) /\ ~(h.disabled /\ o.ignoreDisabled)
  BY <1>2, PlanItemIs
<1>4. on.fresh = (e \in fresh)
  BY ItemOnFields
<1>5. e \in fresh /\ e.cred = c
  <2>1. e \in fresh
    BY <1>3, <1>4
  <2>2. e.cred = c
    BY <1>3, EvidenceFound
  <2>3. QED  BY <2>1, <2>2
<1>6. QED  BY <1>3, <1>5

\* Its urgency is that of some evidence, if it has one.
LEMMA PlanItemUrgency ==
    ASSUME NEW c, NEW h, NEW fresh, NEW historical, NEW o
    PROVE  LET i == PlanItem(c, h, fresh, historical, o) IN
           \/ i.urgency = NoUrgency /\ i.t5 = 0
           \/ \E e \in fresh \cup historical :
                i.urgency = Urgency(e, o.now) /\ i.t5 = T5h(e, o.now)
<1> DEFINE i == PlanItem(c, h, fresh, historical, o)
           e == EvidenceOn(c, fresh, historical)
           on == ItemOn(c, h, e, fresh, o.now)
<1>1. CASE IsKept(i, c, h)
  BY <1>1 DEF IsKept
<1>2. CASE i = on /\ Known(c, fresh, historical)
  <2>1. e \in fresh \cup historical
    BY <1>2, EvidenceFound
  <2>2. on.urgency = Urgency(e, o.now) /\ on.t5 = T5h(e, o.now)
    BY ItemOnFields
  <2> HIDE DEF e, on, i
  <2>3. i.urgency = Urgency(e, o.now) /\ i.t5 = T5h(e, o.now)
    BY <1>2, <2>2
  <2>4. QED  BY <2>1, <2>3 DEF i
<1>3. IsKept(Kept(c, h), c, h) /\ IsKept(Ignored(c, h), c, h)
  BY KeptItems
<1>4. QED  BY <1>1, <1>2, <1>3, PlanItemIs

\* Placing an item in its tier gives it a priority, or, while it cools down,
\* another reason too.
LEMMA PositiveIs ==
    ASSUME NEW i, ItemShape(i), NEW items, NEW o
    PROVE  LET j == Positive(i, items, o) IN
           /\ SameItem(i, j)
           /\ i.reason \notin Healthy => j = i
           /\ i.reason \in Healthy /\ Cooling(i, o)
                => j.reason = CooldownReason /\ j.priority = DepletedPriority
           /\ i.reason \in Healthy /\ ~Cooling(i, o)
                => /\ j.reason = i.reason
                   /\ j.priority = TierPriority(Tier(items, i.reason, o), Standing(i),
                                                Start(i.reason, o), o.tolerance)
<1> DEFINE j == Positive(i, items, o)
           p == TierPriority(Tier(items, i.reason, o), Standing(i), Start(i.reason, o), o.tolerance)
<1>1. CASE i.reason \notin Healthy
  <2>1. j = i
    BY <1>1 DEF Positive
  <2>2. SameItem(i, i)
    BY DEF SameItem
  <2>3. QED  BY <1>1, <2>1, <2>2
<1>2. CASE i.reason \in Healthy /\ Cooling(i, o)
  <2> DEFINE mid == [i EXCEPT !.priority = DepletedPriority]
             new == [mid EXCEPT !.reason = CooldownReason]
  <2>1. j = new
    BY <1>2 DEF Positive, CooldownReason
  <2>2. SameItem(i, mid) /\ mid.priority = DepletedPriority
    BY ItemPriority
  <2> HIDE DEF mid
  <2>3. SameItem(mid, new) /\ new.reason = CooldownReason /\ new.priority = mid.priority
    BY <2>2, ItemReason DEF SameItem
  <2> HIDE DEF new, j
  <2>4. SameItem(i, j) /\ j.reason = CooldownReason /\ j.priority = DepletedPriority
    BY <2>1, <2>2, <2>3 DEF SameItem
  <2>5. QED  BY <1>2, <2>4 DEF j
<1>3. CASE i.reason \in Healthy /\ ~Cooling(i, o)
  <2>1. j = [i EXCEPT !.priority = p]
    BY <1>3 DEF Positive
  <2> HIDE DEF j, p
  <2>2. SameItem(i, j) /\ j.reason = i.reason /\ j.priority = p
    BY <2>1, ItemPriority
  <2>3. QED  BY <1>3, <2>2 DEF j, p
<1>4. QED  BY <1>1, <1>2, <1>3

-----------------------------------------------------------------------------
(***************************************************************************)
(* Plans.                                                                  *)
(***************************************************************************)
Items(hosts, fresh, historical, o) ==
    {PlanItem(c, hosts[c], fresh, historical, o) : c \in DOMAIN hosts}

\* What the plan makes of a credential.
Target(c, hosts, fresh, historical, o) ==
    Positive(PlanItem(c, hosts[c], fresh, historical, o), Items(hosts, fresh, historical, o), o)

\* Its fields, and how it comes from the item.
LEMMA TargetIs ==
    ASSUME NEW c, NEW hosts, NEW fresh, NEW historical, NEW o
    PROVE  LET i == PlanItem(c, hosts[c], fresh, historical, o)
               j == Target(c, hosts, fresh, historical, o)
               tier == Tier(Items(hosts, fresh, historical, o), i.reason, o)
           IN /\ ItemShape(i) /\ i.cred = c /\ i.host = hosts[c] /\ i.reason # CooldownReason
              /\ SameItem(i, j) /\ j.cred = c
              /\ i.reason \notin Healthy => j = i
              /\ i.reason \in Healthy /\ Cooling(i, o)
                   => j.reason = CooldownReason /\ j.priority = DepletedPriority
              /\ i.reason \in Healthy /\ ~Cooling(i, o)
                   => /\ j.reason = i.reason
                      /\ j.priority = TierPriority(tier, Standing(i), Start(i.reason, o), o.tolerance)
<1> DEFINE i == PlanItem(c, hosts[c], fresh, historical, o)
           items == Items(hosts, fresh, historical, o)
           j == Positive(i, items, o)
<1>1. ItemShape(i) /\ i.cred = c /\ i.host = hosts[c] /\ i.reason # CooldownReason
  <2> DEFINE h == hosts[c]
  <2> HIDE DEF h
  <2>1. QED  BY PlanItemFields DEF h
<1>2. j = Target(c, hosts, fresh, historical, o)
  BY DEF Target
<1> HIDE DEF i, items
<1>3. /\ SameItem(i, j)
      /\ i.reason \notin Healthy => j = i
      /\ i.reason \in Healthy /\ Cooling(i, o)
           => j.reason = CooldownReason /\ j.priority = DepletedPriority
      /\ i.reason \in Healthy /\ ~Cooling(i, o)
           => /\ j.reason = i.reason
              /\ j.priority = TierPriority(Tier(items, i.reason, o), Standing(i),
                                           Start(i.reason, o), o.tolerance)
  BY <1>1, PositiveIs
<1>4. j.cred = c
  BY <1>1, <1>3 DEF SameItem
<1> HIDE DEF j
<1>5. QED  BY <1>1, <1>2, <1>3, <1>4 DEF i, items

\* A plan is its targets, one of each credential.
LEMMA PlannedIs ==
    ASSUME NEW hosts, NEW fresh, NEW historical, NEW o
    PROVE  LET plan == Planned(hosts, fresh, historical, o)
               target(c) == Target(c, hosts, fresh, historical, o)
           IN /\ plan.items = {target(c) : c \in DOMAIN hosts}
              /\ plan.changes = {i \in plan.items : ShouldChange(i, o)}
              /\ \A c \in DOMAIN hosts : ItemOf(plan, c) = target(c) /\ target(c).cred = c
<1> DEFINE plan == Planned(hosts, fresh, historical, o)
           items == Items(hosts, fresh, historical, o)
           target(c) == Target(c, hosts, fresh, historical, o)
<1>1. plan = WithChanges(PlanPositive(items, o), o)
  BY DEF Planned, Items
<1>2. plan.items = PlanPositive(items, o) /\ plan.changes = {i \in plan.items : ShouldChange(i, o)}
  BY <1>1 DEF WithChanges
<1>3. PlanPositive(items, o) = {target(c) : c \in DOMAIN hosts}
  BY DEF PlanPositive, Items, Target
<1>4. \A c : target(c).cred = c
  BY TargetIs
<1> HIDE DEF plan, target, items
<1>5. ASSUME NEW c \in DOMAIN hosts
      PROVE  ItemOf(plan, c) = target(c) /\ target(c).cred = c
  <2>1. target(c) \in plan.items /\ target(c).cred = c
    BY <1>2, <1>3, <1>4
  <2>2. \A i \in plan.items : i.cred = c => i = target(c)
    BY <1>2, <1>3, <1>4
  <2>3. QED  BY <2>1, <2>2 DEF ItemOf
<1>6. QED  BY <1>2, <1>3, <1>5 DEF plan, target

-----------------------------------------------------------------------------
(***************************************************************************)
(* Typed evidence gives tiers that are in order.                           *)
(***************************************************************************)
QuotaTyped(e) ==
    /\ e.rem \in Int /\ e.srem \in Int /\ e.lrem \in Int
    /\ e.reset \in Nat /\ e.sreset \in Nat /\ e.lreset \in Nat

InputsOK(hosts, fresh, historical, o) ==
    /\ DOMAIN hosts \subseteq Int /\ IsFiniteSet(DOMAIN hosts)
    /\ \A e \in fresh \cup historical : QuotaTyped(e)
    /\ o.now \in Nat /\ o.tolerance \in Nat
    /\ o.boost \in Nat \ {0} /\ o.normal \in Nat \ {0}

LEMMA UrgencyTyped ==
    ASSUME NEW e, QuotaTyped(e), NEW now \in Nat
    PROVE  Fraction(Urgency(e, now)) /\ T5h(e, now) \in Int
<1>1. R7d(e) \in Int /\ R5h(e) \in Int
  BY DEF QuotaTyped, R7d, R5h, Most
<1>2. T7d(e, now) \in Int /\ T5h(e, now) \in Int
  BY DEF QuotaTyped, T7d, T5h, HoursTo, Most
<1> DEFINE den == Most(2 * T7d(e, now), 1)
           x == Least(R7d(e), 100)
           y == Least(R5h(e), 100)
           z == Least(T5h(e, now), 5)
           r == R7d(e)
           u == Urgency(e, now)
<1>4. den \in Int /\ den >= 1 /\ x \in Int /\ y \in Int /\ z \in Int /\ r \in Int
  BY <1>1, <1>2 DEF Most, Least
<1>5. u.den = den /\ u.num = 1344 * r + den * (3 * x + 2 * y + 100 - 20 * z)
  BY DEF Urgency
<1> HIDE DEF den, x, y, z, r, u
<1>6. 3 * x + 2 * y + 100 - 20 * z \in Int /\ 1344 * r \in Int
  BY <1>4
<1>7. u.num \in Int
  BY <1>4, <1>5, <1>6
<1>8. u.den \in Nat \ {0}
  BY <1>4, <1>5
<1>9. QED  BY <1>2, <1>7, <1>8 DEF Fraction, u

\* What looks at an item in its tier.
LEMMA StandingTyped ==
    ASSUME NEW hosts, NEW fresh, NEW historical, NEW o, InputsOK(hosts, fresh, historical, o),
           NEW c \in DOMAIN hosts
    PROVE  LET s == Standing(PlanItem(c, hosts[c], fresh, historical, o)) IN
           StandingOK(s) /\ s.cred = c
<1> DEFINE i == PlanItem(c, hosts[c], fresh, historical, o)
           now == o.now
<1>1. /\ i.cred = c
      /\ \/ i.urgency = NoUrgency /\ i.t5 = 0
         \/ \E e \in fresh \cup historical : i.urgency = Urgency(e, now) /\ i.t5 = T5h(e, now)
  <2> DEFINE h == hosts[c]
  <2> HIDE DEF h, now
  <2>1. PlanItem(c, h, fresh, historical, o).cred = c
    BY PlanItemFields
  <2>2. LET k == PlanItem(c, h, fresh, historical, o) IN
        \/ k.urgency = NoUrgency /\ k.t5 = 0
        \/ \E e \in fresh \cup historical : k.urgency = Urgency(e, o.now) /\ k.t5 = T5h(e, o.now)
    BY PlanItemUrgency
  <2>3. QED  BY <2>1, <2>2 DEF h, now
<1>2. c \in Int /\ now \in Nat /\ \A e \in fresh \cup historical : QuotaTyped(e)
  BY DEF InputsOK
<1> HIDE DEF i, now
<1>3. Fraction(i.urgency) /\ i.t5 \in Int
  <2>1. CASE i.urgency = NoUrgency /\ i.t5 = 0
    BY <2>1 DEF NoUrgency, Fraction
  <2>2. CASE \E e \in fresh \cup historical : i.urgency = Urgency(e, now) /\ i.t5 = T5h(e, now)
    BY <1>2, <2>2, UrgencyTyped
  <2>3. QED  BY <1>1, <2>1, <2>2
<1>4. StandingOK(Standing(i)) /\ Standing(i).cred = c
  BY <1>1, <1>2, <1>3 DEF Standing, StandingOK
<1>5. QED  BY <1>4 DEF i

\* A tier of a plan.
LEMMA TierTyped ==
    ASSUME NEW hosts, NEW fresh, NEW historical, NEW o, InputsOK(hosts, fresh, historical, o),
           NEW reason
    PROVE  TierOK(Tier(Items(hosts, fresh, historical, o), reason, o))
<1> DEFINE creds == DOMAIN hosts
           at(c) == Standing(PlanItem(c, hosts[c], fresh, historical, o))
           all == {at(c) : c \in creds}
           tier == Tier(Items(hosts, fresh, historical, o), reason, o)
<1>1. \A c \in creds : StandingOK(at(c)) /\ at(c).cred = c
  BY StandingTyped
<1>2. tier \subseteq all
  BY DEF Tier, Items
<1>3. IsFiniteSet(creds)
  BY DEF InputsOK
<1> HIDE DEF at, tier, creds
<1>4. IsFiniteSet(all)
  <2> DEFINE f == [c \in creds |-> at(c)]
  <2>1. f \in Surjection(creds, all)
    BY DEF Surjection
  <2>2. QED  BY <1>3, <2>1, FS_Surjection
<1>5. IsFiniteSet(tier)
  BY <1>2, <1>4, FS_Subset
<1>6. \A s \in tier : StandingOK(s)
  BY <1>1, <1>2
<1>7. \A s, t \in tier : s.cred = t.cred => s = t
  BY <1>1, <1>2
<1>8. QED  BY <1>5, <1>6, <1>7 DEF TierOK, tier

\* The healthy items of a plan are those of its tiers, with their priorities.
LEMMA RankedIsTier ==
    ASSUME NEW hosts, NEW fresh, NEW historical, NEW o, NEW reason \in Healthy
    PROVE  LET plan == Planned(hosts, fresh, historical, o)
               tier == Tier(Items(hosts, fresh, historical, o), reason, o)
           IN /\ \A a \in plan.items : a.reason = reason =>
                   /\ Standing(a) \in tier
                   /\ a.priority = TierPriority(tier, Standing(a), Start(reason, o), o.tolerance)
              /\ \A s \in tier : \E a \in plan.items : a.reason = reason /\ Standing(a) = s
<1> DEFINE plan == Planned(hosts, fresh, historical, o)
           items == Items(hosts, fresh, historical, o)
           tier == Tier(items, reason, o)
           item(c) == PlanItem(c, hosts[c], fresh, historical, o)
           target(c) == Target(c, hosts, fresh, historical, o)
           p(s) == TierPriority(tier, s, Start(reason, o), o.tolerance)
<1>1. plan.items = {target(c) : c \in DOMAIN hosts} /\ items = {item(c) : c \in DOMAIN hosts}
  BY PlannedIs DEF Items
<1>2. ASSUME NEW c
      PROVE  /\ SameItem(item(c), target(c)) /\ item(c).reason # CooldownReason
             /\ item(c).reason \notin Healthy => target(c) = item(c)
             /\ item(c).reason \in Healthy /\ Cooling(item(c), o)
                  => target(c).reason = CooldownReason
             /\ item(c).reason \in Healthy /\ ~Cooling(item(c), o)
                  => target(c).reason = item(c).reason
             /\ item(c).reason = reason /\ ~Cooling(item(c), o)
                  => target(c).priority = p(Standing(item(c)))
  BY TargetIs
<1>3. CooldownReason \notin Healthy
  BY DEF CooldownReason, Healthy
<1>4. tier = {Standing(i) : i \in {j \in items : j.reason = reason /\ ~Cooling(j, o)}}
  BY DEF Tier
<1> HIDE DEF plan, items, tier, item, target, p
<1>5. ASSUME NEW i, NEW j, SameItem(i, j) PROVE Standing(i) = Standing(j)
  BY <1>5 DEF SameItem, Standing
<1>6. ASSUME NEW a \in plan.items, a.reason = reason
      PROVE  Standing(a) \in tier /\ a.priority = p(Standing(a))
  <2>1. PICK c \in DOMAIN hosts : a = target(c)
    BY <1>1
  <2>2. item(c).reason = reason /\ ~Cooling(item(c), o)
    BY <1>2, <1>3, <1>6, <2>1
  <2>3. Standing(a) = Standing(item(c)) /\ a.priority = p(Standing(item(c)))
    BY <1>2, <1>5, <2>1, <2>2
  <2>4. item(c) \in items
    BY <1>1
  <2>5. QED  BY <1>4, <2>2, <2>3, <2>4
<1>7. ASSUME NEW s \in tier
      PROVE  \E a \in plan.items : a.reason = reason /\ Standing(a) = s
  <2>1. PICK c \in DOMAIN hosts : item(c).reason = reason /\ ~Cooling(item(c), o)
                                  /\ s = Standing(item(c))
    BY <1>1, <1>4
  <2>2. target(c) \in plan.items /\ target(c).reason = reason /\ Standing(target(c)) = s
    BY <1>1, <1>2, <1>5, <2>1
  <2>3. QED  BY <2>2
<1>8. QED  BY <1>6, <1>7 DEF plan, items, tier, p

\* In a plan the more urgent never has the lower priority, and the higher one
\* if the two are apart.
LEMMA PlanUrgentFirst ==
    ASSUME NEW hosts, NEW fresh, NEW historical, NEW o, InputsOK(hosts, fresh, historical, o),
           NEW reason \in Healthy,
           NEW a \in Planned(hosts, fresh, historical, o).items, a.reason = reason,
           NEW b \in Planned(hosts, fresh, historical, o).items, b.reason = reason,
           MoreUrgent(a.urgency, b.urgency)
    PROVE  /\ a.priority >= b.priority
           /\ Apart(a.urgency, b.urgency, o.tolerance) /\ b.priority > MinPriority
                => a.priority > b.priority
<1> DEFINE tier == Tier(Items(hosts, fresh, historical, o), reason, o)
           start == Start(reason, o)
           tolerance == o.tolerance
           s == Standing(a)
           t == Standing(b)
<1>1. /\ s \in tier /\ a.priority = TierPriority(tier, s, start, tolerance)
      /\ t \in tier /\ b.priority = TierPriority(tier, t, start, tolerance)
  BY RankedIsTier
<1>2. TierOK(tier)
  BY TierTyped
<1>3. start \in Nat \ {0} /\ tolerance \in Nat
  BY DEF InputsOK, Start
<1>4. s.urgency = a.urgency /\ t.urgency = b.urgency
  BY DEF Standing
<1> HIDE DEF tier, start, tolerance, s, t
<1>5. MoreUrgent(s.urgency, t.urgency)
  BY <1>4
<1>6. /\ TierPriority(tier, s, start, tolerance) >= TierPriority(tier, t, start, tolerance)
      /\ Apart(s.urgency, t.urgency, tolerance) /\ TierPriority(tier, t, start, tolerance) > MinPriority
           => TierPriority(tier, s, start, tolerance) > TierPriority(tier, t, start, tolerance)
  BY <1>1, <1>2, <1>3, <1>5, TierUrgentFirst
<1>7. QED  BY <1>1, <1>4, <1>6 DEF tolerance

\* With room for the boosted clusters, boosted comes before regular.
LEMMA PlanBoostedFirst ==
    ASSUME NEW hosts, NEW fresh, NEW historical, NEW o, InputsOK(hosts, fresh, historical, o),
           o.boost - o.normal >=
             Cardinality({i \in Planned(hosts, fresh, historical, o).items : i.reason = BoostedReason}),
           NEW a \in Planned(hosts, fresh, historical, o).items, a.reason = BoostedReason,
           NEW b \in Planned(hosts, fresh, historical, o).items, b.reason = RegularReason
    PROVE  a.priority > b.priority
<1> DEFINE plan == Planned(hosts, fresh, historical, o)
           tier(r) == Tier(Items(hosts, fresh, historical, o), r, o)
           boosted == tier(BoostedReason)
           regular == tier(RegularReason)
           ranked == {i \in plan.items : i.reason = BoostedReason}
           boost == o.boost
           normal == o.normal
           tolerance == o.tolerance
           s == Standing(a)
           t == Standing(b)
<1>1. BoostedReason \in Healthy /\ RegularReason \in Healthy
  BY DEF Healthy, BoostedReason, RegularReason
<1>2. Start(BoostedReason, o) = boost /\ Start(RegularReason, o) = normal
  BY DEF Start, BoostedReason, RegularReason
<1>3. /\ s \in boosted /\ a.priority = TierPriority(boosted, s, boost, tolerance)
      /\ t \in regular /\ b.priority = TierPriority(regular, t, normal, tolerance)
  <2> HIDE DEF boost, normal
  <2>1. /\ s \in boosted
        /\ a.priority = TierPriority(boosted, s, Start(BoostedReason, o), tolerance)
    BY <1>1, RankedIsTier
  <2>2. /\ t \in regular
        /\ b.priority = TierPriority(regular, t, Start(RegularReason, o), tolerance)
    BY <1>1, RankedIsTier
  <2>3. QED  BY <1>2, <2>1, <2>2
<1>4. TierOK(boosted) /\ TierOK(regular)
  <2>1. \A r : TierOK(tier(r))
    BY TierTyped
  <2> HIDE DEF tier
  <2>2. QED  BY <2>1
<1>5. boost \in Nat \ {0} /\ normal \in Nat \ {0} /\ tolerance \in Nat
  BY DEF InputsOK
<1>6. IsFiniteSet(ranked)
  <2> DEFINE creds == DOMAIN hosts
             f == [c \in creds |-> Target(c, hosts, fresh, historical, o)]
  <2>1. plan.items = {Target(c, hosts, fresh, historical, o) : c \in creds}
    BY PlannedIs
  <2>2. IsFiniteSet(creds)
    BY DEF InputsOK
  <2> HIDE DEF plan
  <2>3. f \in Surjection(creds, plan.items)
    BY <2>1 DEF Surjection
  <2>4. IsFiniteSet(plan.items)
    BY <2>2, <2>3, FS_Surjection
  <2>5. QED  BY <2>4, FS_Subset
<1>7. /\ \A x \in ranked : Standing(x) \in boosted
      /\ \A y \in boosted : \E x \in ranked : Standing(x) = y
  BY <1>1, RankedIsTier
<1>8. boost - normal >= Cardinality(ranked)
  OBVIOUS
<1> HIDE DEF boosted, regular, ranked, boost, normal, tolerance, s, t, plan
<1>9. Cardinality(boosted) <= Cardinality(ranked) /\ Cardinality(ranked) \in Nat
  <2> DEFINE f == [x \in ranked |-> Standing(x)]
  <2>1. f \in Surjection(ranked, boosted)
    BY <1>7 DEF Surjection
  <2>2. QED  BY <1>6, <2>1, FS_Surjection, FS_CardinalityType
<1> DEFINE p == a.priority
           q == b.priority
<1>10. p > boost - Cardinality(boosted) /\ p \in 1 .. boost /\ Cardinality(boosted) \in Nat
  BY <1>3, <1>4, <1>5, TierPriorityRange
<1>11. q \in 1 .. normal
  BY <1>3, <1>4, <1>5, TierPriorityRange
<1> HIDE DEF p, q
<1>12. p > q
  BY <1>5, <1>8, <1>9, <1>10, <1>11
<1>13. QED  BY <1>12 DEF p, q

-----------------------------------------------------------------------------
(***************************************************************************)
(* Plans that agree.                                                       *)
(***************************************************************************)

\* Items of one credential that are the same to the tiers.
Alike(i, j) ==
    /\ i.cred = j.cred
    /\ i.reason \in Healthy \/ j.reason \in Healthy
         => i.reason = j.reason /\ Standing(i) = Standing(j)

\* Two plans whose items are alike have the same tiers.
LEMMA TiersAgree ==
    ASSUME NEW hosts, NEW fresh, NEW historical, NEW o, NEW others, NEW fresher, NEW older,
           DOMAIN others = DOMAIN hosts,
           \A c \in DOMAIN hosts : Alike(PlanItem(c, hosts[c], fresh, historical, o),
                                         PlanItem(c, others[c], fresher, older, o)),
           NEW reason \in Healthy
    PROVE  Tier(Items(hosts, fresh, historical, o), reason, o)
             = Tier(Items(others, fresher, older, o), reason, o)
<1> DEFINE creds == DOMAIN hosts
           i(c) == PlanItem(c, hosts[c], fresh, historical, o)
           j(c) == PlanItem(c, others[c], fresher, older, o)
           mine(x) == x.reason = reason /\ ~Cooling(x, o)
<1>1. ASSUME NEW c \in creds
      PROVE  (mine(i(c)) <=> mine(j(c))) /\ (mine(i(c)) => Standing(i(c)) = Standing(j(c)))
  <2>1. Alike(i(c), j(c))
    OBVIOUS
  <2> HIDE DEF i, j
  <2>2. i(c).reason = reason \/ j(c).reason = reason
          => i(c).reason = j(c).reason /\ Standing(i(c)) = Standing(j(c)) /\ i(c).cred = j(c).cred
    BY <2>1 DEF Alike
  <2>3. QED  BY <2>2 DEF Cooling
<1>2. /\ Tier(Items(hosts, fresh, historical, o), reason, o)
           = {Standing(x) : x \in {y \in {i(c) : c \in creds} : mine(y)}}
      /\ Tier(Items(others, fresher, older, o), reason, o)
           = {Standing(x) : x \in {y \in {j(c) : c \in creds} : mine(y)}}
  BY DEF Tier, Items
<1> HIDE DEF i, j, mine
<1>3. {Standing(x) : x \in {y \in {i(c) : c \in creds} : mine(y)}}
        = {Standing(x) : x \in {y \in {j(c) : c \in creds} : mine(y)}}
  BY <1>1
<1>4. QED  BY <1>2, <1>3

\* Then items that are judged the same have the same targets.
LEMMA TargetsAgree ==
    ASSUME NEW hosts, NEW fresh, NEW historical, NEW o, NEW others, NEW fresher, NEW older,
           DOMAIN others = DOMAIN hosts,
           \A c \in DOMAIN hosts : Alike(PlanItem(c, hosts[c], fresh, historical, o),
                                         PlanItem(c, others[c], fresher, older, o)),
           NEW c \in DOMAIN hosts,
           LET i == PlanItem(c, hosts[c], fresh, historical, o)
               j == PlanItem(c, others[c], fresher, older, o)
           IN /\ i.reason = j.reason /\ i.disabled = j.disabled
              /\ i.reason \notin Healthy => i.priority = j.priority
    PROVE  LET a == Target(c, hosts, fresh, historical, o)
               b == Target(c, others, fresher, older, o)
           IN a.priority = b.priority /\ a.disabled = b.disabled /\ a.reason = b.reason
<1> DEFINE i == PlanItem(c, hosts[c], fresh, historical, o)
           j == PlanItem(c, others[c], fresher, older, o)
           a == Target(c, hosts, fresh, historical, o)
           b == Target(c, others, fresher, older, o)
           tier == Tier(Items(hosts, fresh, historical, o), i.reason, o)
           p == TierPriority(tier, Standing(i), Start(i.reason, o), o.tolerance)
<1>1. /\ i.reason = j.reason /\ i.disabled = j.disabled
      /\ i.reason \notin Healthy => i.priority = j.priority
      /\ Alike(i, j)
  OBVIOUS
<1>2. /\ SameItem(i, a)
      /\ i.reason \notin Healthy => a = i
      /\ i.reason \in Healthy /\ Cooling(i, o)
           => a.reason = CooldownReason /\ a.priority = DepletedPriority
      /\ i.reason \in Healthy /\ ~Cooling(i, o) => a.reason = i.reason /\ a.priority = p
  BY TargetIs
<1> DEFINE other == Tier(Items(others, fresher, older, o), j.reason, o)
           q == TierPriority(other, Standing(j), Start(j.reason, o), o.tolerance)
<1>3. /\ SameItem(j, b)
      /\ j.reason \notin Healthy => b = j
      /\ j.reason \in Healthy /\ Cooling(j, o)
           => b.reason = CooldownReason /\ b.priority = DepletedPriority
      /\ j.reason \in Healthy /\ ~Cooling(j, o) => b.reason = j.reason /\ b.priority = q
  BY TargetIs
<1>4. i.reason \in Healthy => tier = other
  <2> DEFINE reason == i.reason
  <2>1. reason = j.reason
    BY <1>1
  <2> HIDE DEF reason
  <2>2. reason \in Healthy =>
          Tier(Items(hosts, fresh, historical, o), reason, o)
            = Tier(Items(others, fresher, older, o), reason, o)
    BY TiersAgree
  <2>3. QED  BY <2>1, <2>2 DEF reason
<1> HIDE DEF i, j, a, b, tier, other
<1>5. i.reason \in Healthy => p = q
  BY <1>1, <1>4 DEF Alike
<1>6. Cooling(i, o) <=> Cooling(j, o)
  BY <1>1 DEF Alike, Cooling
<1> HIDE DEF p, q
<1>7. a.priority = b.priority /\ a.disabled = b.disabled /\ a.reason = b.reason
  BY <1>1, <1>2, <1>3, <1>5, <1>6 DEF SameItem
<1>8. QED  BY <1>7 DEF a, b

\* Evidence that agrees, whichever of it is fresh, gives the same targets.
LEMMA SameEvidence ==
    ASSUME NEW hosts, NEW fresh, NEW historical, NEW o, NEW fresher, NEW older,
           \A c \in DOMAIN hosts :
              /\ Known(c, fresh, historical) <=> Known(c, fresher, older)
              /\ Known(c, fresh, historical)
                   => EvidenceOn(c, fresh, historical) = EvidenceOn(c, fresher, older),
           NEW c \in DOMAIN hosts
    PROVE  LET a == Target(c, hosts, fresh, historical, o)
               b == Target(c, hosts, fresher, older, o)
           IN a.priority = b.priority /\ a.disabled = b.disabled /\ a.reason = b.reason
<1> DEFINE i(x) == PlanItem(x, hosts[x], fresh, historical, o)
           j(x) == PlanItem(x, hosts[x], fresher, older, o)
           same(x) == /\ i(x).reason = j(x).reason /\ i(x).disabled = j(x).disabled
                      /\ i(x).reason \notin Healthy => i(x).priority = j(x).priority
<1>1. ASSUME NEW x \in DOMAIN hosts
      PROVE  Alike(i(x), j(x)) /\ same(x)
  <2> DEFINE h == hosts[x]
             e == EvidenceOn(x, fresh, historical)
             on == ItemOn(x, h, e, fresh, o.now)
             off == ItemOn(x, h, e, fresher, o.now)
  <2>1. \/ i(x) = j(x)
        \/ i(x) = on /\ j(x) = off
    <3> HIDE DEF e
    <3>1. i(x) = IF h.disabled /\ o.ignoreDisabled THEN Ignored(x, h)
                 ELSE IF ~Known(x, fresh, historical) THEN Kept(x, h)
                 ELSE ItemOn(x, h, EvidenceOn(x, fresh, historical), fresh, o.now)
      BY PlanItemIs
    <3>2. j(x) = IF h.disabled /\ o.ignoreDisabled THEN Ignored(x, h)
                 ELSE IF ~Known(x, fresher, older) THEN Kept(x, h)
                 ELSE ItemOn(x, h, EvidenceOn(x, fresher, older), fresher, o.now)
      BY PlanItemIs
    <3> HIDE DEF i, j, h
    <3>3. QED  BY <3>1, <3>2 DEF e
  <2>2. CASE i(x) = j(x)
    <3> HIDE DEF i, j
    <3>1. QED  BY <2>2 DEF Alike
  <2>3. CASE i(x) = on /\ j(x) = off
    <3> DEFINE now == o.now
    <3> HIDE DEF h, e, now
    <3>1. LET k == ItemOn(x, h, e, fresh, now) IN
          /\ k.cred = x /\ k.reason = StateOf(e, now) /\ k.disabled = (k.reason = DepletedReason)
          /\ k.reason \notin Healthy => k.priority = DepletedPriority
          /\ k.urgency = Urgency(e, now) /\ k.t5 = T5h(e, now)
      BY ItemOnFields
    <3>2. LET k == ItemOn(x, h, e, fresher, now) IN
          /\ k.cred = x /\ k.reason = StateOf(e, now) /\ k.disabled = (k.reason = DepletedReason)
          /\ k.reason \notin Healthy => k.priority = DepletedPriority
          /\ k.urgency = Urgency(e, now) /\ k.t5 = T5h(e, now)
      BY ItemOnFields
    <3> HIDE DEF i, j
    <3>3. /\ i(x).cred = x /\ i(x).reason = StateOf(e, now)
          /\ i(x).disabled = (i(x).reason = DepletedReason)
          /\ i(x).reason \notin Healthy => i(x).priority = DepletedPriority
          /\ i(x).urgency = Urgency(e, now) /\ i(x).t5 = T5h(e, now)
      BY <2>3, <3>1 DEF now
    <3>4. /\ j(x).cred = x /\ j(x).reason = StateOf(e, now)
          /\ j(x).disabled = (j(x).reason = DepletedReason)
          /\ j(x).reason \notin Healthy => j(x).priority = DepletedPriority
          /\ j(x).urgency = Urgency(e, now) /\ j(x).t5 = T5h(e, now)
      BY <2>3, <3>2 DEF now
    <3>5. QED  BY <3>3, <3>4 DEF Alike, Standing
  <2>4. QED  BY <2>1, <2>2, <2>3
<1>2. \A x \in DOMAIN hosts : Alike(PlanItem(x, hosts[x], fresh, historical, o),
                                    PlanItem(x, hosts[x], fresher, older, o))
  BY <1>1
<1>3. LET u == PlanItem(c, hosts[c], fresh, historical, o)
          v == PlanItem(c, hosts[c], fresher, older, o)
      IN /\ u.reason = v.reason /\ u.disabled = v.disabled
         /\ u.reason \notin Healthy => u.priority = v.priority
  BY <1>1
<1>4. QED  BY <1>2, <1>3, TargetsAgree

-----------------------------------------------------------------------------
(***************************************************************************)
(* A plan that has been carried out.                                       *)
(***************************************************************************)
CarriedOut(plan, hosts) ==
    [c \in DOMAIN hosts |->
        IF c \notin {i.cred : i \in plan.changes} THEN hosts[c]
        ELSE [priority |-> ItemOf(plan, c).priority, missing |-> FALSE,
              disabled |-> ItemOf(plan, c).disabled]]

\* What becomes of a credential that the plan has changed: it is left alone, or
\* judged as before.
Settled(h, i, j, t) ==
    /\ h = [priority |-> t.priority, missing |-> FALSE, disabled |-> t.disabled]
    /\ Alike(i, j)
    /\ \/ j.fresh = FALSE
       \/ /\ j.reason = i.reason /\ j.disabled = i.disabled
          /\ i.reason \notin Healthy => j.priority = i.priority
    /\ t.disabled = i.disabled

LEMMA ChangedItem ==
    ASSUME NEW hosts, NEW fresh, NEW historical, NEW o, NEW c \in DOMAIN hosts,
           LET plan == Planned(hosts, fresh, historical, o)
           IN c \in {i.cred : i \in plan.changes}
    PROVE  LET plan == Planned(hosts, fresh, historical, o)
               h == CarriedOut(plan, hosts)[c]
               i == PlanItem(c, hosts[c], fresh, historical, o)
               j == PlanItem(c, h, fresh, historical, o)
               t == Target(c, hosts, fresh, historical, o)
           IN Settled(h, i, j, t)
<1> DEFINE plan == Planned(hosts, fresh, historical, o)
           h == CarriedOut(plan, hosts)[c]
           old == hosts[c]
           i == PlanItem(c, old, fresh, historical, o)
           j == PlanItem(c, h, fresh, historical, o)
           t == Target(c, hosts, fresh, historical, o)
           e == EvidenceOn(c, fresh, historical)
           now == o.now
<1>1. /\ plan.items = {Target(d, hosts, fresh, historical, o) : d \in DOMAIN hosts}
      /\ plan.changes = {x \in plan.items : ShouldChange(x, o)}
      /\ \A d \in DOMAIN hosts : /\ ItemOf(plan, d) = Target(d, hosts, fresh, historical, o)
                                 /\ Target(d, hosts, fresh, historical, o).cred = d
  BY PlannedIs
<1>2. c \in {x.cred : x \in plan.changes}
  OBVIOUS
<1>3. h = [priority |-> t.priority, missing |-> FALSE, disabled |-> t.disabled]
  BY <1>1, <1>2 DEF CarriedOut
<1>4. t.fresh
  <2> HIDE DEF plan
  <2>1. PICK x \in plan.changes : x.cred = c
    BY <1>2
  <2>2. x = t /\ ShouldChange(x, o)
    BY <1>1, <2>1
  <2>3. QED  BY <2>2 DEF ShouldChange
<1>5. SameItem(i, t) /\ i.cred = c
  BY TargetIs
<1> HIDE DEF plan, h, t
<1>6. i.fresh /\ t.disabled = i.disabled
  BY <1>4, <1>5 DEF SameItem
<1>7. ~(old.disabled /\ o.ignoreDisabled) /\ Known(c, fresh, historical)
  BY <1>6, PlanItemFresh
<1>8. i = ItemOn(c, old, e, fresh, now)
  BY <1>7, PlanItemIs
<1>9. j = Ignored(c, h) \/ j = ItemOn(c, h, e, fresh, now)
  BY <1>7, PlanItemIs
<1>10. j = Ignored(c, h) => i.disabled \/ j = ItemOn(c, h, e, fresh, now)
  <2>1. h.disabled = t.disabled
    BY <1>3
  <2>2. h.disabled \/ j = ItemOn(c, h, e, fresh, now)
    BY <1>7, PlanItemIs
  <2> HIDE DEF i, j
  <2>3. QED  BY <1>6, <2>1, <2>2
<1> HIDE DEF e, now, old
<1>11. /\ i.reason = StateOf(e, now) /\ i.disabled = (i.reason = DepletedReason)
       /\ i.reason \notin Healthy => i.priority = DepletedPriority
       /\ i.urgency = Urgency(e, now) /\ i.t5 = T5h(e, now)
  BY <1>8, ItemOnFields
<1>12. CASE j = ItemOn(c, h, e, fresh, now)
  <2>1. /\ j.cred = c /\ j.reason = StateOf(e, now) /\ j.disabled = (j.reason = DepletedReason)
        /\ j.reason \notin Healthy => j.priority = DepletedPriority
        /\ j.urgency = Urgency(e, now) /\ j.t5 = T5h(e, now)
    <3>1. LET k == ItemOn(c, h, e, fresh, now) IN
          /\ k.cred = c /\ k.reason = StateOf(e, now) /\ k.disabled = (k.reason = DepletedReason)
          /\ k.reason \notin Healthy => k.priority = DepletedPriority
          /\ k.urgency = Urgency(e, now) /\ k.t5 = T5h(e, now)
      BY ItemOnFields
    <3> HIDE DEF j
    <3>2. QED  BY <1>12, <3>1
  <2> HIDE DEF i, j
  <2>2. /\ Alike(i, j) /\ j.reason = i.reason /\ j.disabled = i.disabled
        /\ i.reason \notin Healthy => j.priority = i.priority
    BY <1>5, <1>11, <2>1 DEF Alike, Standing
  <2>3. QED  BY <1>3, <1>6, <2>2 DEF i, j, plan, h, t, old, Settled
<1>13. CASE j = Ignored(c, h) /\ i.disabled
  <2>1. IsKept(j, c, h)
    <3>1. IsKept(Ignored(c, h), c, h)
      BY KeptItems
    <3> HIDE DEF j
    <3>2. QED  BY <1>13, <3>1
  <2>2. i.reason \notin Healthy
    <3>1. DepletedReason \notin Healthy
      BY DEF DepletedReason, Healthy
    <3> HIDE DEF i
    <3>2. QED  BY <1>11, <1>13, <3>1
  <2> HIDE DEF i, j
  <2>3. Alike(i, j) /\ j.fresh = FALSE
    BY <1>5, <2>1, <2>2 DEF Alike, IsKept
  <2>4. QED  BY <1>3, <1>6, <2>3 DEF i, j, plan, h, t, old, Settled
<1>14. QED
  <2> HIDE DEF i, j
  <2>1. QED  BY <1>9, <1>10, <1>12, <1>13

\* The next plan on the same evidence changes nothing.
LEMMA PlanIsSettled ==
    ASSUME NEW hosts, NEW fresh, NEW historical, NEW o
    PROVE  LET plan == Planned(hosts, fresh, historical, o)
           IN Planned(CarriedOut(plan, hosts), fresh, historical, o).changes = {}
<1> DEFINE plan == Planned(hosts, fresh, historical, o)
           after == CarriedOut(plan, hosts)
           next == Planned(after, fresh, historical, o)
           changed == {x.cred : x \in plan.changes}
           i(c) == PlanItem(c, hosts[c], fresh, historical, o)
           j(c) == PlanItem(c, after[c], fresh, historical, o)
           s(c) == Target(c, hosts, fresh, historical, o)
           t(c) == Target(c, after, fresh, historical, o)
<1>1. /\ plan.items = {Target(c, hosts, fresh, historical, o) : c \in DOMAIN hosts}
      /\ plan.changes = {x \in plan.items : ShouldChange(x, o)}
      /\ \A c \in DOMAIN hosts : /\ ItemOf(plan, c) = Target(c, hosts, fresh, historical, o)
                                 /\ Target(c, hosts, fresh, historical, o).cred = c
  BY PlannedIs
<1>2. DOMAIN after = DOMAIN hosts
  BY DEF CarriedOut
<1>3. /\ next.items = {Target(c, after, fresh, historical, o) : c \in DOMAIN after}
      /\ next.changes = {x \in next.items : ShouldChange(x, o)}
  <2> HIDE DEF after
  <2>1. QED  BY PlannedIs
<1>4. \A c \in DOMAIN hosts : c \notin changed => after[c] = hosts[c]
  BY DEF CarriedOut
<1>5. ASSUME NEW c \in DOMAIN hosts, c \in changed
      PROVE  Settled(after[c], i(c), j(c), s(c))
  <2>1. c \in {x.cred : x \in Planned(hosts, fresh, historical, o).changes}
    BY <1>5
  <2>2. QED  BY <2>1, ChangedItem
<1>6. \A c \in DOMAIN hosts : Alike(i(c), j(c))
  <2>1. ASSUME NEW c \in DOMAIN hosts, c \notin changed PROVE Alike(i(c), j(c))
    <3>1. i(c) = j(c)
      BY <1>4, <2>1
    <3> HIDE DEF i, j
    <3>2. QED  BY <3>1 DEF Alike
  <2>2. QED  BY <1>5, <2>1 DEF Settled
<1>7. ASSUME NEW c \in DOMAIN hosts,
             j(c).reason = i(c).reason /\ j(c).disabled = i(c).disabled
               /\ (i(c).reason \notin Healthy => j(c).priority = i(c).priority)
      PROVE  t(c).priority = s(c).priority /\ t(c).disabled = s(c).disabled
  <2> HIDE DEF after
  <2>1. \A d \in DOMAIN hosts : Alike(PlanItem(d, hosts[d], fresh, historical, o),
                                      PlanItem(d, after[d], fresh, historical, o))
    BY <1>6
  <2>2. LET u == PlanItem(c, hosts[c], fresh, historical, o)
            v == PlanItem(c, after[c], fresh, historical, o)
        IN /\ u.reason = v.reason /\ u.disabled = v.disabled
           /\ u.reason \notin Healthy => u.priority = v.priority
    BY <1>7
  <2>3. QED  BY <1>2, <2>1, <2>2, TargetsAgree
<1>8. ASSUME NEW c
      PROVE  /\ SameItem(i(c), s(c)) /\ i(c).host = hosts[c]
             /\ SameItem(j(c), t(c)) /\ j(c).host = after[c]
  <2> HIDE DEF after
  <2>1. SameItem(i(c), s(c)) /\ i(c).host = hosts[c]
    BY TargetIs
  <2>2. SameItem(j(c), t(c)) /\ j(c).host = after[c]
    BY TargetIs
  <2>3. QED  BY <2>1, <2>2
<1>12. /\ plan.items = {s(c) : c \in DOMAIN hosts}
       /\ \A c \in DOMAIN hosts : s(c).cred = c
       /\ next.items = {t(c) : c \in DOMAIN after}
  BY <1>1, <1>3
<1> HIDE DEF plan, after, next, i, j, s, t
<1>9. ASSUME NEW c \in DOMAIN hosts PROVE ~ShouldChange(t(c), o)
  <2>1. CASE c \in changed /\ j(c).fresh = FALSE
    <3>1. t(c).fresh = FALSE
      BY <1>8, <2>1 DEF SameItem
    <3>2. QED  BY <3>1 DEF ShouldChange
  <2>2. CASE /\ c \in changed
             /\ j(c).reason = i(c).reason /\ j(c).disabled = i(c).disabled
             /\ i(c).reason \notin Healthy => j(c).priority = i(c).priority
    <3>1. t(c).priority = s(c).priority /\ t(c).disabled = s(c).disabled
      BY <1>7, <2>2
    <3>2. t(c).host = [priority |-> s(c).priority, missing |-> FALSE, disabled |-> s(c).disabled]
      <4>1. t(c).host = j(c).host /\ j(c).host = after[c]
        BY <1>8 DEF SameItem
      <4>2. after[c] = [priority |-> s(c).priority, missing |-> FALSE, disabled |-> s(c).disabled]
        BY <1>5, <2>2 DEF Settled
      <4>3. QED  BY <4>1, <4>2
    <3>3. QED  BY <3>1, <3>2 DEF ShouldChange
  <2>3. CASE c \notin changed
    <3>1. s(c) \notin plan.changes
      BY <1>1, <1>12, <2>3
    <3>2. ~ShouldChange(s(c), o)
      BY <1>1, <1>12, <3>1
    <3>3. i(c) = j(c)
      BY <1>4, <2>3 DEF i, j
    <3>4. t(c).priority = s(c).priority /\ t(c).disabled = s(c).disabled
      BY <1>7, <3>3
    <3>5. t(c).host = s(c).host /\ t(c).fresh = s(c).fresh
      BY <1>8, <3>3 DEF SameItem
    <3>6. QED  BY <3>2, <3>4, <3>5 DEF ShouldChange
  <2>4. QED  BY <1>5, <2>1, <2>2, <2>3 DEF Settled
<1>10. next.changes = {}
  BY <1>2, <1>3, <1>9, <1>12
<1>11. QED  BY <1>10 DEF next, after, plan

=============================================================================

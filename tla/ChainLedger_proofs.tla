------------------------- MODULE ChainLedger_proofs -------------------------
(***************************************************************************)
(* Proofs about ChainLedger, for any number of links and any payloads: the *)
(* links and their pointers are those of one chain at all times, nothing   *)
(* is leaked, and the list implements the sequence of Ledger.              *)
(***************************************************************************)
EXTENDS ChainLedger, Sequences, SequenceTheorems, FiniteSetTheorems, WellFoundedInduction, TLAPS

N == Cardinality(Links)

\* w lists the k links of the ledger from the head to the tail.
Chained(w, k) ==
  /\ k \in Nat /\ w \in [1..k -> links]
  /\ \A l \in links : \E i \in 1..k : w[i] = l
  /\ \A i, j \in 1..k : w[i] = w[j] => i = j
  /\ head_node = IF k = 0 THEN Null ELSE w[1]
  /\ tail_node = IF k = 0 THEN Null ELSE w[k]
  /\ \A i \in 1..k : predecessor_link[w[i]] = IF i = 1 THEN Null ELSE w[i - 1]
  /\ \A i \in 1..k : successor_link[w[i]] = IF i = k THEN Null ELSE w[i + 1]

\* The inductive invariant.
ChainInv ==
  /\ TypeOK
  /\ blocks = links \cup handed
  /\ links \cap handed = {}
  /\ \E k \in Nat : \E w \in [1..k -> links] : Chained(w, k)

LEMMA NIsNat == N \in Nat
  BY FS_CardinalityType, ChainAssumption DEF N

-----------------------------------------------------------------------------
(* What the links of a chain are to the walk along them. *)

\* The links fit in the walk.
LEMMA ChainFits == \A k, w : TypeOK /\ Chained(w, k) => k <= N
<1> SUFFICES ASSUME NEW k, NEW w, TypeOK, Chained(w, k) PROVE k <= N
  OBVIOUS
<1>1. k \in Nat /\ w \in [1..k -> Links] /\ \A i, j \in 1..k : w[i] = w[j] => i = j
  BY DEF Chained, TypeOK
<1>2. w \in Injection(1..k, Links)
  BY <1>1 DEF Injection, IsInjective
<1>3. Cardinality(1..k) <= Cardinality(Links)
  BY <1>2, FS_Injection, ChainAssumption
<1>4. Cardinality(1..k) = k
  BY <1>1, FS_Interval
<1> QED
  BY <1>3, <1>4 DEF N

\* The n-th step of the walk comes to the n-th link, and then to none.
LEMMA WalkIsChain ==
  \A k, w : TypeOK /\ Chained(w, k) =>
    /\ DOMAIN Walk = 0..N
    /\ \A n \in 0..N : Walk[n] = IF n < k THEN w[n + 1] ELSE Null
<1> SUFFICES ASSUME NEW k, NEW w, TypeOK, Chained(w, k)
             PROVE  /\ DOMAIN Walk = 0..N
                    /\ \A n \in 0..N : Walk[n] = IF n < k THEN w[n + 1] ELSE Null
  OBVIOUS
<1> DEFINE Step(f, n) == IF n = 0 THEN head_node
                         ELSE IF f[n - 1] = Null THEN Null ELSE successor_link[f[n - 1]]
           path == [n \in 0..N |-> IF n < k THEN w[n + 1] ELSE Null]
<1>1. Walk = CHOOSE f : f = [n \in 0..N |-> Step(f, n)]
  BY DEF Walk, N
<1>2. k \in Nat /\ w \in [1..k -> links] /\ Null \notin links
  BY ChainAssumption DEF Chained, TypeOK
<1>3. \A n \in 0..N : path[n] = Step(path, n)
  <2> SUFFICES ASSUME NEW n \in 0..N PROVE path[n] = Step(path, n)
    OBVIOUS
  <2>1. CASE n = 0
    BY <1>2, <2>1, NIsNat DEF Chained
  <2>2. CASE n # 0
    <3>1. n - 1 \in 0..N /\ n \in Nat \ {0}
      BY <2>2, NIsNat
    <3>2. path[n - 1] = IF n - 1 < k THEN w[n] ELSE Null
      BY <3>1
    <3>3. CASE n - 1 < k
      <4>1. n \in 1..k
        BY <1>2, <3>1, <3>3
      <4>2. path[n - 1] = w[n] /\ w[n] # Null
        BY <1>2, <3>2, <3>3, <4>1
      <4>3. successor_link[w[n]] = IF n = k THEN Null ELSE w[n + 1]
        BY <4>1 DEF Chained
      <4>4. path[n] = IF n = k THEN Null ELSE w[n + 1]
        BY <4>1, <1>2
      <4> QED
        BY <2>2, <4>2, <4>3, <4>4
    <3>4. CASE ~ (n - 1 < k)
      BY <1>2, <2>2, <3>1, <3>2, <3>4
    <3> QED
      BY <3>3, <3>4
  <2> QED
    BY <2>1, <2>2
<1>4. path = [n \in 0..N |-> Step(path, n)]
  BY <1>3
<1> HIDE DEF path
<1>5. Walk = [n \in 0..N |-> Step(Walk, n)]
  BY <1>1, <1>4
<1>6. DOMAIN Walk = 0..N /\ \A n \in 0..N : Walk[n] = Step(Walk, n)
  BY <1>5
<1> HIDE DEF Walk
<1>7. \A n \in 0..N : Walk[n] = path[n]
  <2> DEFINE off == {n \in 0..N : Walk[n] # path[n]}
  <2> SUFFICES ASSUME off # {} PROVE FALSE
    OBVIOUS
  <2>1. off \subseteq Nat
    BY NIsNat
  <2> HIDE DEF off
  <2>2. PICK n \in off : \A m \in off : <<m, n>> \notin OpToRel(<, Nat)
    BY <2>1, NatLessThanWellFounded, WFMin
  <2>3. \A m \in off : ~ (m < n)
    BY <2>1, <2>2 DEF OpToRel
  <2>4. n \in 0..N /\ Walk[n] # path[n]
    BY DEF off
  <2>5. n # 0
    BY <1>3, <1>6, <2>4
  <2>6. n - 1 \in 0..N /\ n - 1 < n
    BY <2>4, <2>5, NIsNat
  <2>7. Walk[n - 1] = path[n - 1]
    BY <2>3, <2>6 DEF off
  <2> QED
    BY <1>3, <1>6, <2>4, <2>7
<1> QED
  BY <1>6, <1>7 DEF path

\* The steps that come to a link.
LEMMA ReachedIsChain ==
  \A k, w : TypeOK /\ Chained(w, k) =>
    /\ Reached = 0 .. k - 1
    /\ \A n \in 0 .. k - 1 : Walk[n] = w[n + 1]
    /\ Cardinality(Reached) = k
<1> SUFFICES ASSUME NEW k, NEW w, TypeOK, Chained(w, k)
             PROVE  /\ Reached = 0 .. k - 1
                    /\ \A n \in 0 .. k - 1 : Walk[n] = w[n + 1]
                    /\ Cardinality(Reached) = k
  OBVIOUS
<1>1. k \in Nat /\ w \in [1..k -> links] /\ Null \notin links
  BY ChainAssumption DEF Chained, TypeOK
<1>2. k <= N
  BY ChainFits
<1>3. DOMAIN Walk = 0..N /\ \A n \in 0..N : Walk[n] = IF n < k THEN w[n + 1] ELSE Null
  BY WalkIsChain
<1> HIDE DEF Walk
<1>4. \A n \in 0..N : Walk[n] # Null <=> n < k
  <2> SUFFICES ASSUME NEW n \in 0..N PROVE Walk[n] # Null <=> n < k
    OBVIOUS
  <2>1. CASE n < k
    <3>1. n + 1 \in 1..k
      BY <1>1, <2>1, NIsNat
    <3> QED
      BY <1>1, <1>3, <2>1, <3>1
  <2>2. CASE ~ (n < k)
    BY <1>3, <2>2
  <2> QED
    BY <2>1, <2>2
<1>5. \A n : n \in 0 .. k - 1 <=> n \in 0..N /\ n < k
  BY <1>1, <1>2, NIsNat
<1>6. Reached = 0 .. k - 1
  BY <1>3, <1>4, <1>5 DEF Reached
<1>7. Cardinality(0 .. k - 1) = k
  BY <1>1, FS_Interval
<1> QED
  BY <1>3, <1>5, <1>6, <1>7

\* The sequence the ledger holds.
Contents(w, k) == [i \in 1..k |-> payload_data[w[i]]]

HeldTells == \A k, w : TypeOK /\ Chained(w, k) => Held = Contents(w, k)

LEMMA HeldIsChain == HeldTells
<1> SUFFICES ASSUME NEW k, NEW w, TypeOK, Chained(w, k) PROVE Held = Contents(w, k)
  BY DEF HeldTells
<1>1. k \in Nat
  BY DEF Chained
<1>2. /\ \A n \in 0 .. k - 1 : Walk[n] = w[n + 1]
      /\ Cardinality(Reached) = k
  BY ReachedIsChain
<1> HIDE DEF Walk
<1>3. \A i \in 1..k : Walk[i - 1] = w[i]
  BY <1>1, <1>2
<1> QED
  BY <1>2, <1>3 DEF Held, Contents

-----------------------------------------------------------------------------
(* What a call does to the chain. *)

\* The chain w without its i-th link, and with l behind it.
Without(w, k, i) == [j \in 1 .. k - 1 |-> IF j < i THEN w[j] ELSE w[j + 1]]
With(w, k, l) == [j \in 1 .. k + 1 |-> IF j = k + 1 THEN l ELSE w[j]]

LEMMA UnlinkKeepsChain ==
  ASSUME TypeOK, NEW k, NEW w, Chained(w, k), NEW i \in 1..k, Unlinks(w[i])
  PROVE  Chained(Without(w, k, i), k - 1)' /\ k - 1 \in Nat
<1> DEFINE v == Without(w, k, i)
           before == IF i = 1 THEN Null ELSE w[i - 1]
           behind == IF i = k THEN Null ELSE w[i + 1]
<1>1. /\ k \in Nat /\ i \in 1..k /\ w \in [1..k -> links]
      /\ \A l \in links : \E j \in 1..k : w[j] = l
      /\ \A a, b \in 1..k : w[a] = w[b] => a = b
      /\ Null \notin links /\ links \subseteq Links
  BY ChainAssumption DEF Chained, TypeOK
<1>2. predecessor_link[w[i]] = before /\ successor_link[w[i]] = behind
  BY DEF Chained
<1>3. (before = Null <=> i = 1) /\ (behind = Null <=> i = k)
  <2>1. i # 1 => i - 1 \in 1..k
    BY <1>1
  <2>2. i # k => i + 1 \in 1..k
    BY <1>1
  <2> QED
    BY <1>1, <2>1, <2>2
<1>4. /\ head_node' = IF i = 1 THEN behind ELSE head_node
      /\ tail_node' = IF i = k THEN before ELSE tail_node
      /\ successor_link' = IF i = 1 THEN successor_link
                           ELSE [successor_link EXCEPT ![before] = behind]
      /\ predecessor_link' = IF i = k THEN predecessor_link
                             ELSE [predecessor_link EXCEPT ![behind] = before]
      /\ links' = links \ {w[i]}
  BY <1>2, <1>3 DEF Unlinks
<1>5. /\ v = [j \in 1 .. k - 1 |-> IF j < i THEN w[j] ELSE w[j + 1]]
      /\ \A j \in 1 .. k - 1 : v[j] = IF j < i THEN w[j] ELSE w[j + 1]
      /\ \A j \in 1 .. k - 1 : j \in 1..k /\ j + 1 \in 1..k
  BY <1>1 DEF Without
<1> HIDE DEF v
<1>6. k - 1 \in Nat
  BY <1>1
<1>7. \A j \in 1 .. k - 1 : v[j] \in links'
  <2> SUFFICES ASSUME NEW j \in 1 .. k - 1 PROVE v[j] \in links'
    OBVIOUS
  <2>1. (IF j < i THEN j ELSE j + 1) \in 1..k /\ (IF j < i THEN j ELSE j + 1) # i
    BY <1>1, <1>5
  <2>2. v[j] = w[IF j < i THEN j ELSE j + 1]
    BY <1>5
  <2> QED
    BY <1>1, <1>4, <2>1, <2>2
<1>8. v \in [1 .. k - 1 -> links']
  BY <1>5, <1>7
<1>9. ASSUME NEW l \in links' PROVE \E j \in 1 .. k - 1 : v[j] = l
  <2>1. PICK j \in 1..k : w[j] = l
    BY <1>1, <1>4
  <2>2. j # i
    BY <1>4, <2>1
  <2>3. CASE j < i
    <3>1. j \in 1 .. k - 1 /\ v[j] = w[j]
      BY <1>1, <1>5, <2>3
    <3> QED
      BY <2>1, <3>1
  <2>4. CASE ~ (j < i)
    <3>1. j - 1 \in 1 .. k - 1 /\ ~ (j - 1 < i) /\ (j - 1) + 1 = j
      BY <1>1, <2>2, <2>4
    <3>2. v[j - 1] = w[j]
      BY <1>5, <3>1
    <3> QED
      BY <2>1, <3>1, <3>2
  <2> QED
    BY <2>3, <2>4
<1>10. ASSUME NEW a \in 1 .. k - 1, NEW b \in 1 .. k - 1, v[a] = v[b] PROVE a = b
  <2> DEFINE at(j) == IF j < i THEN j ELSE j + 1
  <2>1. at(a) \in 1..k /\ at(b) \in 1..k
    BY <1>5
  <2>2. v[a] = w[at(a)] /\ v[b] = w[at(b)]
    BY <1>5
  <2>3. at(a) = at(b)
    BY <1>1, <1>10, <2>1, <2>2
  <2> QED
    BY <1>1, <2>3
<1>11. head_node' = IF k - 1 = 0 THEN Null ELSE v[1]
  <2>1. CASE k = 1
    BY <1>1, <1>4, <2>1
  <2>2. CASE k # 1
    <3>1. 1 \in 1 .. k - 1 /\ v[1] = IF i = 1 THEN w[2] ELSE w[1]
      BY <1>1, <1>5, <2>2
    <3>2. head_node = w[1] /\ (i = 1 => behind = w[2])
      BY <1>1, <2>2 DEF Chained
    <3> QED
      BY <1>1, <1>4, <2>2, <3>1, <3>2
  <2> QED
    BY <2>1, <2>2
<1>12. tail_node' = IF k - 1 = 0 THEN Null ELSE v[k - 1]
  <2>1. CASE k = 1
    BY <1>1, <1>4, <2>1
  <2>2. CASE k # 1
    <3>1. k - 1 \in 1 .. k - 1 /\ v[k - 1] = IF i = k THEN w[k - 1] ELSE w[k]
      BY <1>1, <1>5, <2>2
    <3>2. tail_node = w[k] /\ (i = k => before = w[k - 1])
      BY <1>1, <2>2 DEF Chained
    <3> QED
      BY <1>1, <1>4, <2>2, <3>1, <3>2
  <2> QED
    BY <2>1, <2>2
<1>13. /\ predecessor_link \in [Links -> Links \cup {Null}]
       /\ successor_link \in [Links -> Links \cup {Null}]
  BY DEF TypeOK
<1>14. \A j \in 1 .. k - 1 : predecessor_link'[v[j]] = IF j = 1 THEN Null ELSE v[j - 1]
  <2> SUFFICES ASSUME NEW j \in 1 .. k - 1
               PROVE  predecessor_link'[v[j]] = IF j = 1 THEN Null ELSE v[j - 1]
    OBVIOUS
  <2>0. \A a \in 1..k : w[a] \in Links /\ predecessor_link[w[a]] = IF a = 1 THEN Null ELSE w[a - 1]
    BY <1>1 DEF Chained
  <2>1. j # 1 => j - 1 \in 1 .. k - 1
    BY <1>1
  <2>2. CASE j < i
    <3>1. v[j] = w[j] /\ (j # 1 => v[j - 1] = w[j - 1])
      BY <1>1, <1>5, <2>1, <2>2
    <3>2. i # k => w[j] # behind
      BY <1>1, <1>5, <2>2
    <3>3. predecessor_link'[w[j]] = predecessor_link[w[j]]
      BY <1>4, <1>5, <1>13, <2>0, <3>2
    <3> QED
      BY <1>5, <2>0, <3>1, <3>3
  <2>3. CASE j = i
    <3>1. i # k /\ v[j] = w[i + 1] /\ behind = w[i + 1] /\ i + 1 \in 1..k
      BY <1>1, <1>5, <2>3
    <3>2. predecessor_link'[behind] = before
      BY <1>4, <1>13, <2>0, <3>1
    <3>3. i # 1 => v[j - 1] = w[i - 1]
      BY <1>1, <1>5, <2>1, <2>3
    <3> QED
      BY <2>3, <3>1, <3>2, <3>3
  <2>4. CASE j > i
    <3>1. v[j] = w[j + 1] /\ v[j - 1] = w[j] /\ j # 1 /\ (j + 1) - 1 = j /\ j + 1 # 1
      BY <1>1, <1>5, <2>1, <2>4
    <3>2. i # k => w[j + 1] # behind
      <4>1. j + 1 \in 1..k /\ (i # k => i + 1 \in 1..k) /\ j + 1 # i + 1
        BY <1>1, <1>5, <2>4
      <4> QED
        BY <1>1, <4>1
    <3>3. predecessor_link'[w[j + 1]] = predecessor_link[w[j + 1]]
      BY <1>4, <1>5, <1>13, <2>0, <3>2
    <3> QED
      BY <1>5, <2>0, <3>1, <3>3
  <2> QED
    BY <1>1, <2>2, <2>3, <2>4
<1>15. \A j \in 1 .. k - 1 : successor_link'[v[j]] = IF j = k - 1 THEN Null ELSE v[j + 1]
  <2> SUFFICES ASSUME NEW j \in 1 .. k - 1
               PROVE  successor_link'[v[j]] = IF j = k - 1 THEN Null ELSE v[j + 1]
    OBVIOUS
  <2>0. \A a \in 1..k : w[a] \in Links /\ successor_link[w[a]] = IF a = k THEN Null ELSE w[a + 1]
    BY <1>1 DEF Chained
  <2>1. j # k - 1 => j + 1 \in 1 .. k - 1
    BY <1>1
  <2>2. CASE j < i - 1
    <3>1. v[j] = w[j] /\ v[j + 1] = w[j + 1] /\ j # k - 1 /\ j # k
      BY <1>1, <1>5, <2>1, <2>2
    <3>2. i # 1 => w[j] # before
      <4>1. j \in 1..k /\ (i # 1 => i - 1 \in 1..k) /\ j # i - 1
        BY <1>1, <1>5, <2>2
      <4> QED
        BY <1>1, <4>1
    <3>3. successor_link'[w[j]] = successor_link[w[j]]
      BY <1>4, <1>5, <1>13, <2>0, <3>2
    <3> QED
      BY <1>5, <2>0, <3>1, <3>3
  <2>3. CASE j = i - 1
    <3>1. i # 1 /\ v[j] = w[i - 1] /\ before = w[i - 1] /\ i - 1 \in 1..k
      BY <1>1, <1>5, <2>3
    <3>2. successor_link'[before] = behind
      BY <1>4, <1>13, <2>0, <3>1
    <3>3. (i = k <=> j = k - 1) /\ (j # k - 1 => v[j + 1] = w[i + 1])
      BY <1>1, <1>5, <2>1, <2>3
    <3> QED
      BY <3>1, <3>2, <3>3
  <2>4. CASE j > i - 1
    <3>1. v[j] = w[j + 1] /\ (j # k - 1 => v[j + 1] = w[j + 2]) /\ (j = k - 1 <=> j + 1 = k)
      BY <1>1, <1>5, <2>1, <2>4
    <3>2. i # 1 => w[j + 1] # before
      <4>1. j + 1 \in 1..k /\ (i # 1 => i - 1 \in 1..k) /\ j + 1 # i - 1
        BY <1>1, <1>5, <2>4
      <4> QED
        BY <1>1, <4>1
    <3>3. successor_link'[w[j + 1]] = successor_link[w[j + 1]]
      BY <1>4, <1>5, <1>13, <2>0, <3>2
    <3>4. successor_link[w[j + 1]] = IF j + 1 = k THEN Null ELSE w[j + 2]
      BY <1>5, <2>0
    <3> QED
      BY <3>1, <3>3, <3>4
  <2> QED
    BY <1>1, <2>2, <2>3, <2>4
<1>16. Chained(v, k - 1)'
  BY <1>6, <1>8, <1>9, <1>10, <1>11, <1>12, <1>14, <1>15 DEF Chained
<1> QED
  BY <1>6, <1>16 DEF v

LEMMA PushKeepsChain ==
  ASSUME TypeOK, NEW k, NEW w, Chained(w, k), NEW l \in Links \ links,
         links' = links \cup {l},
         predecessor_link' = [predecessor_link EXCEPT ![l] = IF head_node = Null THEN Null ELSE tail_node],
         ChainedBehind(l),
         head_node' = IF head_node = Null THEN l ELSE head_node,
         tail_node' = l
  PROVE  Chained(With(w, k, l), k + 1)'
<1> DEFINE v == With(w, k, l)
<1>1. /\ k \in Nat /\ w \in [1..k -> links]
      /\ \A m \in links : \E j \in 1..k : w[j] = m
      /\ \A a, b \in 1..k : w[a] = w[b] => a = b
      /\ Null \notin links /\ links \subseteq Links
      /\ predecessor_link \in [Links -> Links \cup {Null}]
      /\ successor_link \in [Links -> Links \cup {Null}]
  BY ChainAssumption DEF Chained, TypeOK
<1>2. /\ \A j \in 1 .. k + 1 : v[j] = IF j = k + 1 THEN l ELSE w[j]
      /\ v = [j \in 1 .. k + 1 |-> IF j = k + 1 THEN l ELSE w[j]]
      /\ \A j : j \in 1 .. k + 1 <=> j \in 1..k \/ j = k + 1
  BY <1>1 DEF With
<1>3. k + 1 \notin 1..k /\ k + 1 \in Nat
  BY <1>1
<1>4. \A j \in 1..k : v[j] = w[j] /\ w[j] \in links /\ w[j] # l /\ w[j] \in Links
  BY <1>1, <1>2, <1>3
<1>5. v[k + 1] = l
  BY <1>2
<1> HIDE DEF v
<1>6. v \in [1 .. k + 1 -> links']
  BY <1>2, <1>4, <1>5
<1>7. \A m \in links' : \E j \in 1 .. k + 1 : v[j] = m
  BY <1>1, <1>2, <1>4, <1>5
<1>8. \A a, b \in 1 .. k + 1 : v[a] = v[b] => a = b
  BY <1>1, <1>2, <1>4, <1>5
<1>9. head_node = Null <=> k = 0
  <2>1. k # 0 => 1 \in 1..k
    BY <1>1
  <2> QED
    BY <1>1, <2>1 DEF Chained
<1>10. head_node' = v[1] /\ tail_node' = v[k + 1]
  <2>1. k # 0 => 1 \in 1..k /\ head_node = w[1]
    BY <1>1 DEF Chained
  <2> QED
    BY <1>4, <1>5, <1>9, <2>1
<1>11. tail_node = IF k = 0 THEN Null ELSE w[k]
  BY DEF Chained
<1>12. ASSUME NEW j \in 1 .. k + 1
       PROVE  predecessor_link'[v[j]] = IF j = 1 THEN Null ELSE v[j - 1]
  <2>1. CASE j = k + 1
    <3>1. predecessor_link'[l] = IF k = 0 THEN Null ELSE w[k]
      BY <1>1, <1>9, <1>11
    <3>2. k # 0 => k \in 1..k /\ j - 1 = k /\ j # 1
      BY <1>1, <2>1
    <3> QED
      BY <1>4, <1>5, <2>1, <3>1, <3>2
  <2>2. CASE j # k + 1
    <3>1. j \in 1..k /\ (j # 1 => j - 1 \in 1..k)
      BY <1>1, <1>2, <2>2
    <3>2. predecessor_link'[w[j]] = predecessor_link[w[j]]
      BY <1>1, <1>4, <3>1
    <3>3. predecessor_link[w[j]] = IF j = 1 THEN Null ELSE w[j - 1]
      BY <3>1 DEF Chained
    <3> QED
      BY <1>4, <3>1, <3>2, <3>3
  <2> QED
    BY <2>1, <2>2
<1>13. ASSUME NEW j \in 1 .. k + 1
       PROVE  successor_link'[v[j]] = IF j = k + 1 THEN Null ELSE v[j + 1]
  <2>0. successor_link' = IF k = 0 THEN [successor_link EXCEPT ![l] = Null]
                          ELSE [successor_link EXCEPT ![l] = Null, ![w[k]] = l]
    BY <1>9, <1>11 DEF ChainedBehind
  <2>1. k # 0 => k \in 1..k
    BY <1>1
  <2>2. CASE j = k + 1
    <3>1. successor_link'[l] = Null
      BY <1>1, <1>4, <2>0, <2>1
    <3> QED
      BY <1>5, <2>2, <3>1
  <2>3. CASE j # k + 1
    <3>1. j \in 1..k /\ k # 0 /\ (j # k => j + 1 \in 1..k) /\ j \in Nat
      BY <1>1, <1>2, <2>3
    <3>2. successor_link'[w[j]] = IF j = k THEN l ELSE successor_link[w[j]]
      BY <1>1, <1>4, <2>0, <2>1, <3>1
    <3>3. j # k => successor_link[w[j]] = w[j + 1]
      BY <3>1 DEF Chained
    <3> QED
      BY <1>4, <1>5, <2>3, <3>1, <3>2, <3>3
  <2> QED
    BY <2>2, <2>3
<1>14. k + 1 # 0
  BY <1>1
<1>15. Chained(v, k + 1)'
  BY <1>3, <1>6, <1>7, <1>8, <1>10, <1>12, <1>13, <1>14 DEF Chained
<1> QED
  BY <1>15 DEF v

-----------------------------------------------------------------------------
(* The sequences of Ledger. *)

LEMMA AppendIs ==
  ASSUME NEW S, NEW k \in Nat, NEW f \in [1..k -> S], NEW e \in S
  PROVE  With(f, k, e) = Append(f, e)
<1> DEFINE g == [j \in 1 .. k + 1 |-> IF j = k + 1 THEN e ELSE f[j]]
<1>1. f \in Seq(S) /\ Len(f) = k
  OBVIOUS
<1>2. /\ Append(f, e) \in Seq(S) /\ Len(Append(f, e)) = k + 1
      /\ \A j \in 1 .. k + 1 : Append(f, e)[j] = IF j = k + 1 THEN e ELSE f[j]
  BY <1>1
<1>3. \A j \in 1 .. k + 1 : g[j] \in S
  OBVIOUS
<1>4. g \in Seq(S) /\ Len(g) = k + 1 /\ \A j \in 1 .. k + 1 : g[j] = IF j = k + 1 THEN e ELSE f[j]
  BY <1>3
<1> HIDE DEF g
<1>5. g = Append(f, e)
  BY <1>2, <1>4, SeqEqual
<1> QED
  BY <1>5 DEF g, With

LEMMA RemoveIs ==
  ASSUME NEW S, NEW k \in Nat, NEW f \in [1..k -> S], NEW i \in 1..k
  PROVE  Without(f, k, i) = Abstract!RemoveAt(f, i)
<1> DEFINE g == [j \in 1 .. k - 1 |-> IF j < i THEN f[j] ELSE f[j + 1]]
           before == SubSeq(f, 1, i - 1)
           behind == SubSeq(f, i + 1, Len(f))
<1>1. f \in Seq(S) /\ Len(f) = k
  OBVIOUS
<1>2. Abstract!RemoveAt(f, i) = before \o behind
  BY DEF Abstract!RemoveAt
<1>3. /\ before \in Seq(S) /\ Len(before) = i - 1 /\ \A j \in 1 .. i - 1 : before[j] = f[j]
      /\ behind \in Seq(S) /\ Len(behind) = k - i /\ \A j \in 1 .. k - i : behind[j] = f[i + j]
  <2>1. /\ i - 1 \in Int /\ i + 1 \in Int /\ i \in Nat
        /\ \A j \in 1 .. i - 1 : f[j] \in S
        /\ \A j \in i + 1 .. k : f[j] \in S
        /\ (i - 1) - 1 + 1 = i - 1 /\ k - (i + 1) + 1 = k - i
    OBVIOUS
  <2>2. /\ before \in Seq(S)
        /\ Len(before) = IF 1 <= i - 1 THEN (i - 1) - 1 + 1 ELSE 0
        /\ \A j \in 1 .. (i - 1) - 1 + 1 : before[j] = f[1 + j - 1]
    BY <2>1, SubSeqProperties
  <2>3. /\ behind \in Seq(S)
        /\ Len(behind) = IF i + 1 <= k THEN k - (i + 1) + 1 ELSE 0
        /\ \A j \in 1 .. k - (i + 1) + 1 : behind[j] = f[(i + 1) + j - 1]
    BY <1>1, <2>1, SubSeqProperties
  <2> HIDE DEF before, behind
  <2>4. \A j \in 1 .. i - 1 : before[j] = f[j]
    BY <2>1, <2>2
  <2>5. \A j \in 1 .. k - i : behind[j] = f[i + j]
    <3> SUFFICES ASSUME NEW j \in 1 .. k - i PROVE behind[j] = f[i + j]
      OBVIOUS
    <3>1. (i + 1) + j - 1 = i + j
      BY <2>1
    <3> QED
      BY <2>1, <2>3, <3>1
  <2> QED
    BY <2>1, <2>2, <2>3, <2>4, <2>5
<1> HIDE DEF before, behind
<1>4. /\ before \o behind \in Seq(S) /\ Len(before \o behind) = k - 1
      /\ \A j \in 1 .. k - 1 : (before \o behind)[j] = IF j < i THEN before[j] ELSE behind[j - (i - 1)]
  <2>1. /\ before \o behind \in Seq(S) /\ Len(before \o behind) = Len(before) + Len(behind)
        /\ \A j \in 1 .. Len(before) + Len(behind) :
             (before \o behind)[j] = IF j <= Len(before) THEN before[j] ELSE behind[j - Len(before)]
    BY <1>3, ConcatProperties
  <2>2. Len(before) + Len(behind) = k - 1 /\ Len(before) = i - 1
    BY <1>3
  <2>3. \A j \in 1 .. k - 1 : j <= i - 1 <=> j < i
    OBVIOUS
  <2> QED
    BY <2>1, <2>2, <2>3
<1>5. \A j \in 1 .. k - 1 : (before \o behind)[j] = g[j]
  <2> SUFFICES ASSUME NEW j \in 1 .. k - 1 PROVE (before \o behind)[j] = g[j]
    OBVIOUS
  <2>1. CASE j < i
    BY <1>3, <1>4, <2>1
  <2>2. CASE ~ (j < i)
    <3>1. j - (i - 1) \in 1 .. k - i /\ i + (j - (i - 1)) = j + 1
      BY <2>2
    <3> QED
      BY <1>3, <1>4, <2>2, <3>1
  <2> QED
    BY <2>1, <2>2
<1>6. g \in Seq(S) /\ Len(g) = k - 1
  <2>1. \A j \in 1 .. k - 1 : g[j] \in S
    OBVIOUS
  <2> QED
    BY <2>1
<1> HIDE DEF g
<1>7. g = before \o behind
  BY <1>4, <1>5, <1>6, SeqEqual
<1> QED
  BY <1>2, <1>7 DEF g, Without

LEMMA TailIs ==
  ASSUME NEW S, NEW k \in Nat, NEW f \in [1..k -> S], k # 0
  PROVE  Without(f, k, 1) = Tail(f)
<1> DEFINE g == [j \in 1 .. k - 1 |-> IF j < 1 THEN f[j] ELSE f[j + 1]]
<1>1. f \in Seq(S) /\ Len(f) = k
  OBVIOUS
<1>2. f # << >>
  BY <1>1
<1>3. /\ Tail(f) \in Seq(S) /\ Len(Tail(f)) = k - 1
      /\ \A j \in 1 .. k - 1 : Tail(f)[j] = f[j + 1]
  BY <1>1, <1>2
<1>4. \A j \in 1 .. k - 1 : g[j] = f[j + 1] /\ f[j + 1] \in S
  OBVIOUS
<1>5. k - 1 \in Nat
  OBVIOUS
<1>6. g \in Seq(S) /\ Len(g) = k - 1
  BY <1>4, <1>5
<1> HIDE DEF g
<1>7. g = Tail(f)
  BY <1>3, <1>4, <1>6, SeqEqual
<1> QED
  BY <1>7 DEF g, Without

\* The first of those equal to e.
LEMMA RemoveFirstIs ==
  ASSUME NEW e, NEW k \in Nat, NEW f, Len(f) = k,
         NEW i \in {j \in 1..k : f[j] = e}, \A j \in {n \in 1..k : f[n] = e} : i <= j
  PROVE  Abstract!RemoveFirst(f, e) = Abstract!RemoveAt(f, i)
<1> DEFINE I == {j \in 1..Len(f) : f[j] = e}
<1>1. Len(f) = k
  OBVIOUS
<1>2. Abstract!RemoveFirst(f, e) =
        Abstract!RemoveAt(f, IF I # {} THEN CHOOSE x \in I : \A y \in I : x =< y ELSE 0)
  BY <1>1 DEF Abstract!RemoveFirst, Abstract!SelectInSeq, Abstract!Min
<1>3. i \in I /\ \A j \in I : i <= j /\ j \in Nat
  BY <1>1
<1> HIDE DEF I
<1>4. \A x \in I : (\A y \in I : x =< y) <=> x = i
  BY <1>3
<1>5. (CHOOSE x \in I : \A y \in I : x =< y) = i
  BY <1>3, <1>4
<1> QED
  BY <1>2, <1>3, <1>5

-----------------------------------------------------------------------------
(* The calls, on the chain. *)

LEMMA EndsOfChain ==
  ASSUME TypeOK, NEW k, NEW w, Chained(w, k)
  PROVE  /\ head_node = Null <=> k = 0
         /\ tail_node = Null <=> k = 0
<1>1. k \in Nat /\ w \in [1..k -> links] /\ Null \notin links
  BY ChainAssumption DEF Chained, TypeOK
<1>2. k # 0 => 1 \in 1..k /\ k \in 1..k
  BY <1>1
<1> QED
  BY <1>1, <1>2 DEF Chained

\* pop_from_chain unlinks the first.
LEMMA PopUnlinks ==
  ASSUME TypeOK, NEW k, NEW w, Chained(w, k), pop_from_chain, k # 0
  PROVE  /\ 1 \in 1..k /\ Unlinks(w[1])
         /\ blocks' = blocks \ {w[1]}
         /\ Returns(NORMAL_STATE, {payload_data[w[1]]})
         /\ UNCHANGED <<payload_footprint, payload_data, handed>>
<1>1. k \in Nat /\ 1 \in 1..k /\ head_node = w[1] /\ head_node # Null /\ tail_node # Null
  <2>1. k \in Nat /\ 1 \in 1..k
    BY DEF Chained
  <2>2. head_node # Null /\ tail_node # Null
    BY EndsOfChain
  <2>3. head_node = w[1]
    BY DEF Chained
  <2> QED
    BY <2>1, <2>2, <2>3
<1>2. predecessor_link[w[1]] = Null
  BY <1>1 DEF Chained
<1>3. /\ head_node' = successor_link[w[1]]
      /\ tail_node' = IF successor_link[w[1]] = Null THEN Null ELSE tail_node
      /\ predecessor_link' = IF successor_link[w[1]] = Null THEN predecessor_link
                             ELSE [predecessor_link EXCEPT ![successor_link[w[1]]] = Null]
      /\ links' = links \ {w[1]}
      /\ blocks' = blocks \ {w[1]}
      /\ Returns(NORMAL_STATE, {payload_data[w[1]]})
      /\ UNCHANGED <<payload_footprint, payload_data, successor_link, handed>>
  BY <1>1 DEF pop_from_chain
<1> QED
  BY <1>1, <1>2, <1>3 DEF Unlinks

\* excise_tail_chain unlinks the first whose payload is p.
LEMMA ExciseUnlinks ==
  ASSUME TypeOK, NEW k, NEW w, Chained(w, k), NEW p, excise_tail_chain(p)
  PROVE  \/ (\A j \in 1..k : payload_data[w[j]] # p) /\ Fails(VOID_STATE)
         \/ \E i \in 1..k :
              /\ payload_data[w[i]] = p
              /\ \A j \in 1..k : payload_data[w[j]] = p => i <= j
              /\ Unlinks(w[i])
              /\ blocks' = blocks \ {w[i]}
              /\ Returns(NORMAL_STATE, {})
              /\ UNCHANGED <<payload_footprint, payload_data, handed>>
<1> DEFINE equal == {n \in DOMAIN Walk : Walk[n] # Null /\ payload_data[Walk[n]] = p}
<1>1. k \in Nat
  BY DEF Chained
<1>2. Reached = 0 .. k - 1 /\ \A n \in 0 .. k - 1 : Walk[n] = w[n + 1]
  BY ReachedIsChain
<1>3. IF equal = {} THEN Fails(VOID_STATE)
      ELSE /\ Unlinks(Walk[Oldest(equal)])
           /\ blocks' = blocks \ {Walk[Oldest(equal)]}
           /\ Returns(NORMAL_STATE, {})
           /\ UNCHANGED <<payload_footprint, payload_data, handed>>
  BY Zenon DEF excise_tail_chain
<1>4. equal = {n \in Reached : payload_data[Walk[n]] = p}
  BY Zenon DEF Reached
<1> HIDE DEF equal, Walk
<1>5. \A n : n \in equal <=> n \in 0 .. k - 1 /\ payload_data[w[n + 1]] = p
  BY <1>2, <1>4
<1>6. CASE equal = {}
  <2>1. \A j \in 1..k : j - 1 \in 0 .. k - 1 /\ (j - 1) + 1 = j
    BY <1>1
  <2> QED
    BY <1>3, <1>5, <1>6, <2>1
<1>7. CASE equal # {}
  <2>1. equal \subseteq Nat
    <3>1. \A n : n \in equal => n \in 0 .. k - 1
      BY <1>5
    <3>2. \A n \in 0 .. k - 1 : n \in Nat
      BY <1>1
    <3> QED
      BY <3>1, <3>2
  <2>2. PICK n \in equal : \A m \in equal : <<m, n>> \notin OpToRel(<, Nat)
    BY <1>7, <2>1, NatLessThanWellFounded, WFMin
  <2>3. \A m \in equal : n <= m
    <3> SUFFICES ASSUME NEW m \in equal PROVE n <= m
      OBVIOUS
    <3>1. m \in Nat /\ n \in Nat
      BY <2>1
    <3>2. ~ (m < n)
      BY <2>2, <3>1 DEF OpToRel
    <3> QED
      BY <3>1, <3>2
  <2>4. Oldest(equal) \in equal /\ \A m \in equal : Oldest(equal) <= m
    BY <2>3, Zenon DEF Oldest
  <2> DEFINE i == Oldest(equal) + 1
  <2>5. i \in 1..k /\ Walk[Oldest(equal)] = w[i] /\ payload_data[w[i]] = p
    BY <1>1, <1>2, <1>5, <2>4
  <2>6. \A j \in 1..k : payload_data[w[j]] = p => i <= j
    <3> SUFFICES ASSUME NEW j \in 1..k, payload_data[w[j]] = p PROVE i <= j
      OBVIOUS
    <3>1. j - 1 \in 0 .. k - 1 /\ (j - 1) + 1 = j
      BY <1>1
    <3>2. j - 1 \in equal
      BY <1>5, <3>1
    <3>3. Oldest(equal) <= j - 1
      BY <2>4, <3>2, Zenon
    <3>4. Oldest(equal) \in Nat
      BY <2>1, <2>4, Zenon
    <3>5. j \in Nat
      BY <1>1
    <3> QED
      BY <3>3, <3>4, <3>5 DEF i
  <2> HIDE DEF i
  <2> QED
    BY <1>3, <1>7, <2>5, <2>6
<1> QED
  BY <1>6, <1>7

\* excise_offset_chain unlinks the one at the offset.
LEMMA OffsetUnlinks ==
  ASSUME TypeOK, NEW k, NEW w, Chained(w, k), NEW offset \in Int, excise_offset_chain(offset)
  PROVE  \/ offset + 1 \notin 1..k /\ Fails(VOID_STATE)
         \/ /\ offset + 1 \in 1..k
            /\ Unlinks(w[offset + 1])
            /\ HandedOver(w[offset + 1])
            /\ Returns(NORMAL_STATE, {payload_data[w[offset + 1]]})
            /\ UNCHANGED <<payload_footprint, payload_data>>
<1>1. k \in Nat
  BY DEF Chained
<1>2. Reached = 0 .. k - 1 /\ \A n \in 0 .. k - 1 : Walk[n] = w[n + 1]
  BY ReachedIsChain
<1>3. IF offset \notin Reached THEN Fails(VOID_STATE)
      ELSE /\ Unlinks(Walk[offset])
           /\ HandedOver(Walk[offset])
           /\ Returns(NORMAL_STATE, {payload_data[Walk[offset]]})
           /\ UNCHANGED <<payload_footprint, payload_data>>
  BY Zenon DEF excise_offset_chain, Reached
<1> HIDE DEF Walk
<1>4. offset \in 0 .. k - 1 <=> offset + 1 \in 1..k
  BY <1>1
<1> QED
  BY <1>2, <1>3, <1>4

-----------------------------------------------------------------------------
(* The invariant. *)

LEMMA RemovalKeepsInv ==
  ASSUME ChainInv, NEW k, NEW w, Chained(w, k), NEW i \in 1..k, Unlinks(w[i]),
         UNCHANGED <<payload_footprint, payload_data>>,
         \/ blocks' = blocks \ {w[i]} /\ handed' = handed
         \/ blocks' = blocks /\ handed' = handed \cup {w[i]}
  PROVE  ChainInv'
<1>0. TypeOK /\ blocks = links \cup handed /\ links \cap handed = {}
  BY DEF ChainInv
<1> DEFINE v == Without(w, k, i)
<1>1. Chained(v, k - 1)' /\ k - 1 \in Nat
  BY <1>0, UnlinkKeepsChain
<1> HIDE DEF v
<1>2. v \in [1 .. k - 1 -> links'] /\ links' = links \ {w[i]} /\ w[i] \in links
  BY <1>1 DEF Chained, Unlinks
<1>3. \E j \in Nat : \E u \in [1..j -> links'] : Chained(u, j)'
  BY <1>1, <1>2
<1>4. blocks' = links' \cup handed' /\ links' \cap handed' = {}
  BY <1>0, <1>2
<1>5. TypeOK'
  <2>1. head_node' \in links' \cup {Null} /\ tail_node' \in links' \cup {Null}
    <3>0. k \in Nat
      BY DEF Chained
    <3>1. k - 1 # 0 => 1 \in 1 .. k - 1 /\ k - 1 \in 1 .. k - 1
      BY <1>1, <3>0
    <3>2. k - 1 # 0 => v[1] \in links' /\ v[k - 1] \in links'
      BY <1>2, <3>1
    <3>3. /\ head_node' = IF k - 1 = 0 THEN Null ELSE v[1]
          /\ tail_node' = IF k - 1 = 0 THEN Null ELSE v[k - 1]
      BY <1>1 DEF Chained
    <3> QED
      BY <3>2, <3>3
  <2>2. predecessor_link[w[i]] \in Links \cup {Null} /\ successor_link[w[i]] \in Links \cup {Null}
    BY <1>0, <1>2 DEF TypeOK
  <2>3. /\ predecessor_link' \in [Links -> Links \cup {Null}]
        /\ successor_link' \in [Links -> Links \cup {Null}]
    BY <1>0, <2>2 DEF TypeOK, Unlinks
  <2>4. handed' \subseteq blocks' /\ blocks' \subseteq Links
    BY <1>0, <1>2 DEF TypeOK
  <2> QED
    BY <1>0, <1>2, <2>1, <2>3, <2>4 DEF TypeOK
<1> QED
  BY <1>3, <1>4, <1>5 DEF ChainInv

\* The list is as it was.
LEMMA QuietKeepsInv ==
  ASSUME ChainInv, UNCHANGED <<payload_footprint, head_node, tail_node, links, fields>>,
         handed' \subseteq handed, blocks' = blocks \ (handed \ handed')
  PROVE  /\ ChainInv'
         /\ \A k, w : Chained(w, k) => Chained(w, k)'
<1>0. TypeOK /\ blocks = links \cup handed /\ links \cap handed = {}
  BY DEF ChainInv
<1>1. \A k, w : Chained(w, k) => Chained(w, k)'
  BY DEF Chained, fields
<1>2. PICK k \in Nat : \E w \in [1..k -> links] : Chained(w, k)
  BY DEF ChainInv
<1>3. \E j \in Nat : \E u \in [1..j -> links'] : Chained(u, j)'
  BY <1>1, <1>2
<1>4. blocks' = links' \cup handed' /\ links' \cap handed' = {}
  BY <1>0
<1>5. TypeOK'
  BY <1>0, <1>4 DEF TypeOK, fields
<1> QED
  BY <1>1, <1>3, <1>4, <1>5 DEF ChainInv

LEMMA PushKeepsInv ==
  ASSUME ChainInv, NEW k, NEW w, Chained(w, k), NEW p \in Payloads, push_to_chain(p)
  PROVE  /\ ChainInv'
         /\ \/ Fails(ALLOC_FAULT)
            \/ \E l \in Links \ links :
                 /\ Chained(With(w, k, l), k + 1)'
                 /\ payload_data' = [payload_data EXCEPT ![l] = p]
                 /\ Returns(NORMAL_STATE, {})
<1>0. TypeOK /\ blocks = links \cup handed /\ links \cap handed = {}
  BY DEF ChainInv
<1>1. CASE Fails(ALLOC_FAULT)
  <2>1. UNCHANGED <<payload_footprint, head_node, tail_node, links, fields, blocks, handed>>
    BY <1>1 DEF Fails
  <2> QED
    BY <1>1, <2>1, QuietKeepsInv
<1>2. CASE ~ Fails(ALLOC_FAULT)
  <2>1. PICK l \in Links \ (links \cup blocks) :
          /\ links' = links \cup {l}
          /\ blocks' = blocks \cup {l}
          /\ payload_data' = [payload_data EXCEPT ![l] = p]
          /\ predecessor_link' = [predecessor_link EXCEPT
                                    ![l] = IF head_node = Null THEN Null ELSE tail_node]
          /\ ChainedBehind(l)
          /\ head_node' = IF head_node = Null THEN l ELSE head_node
          /\ tail_node' = l
          /\ Returns(NORMAL_STATE, {})
          /\ UNCHANGED <<payload_footprint, handed>>
    BY <1>2 DEF push_to_chain
  <2> DEFINE v == With(w, k, l)
  <2>2. Chained(v, k + 1)'
    BY <1>0, <2>1, PushKeepsChain
  <2> HIDE DEF v
  <2>3. k + 1 \in Nat /\ v \in [1 .. k + 1 -> links']
    BY <2>2 DEF Chained
  <2>4. \E j \in Nat : \E u \in [1..j -> links'] : Chained(u, j)'
    BY <2>2, <2>3
  <2>5. blocks' = links' \cup handed' /\ links' \cap handed' = {}
    BY <1>0, <2>1
  <2>6. TypeOK'
    <3>1. /\ predecessor_link' \in [Links -> Links \cup {Null}]
          /\ payload_data' \in [Links -> Payloads]
      BY <1>0, <2>1 DEF TypeOK
    <3>2. successor_link' \in [Links -> Links \cup {Null}]
      BY <1>0, <2>1 DEF TypeOK, ChainedBehind
    <3>3. /\ head_node' \in links' \cup {Null} /\ tail_node' \in links' \cup {Null}
          /\ links' \subseteq Links /\ blocks' \subseteq Links /\ handed' \subseteq blocks'
          /\ payload_footprint' \in {"pointer", "other"}
      BY <1>0, <2>1, <2>5 DEF TypeOK
    <3> QED
      BY <3>1, <3>2, <3>3 DEF TypeOK
  <2>7. ChainInv'
    BY <2>4, <2>5, <2>6 DEF ChainInv
  <2> QED
    BY <2>1, <2>2, <2>7 DEF v
<1> QED
  BY <1>1, <1>2

LEMMA HandingKeepsBlocks ==
  ASSUME NEW l, HandedOver(l)
  PROVE  \/ blocks' = blocks \ {l} /\ handed' = handed
         \/ blocks' = blocks /\ handed' = handed \cup {l}
  BY DEF HandedOver

LEMMA Next_ChainInv == ChainInv /\ [Next]_vars => ChainInv'
<1> SUFFICES ASSUME ChainInv, [Next]_vars PROVE ChainInv'
  OBVIOUS
<1>0. TypeOK
  BY DEF ChainInv
<1>1. PICK k \in Nat : \E w \in [1..k -> links] : Chained(w, k)
  BY DEF ChainInv
<1>2. PICK w \in [1..k -> links] : Chained(w, k)
  BY <1>1
<1>3. ASSUME UNCHANGED <<payload_footprint, head_node, tail_node, links, fields, blocks, handed>>
      PROVE  ChainInv'
  BY <1>3, QuietKeepsInv
<1>4. CASE peek_chain
  BY <1>3, <1>4 DEF peek_chain, Fails
<1>5. CASE pop_from_chain
  <2>1. CASE k = 0
    BY <1>0, <1>2, <1>3, <1>5, <2>1, EndsOfChain DEF pop_from_chain, Fails
  <2>2. CASE k # 0
    BY <1>0, <1>2, <1>5, <2>2, PopUnlinks, RemovalKeepsInv
  <2> QED
    BY <2>1, <2>2
<1>6. ASSUME NEW p \in Payloads, push_to_chain(p) PROVE ChainInv'
  BY <1>2, <1>6, PushKeepsInv
<1>7. ASSUME NEW p \in Payloads, excise_tail_chain(p) PROVE ChainInv'
  <2>1. CASE Fails(VOID_STATE)
    BY <1>3, <2>1 DEF Fails
  <2>2. CASE ~ Fails(VOID_STATE)
    <3>1. PICK i \in 1..k : /\ Unlinks(w[i])
                            /\ blocks' = blocks \ {w[i]}
                            /\ UNCHANGED <<payload_footprint, payload_data, handed>>
      BY <1>0, <1>2, <1>7, <2>2, ExciseUnlinks
    <3> QED
      BY <1>2, <3>1, RemovalKeepsInv
  <2> QED
    BY <2>1, <2>2
<1>8. ASSUME NEW offset \in -1 .. MaxOffset, excise_offset_chain(offset) PROVE ChainInv'
  <2>1. CASE Fails(VOID_STATE)
    BY <1>3, <2>1 DEF Fails
  <2>2. CASE ~ Fails(VOID_STATE)
    <3>1. offset \in Int
      BY ChainAssumption
    <3>2. /\ offset + 1 \in 1..k
          /\ Unlinks(w[offset + 1])
          /\ HandedOver(w[offset + 1])
          /\ UNCHANGED <<payload_footprint, payload_data>>
      BY <1>0, <1>2, <1>8, <2>2, <3>1, OffsetUnlinks
    <3> QED
      BY <1>2, <3>2, HandingKeepsBlocks, RemovalKeepsInv
  <2> QED
    BY <2>1, <2>2
<1>9. ASSUME NEW l \in Links, CallerFrees(l) PROVE ChainInv'
  <2>1. /\ l \in handed /\ handed' = handed \ {l} /\ blocks' = blocks \ {l}
        /\ UNCHANGED <<payload_footprint, head_node, tail_node, links, fields>>
    BY <1>9 DEF CallerFrees
  <2>2. handed' \subseteq handed /\ blocks' = blocks \ (handed \ handed')
    BY <2>1
  <2> QED
    BY <2>1, <2>2, QuietKeepsInv
<1>10. CASE UNCHANGED vars
  BY <1>3, <1>10 DEF vars
<1> QED
  BY <1>4, <1>5, <1>6, <1>7, <1>8, <1>9, <1>10 DEF Next

LEMMA EmptyChain ==
  ASSUME Init
  PROVE  \E w \in [1..0 -> links] : Chained(w, 0)
<1> DEFINE w == [i \in 1..0 |-> Null]
<1>1. w \in [1..0 -> links] /\ \A i \in 1..0 : FALSE
  OBVIOUS
<1> HIDE DEF w
<1>2. links = {} /\ head_node = Null /\ tail_node = Null
  BY DEF Init, bootstrap_chain_ledger
<1>3. Chained(w, 0)
  BY <1>1, <1>2 DEF Chained
<1> QED
  BY <1>1, <1>3

LEMMA Init_ChainInv == Init => ChainInv
<1> SUFFICES ASSUME Init PROVE ChainInv
  OBVIOUS
<1>1. \E k \in Nat : \E w \in [1..k -> links] : Chained(w, k)
  BY EmptyChain
<1>2. (CHOOSE p \in Payloads : TRUE) \in Payloads
  BY ChainAssumption
<1>3. TypeOK
  BY <1>2 DEF Init, bootstrap_chain_ledger, TypeOK
<1>4. blocks = links \cup handed /\ links \cap handed = {}
  BY DEF Init
<1> QED
  BY <1>1, <1>3, <1>4 DEF ChainInv

LEMMA ChainIsKept == Spec => []ChainInv
  BY Init_ChainInv, Next_ChainInv, PTL DEF Spec

-----------------------------------------------------------------------------
(* The properties. *)

\* The two ends and the pointers are always of the types the code gives them.
THEOREM ChainTypeOK == Spec => []TypeOK
<1>1. ChainInv => TypeOK
  BY DEF ChainInv
<1> QED
  BY <1>1, ChainIsKept, PTL

LEMMA ChainMirrors ==
  ASSUME TypeOK, NEW k, NEW w, Chained(w, k)
  PROVE  LinksMirror
<1>1. /\ k \in Nat /\ w \in [1..k -> links] /\ Null \notin links
      /\ \A l \in links : \E i \in 1..k : w[i] = l
      /\ \A i, j \in 1..k : w[i] = w[j] => i = j
  BY ChainAssumption DEF Chained, TypeOK
<1>2. (head_node = Null) = (tail_node = Null)
  BY EndsOfChain
<1>3. ASSUME NEW l \in links
      PROVE  /\ (predecessor_link[l] = Null) = (l = head_node)
             /\ (successor_link[l] = Null) = (l = tail_node)
             /\ predecessor_link[l] # Null =>
                  predecessor_link[l] \in links /\ successor_link[predecessor_link[l]] = l
             /\ successor_link[l] # Null =>
                  successor_link[l] \in links /\ predecessor_link[successor_link[l]] = l
  <2>1. PICK i \in 1..k : w[i] = l
    BY <1>1
  <2>2. k # 0 /\ 1 \in 1..k /\ k \in 1..k
    BY <1>1
  <2>3. head_node = w[1] /\ tail_node = w[k]
    BY <2>2 DEF Chained
  <2>4. /\ predecessor_link[l] = IF i = 1 THEN Null ELSE w[i - 1]
        /\ successor_link[l] = IF i = k THEN Null ELSE w[i + 1]
    BY <2>1 DEF Chained
  <2>5. i # 1 => /\ i - 1 \in 1..k /\ w[i - 1] \in links
                 /\ successor_link[w[i - 1]] = l
    <3>1. i # 1 => i - 1 \in 1..k /\ i - 1 # k /\ (i - 1) + 1 = i
      BY <1>1
    <3>2. i # 1 => successor_link[w[i - 1]] = w[(i - 1) + 1]
      BY <3>1 DEF Chained
    <3> QED
      BY <1>1, <2>1, <3>1, <3>2
  <2>6. i # k => /\ i + 1 \in 1..k /\ w[i + 1] \in links
                 /\ predecessor_link[w[i + 1]] = l
    <3>1. i # k => i + 1 \in 1..k /\ i + 1 # 1 /\ (i + 1) - 1 = i
      BY <1>1
    <3>2. i # k => predecessor_link[w[i + 1]] = w[(i + 1) - 1]
      BY <3>1 DEF Chained
    <3> QED
      BY <1>1, <2>1, <3>1, <3>2
  <2>7. (i = 1 <=> l = head_node) /\ (i = k <=> l = tail_node)
    BY <1>1, <2>1, <2>2, <2>3
  <2>8. (predecessor_link[l] = Null <=> i = 1) /\ (successor_link[l] = Null <=> i = k)
    BY <1>1, <2>4, <2>5, <2>6
  <2> QED
    BY <2>4, <2>5, <2>6, <2>7, <2>8
<1> QED
  BY <1>2, <1>3 DEF LinksMirror

\* Whatever is pushed, popped and excised, the links of queue_list.c point to
\* each other, to no freed link, and to nothing at the two ends only.
THEOREM LinksAlwaysMirror == Spec => []LinksMirror
<1>1. ChainInv => LinksMirror
  BY ChainMirrors DEF ChainInv
<1> QED
  BY <1>1, ChainIsKept, PTL

LEMMA ChainLeaksNothing ==
  ASSUME ChainInv
  PROVE  NothingLeaked
<1>0. TypeOK /\ blocks = links \cup handed /\ links \cap handed = {}
  BY DEF ChainInv
<1>1. PICK k \in Nat : \E w \in [1..k -> links] : Chained(w, k)
  BY DEF ChainInv
<1>2. PICK w \in [1..k -> links] : Chained(w, k)
  BY <1>1
<1>3. Reached = 0 .. k - 1 /\ \A n \in 0 .. k - 1 : Walk[n] = w[n + 1]
  BY <1>0, <1>2, ReachedIsChain
<1> HIDE DEF Walk
<1>4. ASSUME NEW n \in Reached PROVE Walk[n] \in links
  <2>1. n \in 0 .. k - 1 /\ n + 1 \in 1..k
    BY <1>3
  <2> QED
    BY <1>3, <2>1
<1>5. ASSUME NEW l \in links PROVE \E n \in Reached : Walk[n] = l
  <2>1. PICK i \in 1..k : w[i] = l
    BY <1>2 DEF Chained
  <2>2. i - 1 \in 0 .. k - 1 /\ (i - 1) + 1 = i
    OBVIOUS
  <2>3. Walk[i - 1] = l
    BY <1>3, <2>1, <2>2
  <2> QED
    BY <1>3, <2>2, <2>3
<1>6. links = {Walk[n] : n \in Reached}
  BY <1>4, <1>5
<1> QED
  BY <1>0, <1>6 DEF NothingLeaked

\* Every payload block is that of a link the head reaches, or its caller's to
\* free: queue_list.c leaks none and frees none twice.
THEOREM NothingEverLeaks == Spec => []NothingLeaked
<1>1. ChainInv => NothingLeaked
  BY ChainLeaksNothing
<1> QED
  BY <1>1, ChainIsKept, PTL

-----------------------------------------------------------------------------
(* The list is a sequence. *)

\* What is held after a call, from the chain after it.
LEMMA HeldIsChainNext ==
  ASSUME TypeOK', NEW k, NEW w, Chained(w, k)'
  PROVE  Held' = [i \in 1..k |-> payload_data'[w[i]]]
<1>1. HeldTells'
  BY HeldIsChain, PTL
<1>2. Held' = Contents(w, k)'
  BY <1>1 DEF HeldTells
<1> QED
  BY <1>2 DEF Contents

LEMMA ContentsAreLedger ==
  ASSUME TypeOK, NEW k, NEW w, Chained(w, k)
  PROVE  /\ k \in Nat
         /\ Contents(w, k) \in [1..k -> Payloads]
         /\ Contents(w, k) \in Seq(Payloads)
         /\ Len(Contents(w, k)) = k
         /\ DOMAIN Contents(w, k) = 1..k
         /\ \A i \in 1..k : Contents(w, k)[i] = payload_data[w[i]]
<1>1. k \in Nat /\ w \in [1..k -> Links] /\ payload_data \in [Links -> Payloads]
  BY DEF Chained, TypeOK
<1>2. Contents(w, k) \in [1..k -> Payloads] /\ \A i \in 1..k : Contents(w, k)[i] = payload_data[w[i]]
  BY <1>1 DEF Contents
<1> QED
  BY <1>1, <1>2

\* The i-th link goes: so does the i-th payload.
LEMMA HeldWithout ==
  ASSUME TypeOK, TypeOK', NEW k, NEW w, Chained(w, k), NEW i \in 1..k, Unlinks(w[i]),
         UNCHANGED payload_data
  PROVE  Held' = Abstract!RemoveAt(Held, i)
<1>1. Held = Contents(w, k)
  BY HeldIsChain DEF HeldTells
<1>2. Chained(Without(w, k, i), k - 1)'
  BY UnlinkKeepsChain
<1>3. Held' = [j \in 1 .. k - 1 |-> payload_data[Without(w, k, i)[j]]]
  BY <1>2, HeldIsChainNext
<1> DEFINE f == Contents(w, k)
<1>4. k \in Nat /\ f \in [1..k -> Payloads] /\ \A j \in 1..k : f[j] = payload_data[w[j]]
  BY ContentsAreLedger
<1> HIDE DEF f
<1>5. Abstract!RemoveAt(f, i) = Without(f, k, i)
  BY <1>4, RemoveIs
<1>6. ASSUME NEW j \in 1 .. k - 1
      PROVE  payload_data[Without(w, k, i)[j]] = IF j < i THEN f[j] ELSE f[j + 1]
  <2>1. Without(w, k, i)[j] = IF j < i THEN w[j] ELSE w[j + 1]
    BY DEF Without
  <2>2. j \in 1..k /\ j + 1 \in 1..k
    BY <1>4
  <2> QED
    BY <1>4, <2>1, <2>2
<1> QED
  BY <1>1, <1>3, <1>5, <1>6 DEF f, Without

\* A call that leaves the list as it was leaves what it holds.
LEMMA HeldIsKept ==
  ASSUME ChainInv, TypeOK', UNCHANGED <<payload_footprint, head_node, tail_node, links, fields>>,
         handed' \subseteq handed, blocks' = blocks \ (handed \ handed')
  PROVE  Held' = Held
<1>0. TypeOK
  BY DEF ChainInv
<1>1. PICK k \in Nat : \E w \in [1..k -> links] : Chained(w, k)
  BY DEF ChainInv
<1>2. PICK w \in [1..k -> links] : Chained(w, k)
  BY <1>1
<1>3. Chained(w, k)'
  BY <1>2, QuietKeepsInv
<1>4. Held' = [i \in 1..k |-> payload_data'[w[i]]]
  BY <1>3, HeldIsChainNext
<1>5. Held = [i \in 1..k |-> payload_data[w[i]]]
  BY <1>0, <1>2, HeldIsChain DEF HeldTells, Contents
<1> QED
  BY <1>4, <1>5 DEF fields

LEMMA HeldWith ==
  ASSUME TypeOK, TypeOK', NEW k, NEW w, Chained(w, k), NEW l \in Links \ links, NEW p \in Payloads,
         Chained(With(w, k, l), k + 1)', payload_data' = [payload_data EXCEPT ![l] = p]
  PROVE  Held' = Append(Held, p)
<1>1. Held = Contents(w, k)
  BY HeldIsChain DEF HeldTells
<1>2. Held' = [j \in 1 .. k + 1 |-> payload_data'[With(w, k, l)[j]]]
  BY HeldIsChainNext
<1> DEFINE f == Contents(w, k)
<1>3. k \in Nat /\ f \in [1..k -> Payloads] /\ \A j \in 1..k : f[j] = payload_data[w[j]]
  BY ContentsAreLedger
<1> HIDE DEF f
<1>4. Append(f, p) = With(f, k, p)
  BY <1>3, AppendIs
<1>5. w \in [1..k -> links] /\ links \subseteq Links /\ payload_data \in [Links -> Payloads]
  BY DEF Chained, TypeOK
<1>6. ASSUME NEW j \in 1 .. k + 1
      PROVE  payload_data'[With(w, k, l)[j]] = IF j = k + 1 THEN p ELSE f[j]
  <2>1. With(w, k, l)[j] = IF j = k + 1 THEN l ELSE w[j]
    BY DEF With
  <2>2. CASE j = k + 1
    BY <1>5, <2>1, <2>2
  <2>3. CASE j # k + 1
    <3>1. j \in 1..k
      BY <1>3, <2>3
    <3>2. w[j] \in Links /\ w[j] # l
      BY <1>5, <3>1
    <3> QED
      BY <1>3, <1>5, <2>1, <2>3, <3>1, <3>2
  <2> QED
    BY <2>2, <2>3
<1> QED
  BY <1>1, <1>2, <1>4, <1>6 DEF f, With

LEMMA ReturnsIsReturns ==
  ASSUME NEW code, NEW payloads
  PROVE  Returns(code, payloads) <=> Abstract!Returns(code, payloads)
  BY DEF Returns, Abstract!Returns

LEMMA CodesAreCodes ==
  /\ ALLOC_FAULT = Abstract!ALLOC_FAULT /\ VOID_STATE = Abstract!VOID_STATE
  /\ NORMAL_STATE = Abstract!NORMAL_STATE
  BY DEF ALLOC_FAULT, VOID_STATE, NORMAL_STATE,
         Abstract!ALLOC_FAULT, Abstract!VOID_STATE, Abstract!NORMAL_STATE

\* A call that fails leaves the sequence, and gives nothing.
LEMMA FailureIsQuiet ==
  ASSUME ChainInv, TypeOK', NEW code, Fails(code)
  PROVE  Held' = Held /\ Abstract!Returns(code, {})
<1>1. Returns(code, {}) /\ UNCHANGED <<payload_footprint, head_node, tail_node, links, fields, blocks, handed>>
  BY DEF Fails
<1>2. handed' \subseteq handed /\ blocks' = blocks \ (handed \ handed')
  BY <1>1
<1> QED
  BY <1>1, <1>2, HeldIsKept, ReturnsIsReturns

\* Every step of the list is one of Ledger, or none.
LEMMA StepIsLedgers ==
  ASSUME ChainInv, ChainInv', [Next]_vars
  PROVE  Abstract!Next \/ UNCHANGED <<Held, result>>
<1>0. TypeOK /\ TypeOK'
  BY DEF ChainInv
<1>1. PICK k \in Nat : \E w \in [1..k -> links] : Chained(w, k)
  BY DEF ChainInv
<1>2. PICK w \in [1..k -> links] : Chained(w, k)
  BY <1>1
<1>3. /\ Held \in [1..k -> Payloads] /\ Held \in Seq(Payloads)
      /\ Len(Held) = k /\ DOMAIN Held = 1..k
      /\ \A i \in 1..k : Held[i] = payload_data[w[i]]
  BY <1>0, <1>2, HeldIsChain, ContentsAreLedger DEF HeldTells
<1>4. /\ (Held = <<>> <=> k = 0)
      /\ k # 0 => Head(Held) = payload_data[w[1]]
  <2>1. k # 0 => Held # <<>> /\ Head(Held) = Held[1] /\ 1 \in 1..k
    BY <1>3
  <2>2. k = 0 => Held = <<>>
    BY <1>3
  <2> QED
    BY <1>3, <2>1, <2>2
<1>5. (head_node = Null <=> k = 0) /\ (tail_node = Null <=> k = 0)
  BY <1>0, <1>2, EndsOfChain
<1>6. CASE peek_chain
  <2>1. CASE k = 0
    <3>1. Fails(VOID_STATE)
      BY <1>5, <1>6, <2>1 DEF peek_chain
    <3>2. Abstract!Peek
      BY <1>0, <1>4, <2>1, <3>1, FailureIsQuiet, CodesAreCodes DEF Abstract!Peek
    <3> QED
      BY <3>2 DEF Abstract!Next
  <2>2. CASE k # 0
    <3>1. /\ Returns(NORMAL_STATE, {payload_data[head_node]})
          /\ UNCHANGED <<payload_footprint, head_node, tail_node, links, fields, blocks, handed>>
      BY <1>5, <1>6, <2>2 DEF peek_chain
    <3>2. Held' = Held
      <4>1. handed' \subseteq handed /\ blocks' = blocks \ (handed \ handed')
        BY <3>1
      <4> QED
        BY <1>0, <3>1, <4>1, HeldIsKept
    <3>3. head_node = w[1]
      BY <1>2, <2>2 DEF Chained
    <3>4. Abstract!Returns(Abstract!NORMAL_STATE, {Head(Held)})
      BY <1>4, <2>2, <3>1, <3>3, ReturnsIsReturns, CodesAreCodes
    <3>5. Abstract!Peek
      BY <1>4, <2>2, <3>2, <3>4 DEF Abstract!Peek
    <3> QED
      BY <3>5 DEF Abstract!Next
  <2> QED
    BY <2>1, <2>2
<1>7. CASE pop_from_chain
  <2>1. CASE k = 0
    <3>1. Fails(VOID_STATE)
      BY <1>5, <1>7, <2>1 DEF pop_from_chain
    <3>2. Abstract!Pop
      BY <1>0, <1>4, <2>1, <3>1, FailureIsQuiet, CodesAreCodes DEF Abstract!Pop
    <3> QED
      BY <3>2 DEF Abstract!Next
  <2>2. CASE k # 0
    <3>1. /\ 1 \in 1..k /\ Unlinks(w[1])
          /\ Returns(NORMAL_STATE, {payload_data[w[1]]})
          /\ UNCHANGED <<payload_footprint, payload_data, handed>>
      BY <1>0, <1>2, <1>7, <2>2, PopUnlinks
    <3>2. Held' = Abstract!RemoveAt(Held, 1)
      BY <1>0, <1>2, <3>1, HeldWithout
    <3>3. Abstract!RemoveAt(Held, 1) = Tail(Held)
      <4>1. Without(Held, k, 1) = Tail(Held)
        BY <1>3, <2>2, TailIs
      <4>2. Without(Held, k, 1) = Abstract!RemoveAt(Held, 1)
        BY <1>3, <3>1, RemoveIs
      <4> QED
        BY <4>1, <4>2
    <3>4. Abstract!Returns(Abstract!NORMAL_STATE, {Head(Held)})
      BY <1>4, <2>2, <3>1, ReturnsIsReturns, CodesAreCodes
    <3>5. Abstract!Pop
      BY <1>4, <2>2, <3>2, <3>3, <3>4 DEF Abstract!Pop
    <3> QED
      BY <3>5 DEF Abstract!Next
  <2> QED
    BY <2>1, <2>2
<1>8. ASSUME NEW p \in Payloads, push_to_chain(p) PROVE Abstract!Next
  <2>1. CASE Fails(ALLOC_FAULT)
    <3>1. Abstract!Push(p)
      BY <1>0, <2>1, FailureIsQuiet, CodesAreCodes DEF Abstract!Push
    <3> QED
      BY <3>1 DEF Abstract!Next
  <2>2. CASE ~ Fails(ALLOC_FAULT)
    <3>1. PICK l \in Links \ links :
            /\ Chained(With(w, k, l), k + 1)'
            /\ payload_data' = [payload_data EXCEPT ![l] = p]
            /\ Returns(NORMAL_STATE, {})
      BY <1>2, <1>8, <2>2, PushKeepsInv
    <3>2. Held' = Append(Held, p)
      BY <1>0, <1>2, <3>1, HeldWith
    <3>3. Abstract!Push(p)
      BY <3>1, <3>2, ReturnsIsReturns, CodesAreCodes DEF Abstract!Push
    <3> QED
      BY <3>3 DEF Abstract!Next
  <2> QED
    BY <2>1, <2>2
<1>9. ASSUME NEW p \in Payloads, excise_tail_chain(p) PROVE Abstract!Next
  <2>1. CASE (\A j \in 1..k : payload_data[w[j]] # p) /\ Fails(VOID_STATE)
    <3>1. \A i \in DOMAIN Held : Held[i] # p
      BY <1>3, <2>1
    <3>2. Abstract!ExciseEqual(p)
      BY <1>0, <2>1, <3>1, FailureIsQuiet, CodesAreCodes DEF Abstract!ExciseEqual
    <3> QED
      BY <3>2 DEF Abstract!Next
  <2>2. CASE \E i \in 1..k :
               /\ payload_data[w[i]] = p
               /\ \A j \in 1..k : payload_data[w[j]] = p => i <= j
               /\ Unlinks(w[i])
               /\ Returns(NORMAL_STATE, {})
               /\ UNCHANGED <<payload_footprint, payload_data, handed>>
    <3>1. PICK i \in 1..k :
            /\ payload_data[w[i]] = p
            /\ \A j \in 1..k : payload_data[w[j]] = p => i <= j
            /\ Unlinks(w[i])
            /\ Returns(NORMAL_STATE, {})
            /\ UNCHANGED <<payload_footprint, payload_data, handed>>
      BY <2>2
    <3>2. Held' = Abstract!RemoveAt(Held, i)
      BY <1>0, <1>2, <3>1, HeldWithout
    <3>3. Held[i] = p /\ \A j \in 1..k : Held[j] = p => i <= j
      BY <1>3, <3>1
    <3>4. Abstract!RemoveFirst(Held, p) = Abstract!RemoveAt(Held, i)
      <4>1. Len(Held) = k
        BY <1>3
      <4>2. i \in {j \in 1..k : Held[j] = p}
        BY <3>3
      <4>3. \A j \in {n \in 1..k : Held[n] = p} : i <= j
        BY <3>3
      <4> QED
        BY <4>1, <4>2, <4>3, RemoveFirstIs
    <3>5. ~ \A j \in DOMAIN Held : Held[j] # p
      BY <1>3, <3>3
    <3>6. Abstract!ExciseEqual(p)
      BY <3>1, <3>2, <3>4, <3>5, ReturnsIsReturns, CodesAreCodes DEF Abstract!ExciseEqual
    <3> QED
      BY <3>6 DEF Abstract!Next
  <2> QED
    BY <1>0, <1>2, <1>9, <2>1, <2>2, ExciseUnlinks
<1>10. ASSUME NEW offset \in -1 .. MaxOffset, excise_offset_chain(offset) PROVE Abstract!Next
  <2>0. offset \in Int /\ offset \in Abstract!Offsets
    BY ChainAssumption DEF Abstract!Offsets
  <2>1. CASE offset + 1 \notin 1..k /\ Fails(VOID_STATE)
    <3>1. Abstract!ExciseAt(offset)
      BY <1>0, <1>3, <2>1, FailureIsQuiet, CodesAreCodes DEF Abstract!ExciseAt
    <3> QED
      BY <2>0, <3>1 DEF Abstract!Next
  <2>2. CASE /\ offset + 1 \in 1..k
             /\ Unlinks(w[offset + 1])
             /\ Returns(NORMAL_STATE, {payload_data[w[offset + 1]]})
             /\ UNCHANGED <<payload_footprint, payload_data>>
    <3>1. Held' = Abstract!RemoveAt(Held, offset + 1)
      BY <1>0, <1>2, <2>2, HeldWithout
    <3>2. Held[offset + 1] = payload_data[w[offset + 1]] /\ offset + 1 \in DOMAIN Held
      BY <1>3, <2>2
    <3>3. Abstract!Returns(Abstract!NORMAL_STATE, {Held[offset + 1]})
      BY <2>2, <3>2, ReturnsIsReturns, CodesAreCodes
    <3>4. Abstract!ExciseAt(offset)
      BY <3>1, <3>2, <3>3, Zenon DEF Abstract!ExciseAt
    <3> QED
      BY <2>0, <3>4 DEF Abstract!Next
  <2> QED
    BY <1>0, <1>2, <1>10, <2>0, <2>1, <2>2, OffsetUnlinks
<1>11. ASSUME NEW l \in Links, CallerFrees(l) PROVE UNCHANGED <<Held, result>>
  <2>1. /\ l \in handed /\ handed' = handed \ {l} /\ blocks' = blocks \ {l}
        /\ UNCHANGED <<payload_footprint, head_node, tail_node, links, fields, result>>
    BY <1>11 DEF CallerFrees
  <2>2. handed' \subseteq handed /\ blocks' = blocks \ (handed \ handed')
    BY <2>1
  <2> QED
    BY <1>0, <2>1, <2>2, HeldIsKept
<1>12. CASE UNCHANGED vars
  <2>1. UNCHANGED <<payload_footprint, head_node, tail_node, links, fields, blocks, handed, result>>
    BY <1>12 DEF vars
  <2>2. handed' \subseteq handed /\ blocks' = blocks \ (handed \ handed')
    BY <2>1
  <2> QED
    BY <1>0, <2>1, <2>2, HeldIsKept
<1> QED
  BY <1>6, <1>7, <1>8, <1>9, <1>10, <1>11, <1>12 DEF Next

\* The list of queue_list.c implements the sequence of Ledger: the order, which
\* of equal payloads goes, and what each call gives.
THEOREM ListIsALedger == Spec => ImplementsLedger
<1>1. Init => Abstract!Init
  <2> SUFFICES ASSUME Init PROVE Abstract!Init
    OBVIOUS
  <2>1. PICK w \in [1..0 -> links] : Chained(w, 0)
    BY EmptyChain
  <2>2. TypeOK
    BY Init_ChainInv DEF ChainInv
  <2>3. Held \in Seq(Payloads) /\ Len(Held) = 0
    BY <2>1, <2>2, HeldIsChain, ContentsAreLedger DEF HeldTells
  <2>4. Held = <<>>
    BY <2>3
  <2>5. result = [code |-> Abstract!NORMAL_STATE, payloads |-> {}]
    BY CodesAreCodes DEF Init
  <2> QED
    BY <2>4, <2>5 DEF Abstract!Init
<1>2. ChainInv /\ ChainInv' /\ [Next]_vars => [Abstract!Next]_<<Held, result>>
  BY StepIsLedgers
<1> QED
  BY <1>1, <1>2, ChainIsKept, PTL DEF Spec, ImplementsLedger, Abstract!Spec
=============================================================================

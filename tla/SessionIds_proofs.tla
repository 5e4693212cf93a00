-------------------------- MODULE SessionIds_proofs --------------------------
(***************************************************************************)
(* Proofs about SessionIds, for every size of the pool.                    *)
(***************************************************************************)
EXTENDS SessionIds, SequenceTheorems, TLAPS

IdInv == IdTypeOK /\ IdsNeverShared /\ IdsWereMade /\ PoolNeverOverflows

\* A pool without its last entry.
LEMMA Shortened ==
  ASSUME NEW S, NEW pool \in Seq(S), pool # <<>>
  PROVE  LET n == Len(pool) IN
         /\ n \in Nat \ {0}
         /\ SubSeq(pool, 1, n - 1) \in Seq(S)
         /\ Len(SubSeq(pool, 1, n - 1)) = n - 1
         /\ \A i \in 1 .. n - 1 : SubSeq(pool, 1, n - 1)[i] = pool[i]
         /\ pool[n] \in S
<1> DEFINE n == Len(pool)
<1>1. n \in Nat \ {0}
  OBVIOUS
<1>2. pool[n] \in S
  BY <1>1
<1>3. \A i \in 1 .. n - 1 : pool[i] \in S
  BY <1>1
<1>4. n - 1 \in Int
  BY <1>1
<1> DEFINE short == SubSeq(pool, 1, n - 1)
<1>5. /\ short \in Seq(S)
      /\ Len(short) = IF 1 <= n - 1 THEN n - 1 - 1 + 1 ELSE 0
      /\ \A i \in 1 .. n - 1 - 1 + 1 : short[i] = pool[1 + i - 1]
  <2> HIDE DEF n
  <2> QED
    BY <1>3, <1>4, SubSeqProperties
<1>6. Len(short) = n - 1
  <2> DEFINE l == Len(short)
  <2>1. l = IF 1 <= n - 1 THEN n - 1 - 1 + 1 ELSE 0
    BY <1>5
  <2> HIDE DEF n, l
  <2>2. l = n - 1
    BY <1>1, <2>1
  <2> QED
    BY <2>2 DEF l
<1>7. \A i \in 1 .. n - 1 : short[i] = pool[i]
  <2> TAKE i \in 1 .. n - 1
  <2> HIDE DEF n, short
  <2>1. i \in 1 .. n - 1 - 1 + 1 /\ 1 + i - 1 = i
    BY <1>1
  <2> QED
    BY <1>5, <2>1
<1> QED
  BY <1>1, <1>2, <1>5, <1>6, <1>7

\* IdInv holds at the start.
LEMMA IdInit_IdInv == IdInit => IdInv
  BY PoolAssumption DEF IdInit, IdInv, IdTypeOK, IdsNeverShared, IdsWereMade,
     PoolNeverOverflows, Pooled

\* An identifier taken from the pool leaves it; one that is made is new.
LEMMA Acquire_IdInv == IdInv /\ acquireNewSessionIdentifier => IdInv'
<1> SUFFICES ASSUME IdInv, acquireNewSessionIdentifier PROVE IdInv'
  OBVIOUS
<1> USE DEF IdInv
<1>1. CASE recycled_id_pool = <<>>
  <2>1. /\ recycled_id_pool' = <<>>
        /\ held' = held \cup {current_highest_id}
        /\ current_highest_id' = current_highest_id + 1
    BY <1>1 DEF acquireNewSessionIdentifier, NextId
  <2> QED
    BY <2>1, PoolAssumption DEF IdTypeOK, IdsNeverShared, IdsWereMade,
       PoolNeverOverflows, Pooled
<1>2. CASE recycled_id_pool # <<>>
  <2> DEFINE n == Len(recycled_id_pool)
  <2>1. /\ recycled_id_pool' = SubSeq(recycled_id_pool, 1, n - 1)
        /\ held' = held \cup {recycled_id_pool[n]}
        /\ current_highest_id' = current_highest_id
    BY <1>2 DEF acquireNewSessionIdentifier, NextId
  <2>2. /\ n \in Nat \ {0}
        /\ recycled_id_pool' \in Seq(Nat)
        /\ Len(recycled_id_pool') = n - 1
        /\ \A i \in 1 .. n - 1 : recycled_id_pool'[i] = recycled_id_pool[i]
        /\ recycled_id_pool[n] \in Nat
    BY <1>2, <2>1, Shortened DEF IdTypeOK
  <2>3. DOMAIN recycled_id_pool = 1 .. n /\ DOMAIN recycled_id_pool' = 1 .. n - 1
    BY <2>2 DEF IdTypeOK
  <2>4. IdTypeOK'
    BY <2>1, <2>2 DEF IdTypeOK
  <2>5. \A i \in 1 .. n - 1 : recycled_id_pool[i] # recycled_id_pool[n]
    BY <2>2, <2>3 DEF IdsNeverShared
  <2>6. Pooled' \subseteq Pooled /\ recycled_id_pool[n] \notin Pooled'
    BY <2>2, <2>3, <2>5 DEF Pooled
  <2>7. recycled_id_pool[n] \in Pooled
    BY <2>2, <2>3 DEF Pooled
  <2>8. IdsNeverShared'
    BY <2>1, <2>2, <2>3, <2>6 DEF IdsNeverShared
  <2>9. IdsWereMade'
    BY <2>1, <2>6, <2>7 DEF IdsWereMade
  <2>10. PoolNeverOverflows'
    BY <2>2, PoolAssumption DEF PoolNeverOverflows
  <2> QED
    BY <2>4, <2>8, <2>9, <2>10
<1> QED
  BY <1>1, <1>2

\* An identifier put back by who holds it was not in the pool.
LEMMA Relinquish_IdInv ==
  ASSUME NEW id \in held, IdInv, relinquishSessionIdentifier(id)
  PROVE  IdInv'
<1> USE DEF IdInv
<1>1. id \in Nat /\ id \notin Pooled /\ id < current_highest_id
  BY DEF IdTypeOK, IdsNeverShared, IdsWereMade
<1>2. CASE Len(recycled_id_pool) < POOL_SIZE_FOR_IDS
  <2> DEFINE n == Len(recycled_id_pool)
  <2>1. /\ recycled_id_pool' = Append(recycled_id_pool, id)
        /\ held' = held \ {id}
        /\ current_highest_id' = current_highest_id
    BY <1>2 DEF relinquishSessionIdentifier
  <2>2. /\ n \in Nat
        /\ recycled_id_pool' \in Seq(Nat)
        /\ Len(recycled_id_pool') = n + 1
        /\ DOMAIN recycled_id_pool = 1 .. n
        /\ DOMAIN recycled_id_pool' = 1 .. n + 1
        /\ \A i \in 1 .. n : recycled_id_pool'[i] = recycled_id_pool[i]
        /\ recycled_id_pool'[n + 1] = id
    BY <1>1, <2>1 DEF IdTypeOK
  <2>3. Pooled' = Pooled \cup {id}
    BY <2>2 DEF Pooled
  <2>4. IdTypeOK'
    BY <2>1, <2>2 DEF IdTypeOK
  <2>5. \A i \in 1 .. n : recycled_id_pool[i] # id
    BY <1>1, <2>2 DEF Pooled
  <2>6. IdsNeverShared'
    BY <2>1, <2>2, <2>3, <2>5 DEF IdsNeverShared
  <2>7. IdsWereMade'
    BY <1>1, <2>1, <2>3 DEF IdsWereMade
  <2>8. PoolNeverOverflows'
    BY <1>2, <2>2, PoolAssumption DEF PoolNeverOverflows
  <2> QED
    BY <2>4, <2>6, <2>7, <2>8
<1>3. CASE ~ (Len(recycled_id_pool) < POOL_SIZE_FOR_IDS)
  <2>1. /\ recycled_id_pool' = recycled_id_pool
        /\ held' = held \ {id}
        /\ current_highest_id' = current_highest_id
    BY <1>3 DEF relinquishSessionIdentifier
  <2> QED
    BY <2>1 DEF IdTypeOK, IdsNeverShared, IdsWereMade, PoolNeverOverflows, Pooled
<1> QED
  BY <1>2, <1>3

\* A forgotten identifier is in use no more and never returns.
LEMMA Forget_IdInv ==
  ASSUME NEW id \in held, IdInv, ForgetId(id)
  PROVE  IdInv'
  BY DEF ForgetId, IdInv, IdTypeOK, IdsNeverShared, IdsWereMade, PoolNeverOverflows, Pooled

\* IdInv is inductive.
LEMMA IdNext_IdInv == IdInv /\ [IdNext]_idVars => IdInv'
<1> SUFFICES ASSUME IdInv, [IdNext]_idVars PROVE IdInv'
  OBVIOUS
<1>1. CASE acquireNewSessionIdentifier
  BY <1>1, Acquire_IdInv
<1>2. ASSUME NEW id \in held, relinquishSessionIdentifier(id) PROVE IdInv'
  BY <1>2, Relinquish_IdInv
<1>3. ASSUME NEW id \in held, ForgetId(id) PROVE IdInv'
  BY <1>3, Forget_IdInv
<1>4. CASE UNCHANGED idVars
  BY <1>4 DEF idVars, IdInv, IdTypeOK, IdsNeverShared, IdsWereMade, PoolNeverOverflows, Pooled
<1> QED
  BY <1>1, <1>2, <1>3, <1>4 DEF IdNext

\* As long as its callers put back only what they hold, the generator never has
\* one identifier in two hands, nor hands out one that is in use, whatever the
\* order of the calls and the size of recycled_id_pool.
THEOREM IdsAreNeverShared == IdSpec => []IdsNeverShared
<1>1. IdInv => IdsNeverShared
  BY DEF IdInv
<1> QED
  BY <1>1, IdInit_IdInv, IdNext_IdInv, PTL DEF IdSpec

\* No identifier circulates before it was made, and the pool keeps its bound.
THEOREM IdsAreMadeAndPoolHolds == IdSpec => [](IdsWereMade /\ PoolNeverOverflows)
<1>1. IdInv => IdsWereMade /\ PoolNeverOverflows
  BY DEF IdInv
<1> QED
  BY <1>1, IdInit_IdInv, IdNext_IdInv, PTL DEF IdSpec
=============================================================================

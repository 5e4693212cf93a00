----------------------------- MODULE SessionIds -----------------------------
(***************************************************************************)
(* The identifiers of the sessions (acquireNewSessionIdentifier and        *)
(* relinquishSessionIdentifier of server.c, both under id_generation_lock) *)
(* beside the ones their callers hold.  IdSpec is what the callers owe:    *)
(* to put back only what they hold, once.                                  *)
(***************************************************************************)
EXTENDS Integers, Sequences, FiniteSets

CONSTANTS
  POOL_SIZE_FOR_IDS,
  MaxId               \* bound: identifiers made

ASSUME PoolAssumption == POOL_SIZE_FOR_IDS \in Nat /\ MaxId \in Nat

VARIABLES
  current_highest_id,
  recycled_id_pool,   \* its first recycled_id_count entries
  held                \* history: acquired, and neither put back nor forgotten

idVars == <<current_highest_id, recycled_id_pool, held>>

IdInit == /\ current_highest_id = 0
          /\ recycled_id_pool = <<>>
          /\ held = {}

\* The last identifier put back, or a new one.
NextId == IF recycled_id_pool = <<>> THEN current_highest_id
          ELSE recycled_id_pool[Len(recycled_id_pool)]

\* Mutants: recycled_id_count is not decremented; current_highest_id is not
\* incremented.
AcquireUndecremented ==
  /\ held' = held \cup {NextId}
  /\ \/ /\ recycled_id_pool = <<>>
        /\ current_highest_id < MaxId
        /\ current_highest_id' = current_highest_id + 1
     \/ /\ recycled_id_pool # <<>>
        /\ UNCHANGED current_highest_id
  /\ UNCHANGED recycled_id_pool
AcquireUnincremented ==
  /\ held' = held \cup {NextId}
  /\ current_highest_id < MaxId
  /\ recycled_id_pool' = SubSeq(recycled_id_pool, 1, Len(recycled_id_pool) - 1)
  /\ UNCHANGED current_highest_id
acquireNewSessionIdentifier ==
  /\ held' = held \cup {NextId}
  /\ \/ /\ recycled_id_pool = <<>>
        /\ current_highest_id < MaxId
        /\ current_highest_id' = current_highest_id + 1
        /\ UNCHANGED recycled_id_pool
     \/ /\ recycled_id_pool # <<>>
        /\ recycled_id_pool' = SubSeq(recycled_id_pool, 1, Len(recycled_id_pool) - 1)
        /\ UNCHANGED current_highest_id

\* A full pool drops the identifier.
relinquishSessionIdentifier(id) ==
  /\ recycled_id_pool' = IF Len(recycled_id_pool) < POOL_SIZE_FOR_IDS
                         THEN Append(recycled_id_pool, id)
                         ELSE recycled_id_pool
  /\ held' = held \ {id}
  /\ UNCHANGED current_highest_id

\* Its holder ends and never puts it back.
ForgetId(id) == /\ held' = held \ {id}
                /\ UNCHANGED <<current_highest_id, recycled_id_pool>>

IdNext == \/ acquireNewSessionIdentifier
          \/ \E id \in held : relinquishSessionIdentifier(id) \/ ForgetId(id)

IdSpec == IdInit /\ [][IdNext]_idVars

Pooled == {recycled_id_pool[i] : i \in DOMAIN recycled_id_pool}

IdTypeOK == /\ current_highest_id \in Nat
            /\ recycled_id_pool \in Seq(Nat)
            /\ held \in SUBSET Nat

\* An identifier in use is not for the taking, and none waits twice: two
\* sessions never get the same one (both functions, and every caller's order).
IdsNeverShared ==
  /\ held \cap Pooled = {}
  /\ \A i, j \in DOMAIN recycled_id_pool :
       recycled_id_pool[i] = recycled_id_pool[j] => i = j

\* No identifier is in use or waiting before it was made.
IdsWereMade == \A id \in held \cup Pooled : id < current_highest_id

\* recycled_id_count never runs past recycled_id_pool.
PoolNeverOverflows == Len(recycled_id_pool) <= POOL_SIZE_FOR_IDS
=============================================================================

---------------------------- MODULE ChainLedger ----------------------------
(***************************************************************************)
(* The doubly linked list of queue_list.c, link by link.  Every function   *)
(* holds access_lock from its first look at the list to its last, so a     *)
(* call is one step.  A payload block is named after the link it was       *)
(* allocated with.                                                         *)
(***************************************************************************)
EXTENDS Integers, FiniteSets

CONSTANTS
  Links,        \* bound: the links that exist at a time
  Payloads,
  MaxOffset,    \* bound: the offsets asked for are -1 .. MaxOffset
  Null

ASSUME ChainAssumption == /\ IsFiniteSet(Links) /\ Null \notin Links
                          /\ Payloads # {} /\ MaxOffset \in Nat

ALLOC_FAULT == -2
VOID_STATE == -1
NORMAL_STATE == 0

VARIABLES
  payload_footprint,   \* "pointer" (sizeof(void *)) or "other"
  head_node, tail_node,
  links,               \* the links that are allocated, with their fields:
  predecessor_link, payload_data, successor_link,
  blocks,              \* the payload blocks that are allocated
  handed,              \* those of them that now belong to a caller
  result               \* the code of the last call and what it gave

fields == <<predecessor_link, payload_data, successor_link>>
vars == <<payload_footprint, head_node, tail_node, links, fields, blocks, handed, result>>

bootstrap_chain_ledger ==
  /\ payload_footprint \in {"pointer", "other"}
  /\ head_node = Null
  /\ tail_node = Null

Init ==
  /\ bootstrap_chain_ledger
  /\ links = {}
  /\ predecessor_link = [l \in Links |-> Null]
  /\ successor_link = [l \in Links |-> Null]
  /\ payload_data \in [Links -> {CHOOSE p \in Payloads : TRUE}]
  /\ blocks = {}
  /\ handed = {}
  /\ result = [code |-> NORMAL_STATE, payloads |-> {}]

Returns(code, payloads) == result' = [code |-> code, payloads |-> payloads]
Fails(code) == /\ Returns(code, {})
               /\ UNCHANGED <<payload_footprint, head_node, tail_node, links, fields, blocks, handed>>

\* The link the n-th step from the head comes to.
Walk[n \in 0 .. Cardinality(Links)] ==
  IF n = 0 THEN head_node
  ELSE IF Walk[n - 1] = Null THEN Null ELSE successor_link[Walk[n - 1]]

-----------------------------------------------------------------------------
ChainedBehind(l) ==
  successor_link' = IF head_node = Null THEN [successor_link EXCEPT ![l] = Null]
                    ELSE [successor_link EXCEPT ![l] = Null, ![tail_node] = l]

push_to_chain(p) ==
  \/ Fails(ALLOC_FAULT)
  \/ \E l \in Links \ (links \cup blocks) :
       /\ links' = links \cup {l}
       /\ blocks' = blocks \cup {l}
       /\ payload_data' = [payload_data EXCEPT ![l] = p]
       /\ predecessor_link' = [predecessor_link EXCEPT
                                 ![l] = IF head_node = Null THEN Null ELSE tail_node]
       /\ ChainedBehind(l)
       /\ head_node' = IF head_node = Null THEN l ELSE head_node
       /\ tail_node' = l
       /\ Returns(NORMAL_STATE, {})
       /\ UNCHANGED <<payload_footprint, handed>>

peek_chain ==
  IF head_node = Null \/ tail_node = Null THEN Fails(VOID_STATE)
  ELSE /\ Returns(NORMAL_STATE, {payload_data[head_node]})
       /\ UNCHANGED <<payload_footprint, head_node, tail_node, links, fields, blocks, handed>>

pop_from_chain ==
  IF head_node = Null \/ tail_node = Null THEN Fails(VOID_STATE)
  ELSE LET next == successor_link[head_node]
       IN /\ head_node' = next
          /\ tail_node' = IF next = Null THEN Null ELSE tail_node
          /\ predecessor_link' = IF next = Null THEN predecessor_link
                                 ELSE [predecessor_link EXCEPT ![next] = Null]
          /\ links' = links \ {head_node}
          /\ blocks' = blocks \ {head_node}
          /\ Returns(NORMAL_STATE, {payload_data[head_node]})
          /\ UNCHANGED <<payload_footprint, payload_data, successor_link, handed>>

\* Its neighbours, or the ends of the list, are joined around l.
\* Mutant: the link behind it is not told.
UnlinksForward(l) ==
  LET before == predecessor_link[l]
      behind == successor_link[l]
  IN /\ head_node' = IF before = Null THEN behind ELSE head_node
     /\ tail_node' = IF behind = Null THEN before ELSE tail_node
     /\ successor_link' = IF before = Null THEN successor_link
                          ELSE [successor_link EXCEPT ![before] = behind]
     /\ UNCHANGED predecessor_link
     /\ links' = links \ {l}
Unlinks(l) ==
  LET before == predecessor_link[l]
      behind == successor_link[l]
  IN /\ head_node' = IF before = Null THEN behind ELSE head_node
     /\ tail_node' = IF behind = Null THEN before ELSE tail_node
     /\ successor_link' = IF before = Null THEN successor_link
                          ELSE [successor_link EXCEPT ![before] = behind]
     /\ predecessor_link' = IF behind = Null THEN predecessor_link
                            ELSE [predecessor_link EXCEPT ![behind] = before]
     /\ links' = links \ {l}

\* Mutant: the newest of the equal ones goes.
Newest(equal) == CHOOSE n \in equal : \A m \in equal : n >= m
Oldest(equal) == CHOOSE n \in equal : \A m \in equal : n <= m

\* Despite its name it starts at the head.
excise_tail_chain(p) ==
  LET equal == {n \in DOMAIN Walk : Walk[n] # Null /\ payload_data[Walk[n]] = p}
  IN IF equal = {} THEN Fails(VOID_STATE)
     ELSE /\ Unlinks(Walk[Oldest(equal)])
          /\ blocks' = blocks \ {Walk[Oldest(equal)]}
          /\ Returns(NORMAL_STATE, {})
          /\ UNCHANGED <<payload_footprint, payload_data, handed>>

\* Mutant: the block of a pointer is not freed.
HandedUnfreed(l) ==
  blocks' = blocks /\ handed' = IF payload_footprint = "pointer" THEN handed ELSE handed \cup {l}
\* A pointer is copied and its block freed; anything else goes to the caller
\* in the block it is in.
HandedOver(l) ==
  IF payload_footprint = "pointer" THEN blocks' = blocks \ {l} /\ UNCHANGED handed
  ELSE blocks' = blocks /\ handed' = handed \cup {l}

\* offset_idx is an int compared as a size_t: -1 is beyond the end.
excise_offset_chain(offset) ==
  IF offset \notin DOMAIN Walk \/ Walk[offset] = Null THEN Fails(VOID_STATE)
  ELSE /\ Unlinks(Walk[offset])
       /\ HandedOver(Walk[offset])
       /\ Returns(NORMAL_STATE, {payload_data[Walk[offset]]})
       /\ UNCHANGED <<payload_footprint, payload_data>>

\* The caller frees what it was given.
CallerFrees(l) ==
  /\ l \in handed
  /\ handed' = handed \ {l}
  /\ blocks' = blocks \ {l}
  /\ UNCHANGED <<payload_footprint, head_node, tail_node, links, fields, result>>

Next == \/ peek_chain \/ pop_from_chain
        \/ \E p \in Payloads : push_to_chain(p) \/ excise_tail_chain(p)
        \/ \E offset \in -1 .. MaxOffset : excise_offset_chain(offset)
        \/ \E l \in Links : CallerFrees(l)

Spec == Init /\ [][Next]_vars

-----------------------------------------------------------------------------
\* Every variable has the values the code can give it.
TypeOK ==
  /\ payload_footprint \in {"pointer", "other"}
  /\ head_node \in links \cup {Null} /\ tail_node \in links \cup {Null}
  /\ links \subseteq Links
  /\ predecessor_link \in [Links -> Links \cup {Null}]
  /\ successor_link \in [Links -> Links \cup {Null}]
  /\ payload_data \in [Links -> Payloads]
  /\ blocks \subseteq Links /\ handed \subseteq blocks

\* The two directions of the list mirror each other, no link points to a freed
\* one, and the two ends are the only links without a neighbour.
LinksMirror ==
  /\ (head_node = Null) = (tail_node = Null)
  /\ \A l \in links :
       /\ (predecessor_link[l] = Null) = (l = head_node)
       /\ (successor_link[l] = Null) = (l = tail_node)
       /\ predecessor_link[l] # Null =>
            predecessor_link[l] \in links /\ successor_link[predecessor_link[l]] = l
       /\ successor_link[l] # Null =>
            successor_link[l] \in links /\ predecessor_link[successor_link[l]] = l

Reached == {n \in DOMAIN Walk : Walk[n] # Null}

\* Every block that is allocated is the payload of one link, or belongs to the
\* caller it was handed to; every link is reached from the head.
NothingLeaked == /\ blocks = links \cup handed
                 /\ links \cap handed = {}
                 /\ links = {Walk[n] : n \in Reached}

\* The list implements the sequence Ledger.tla specifies: the order, which of
\* equal payloads goes, and what each call gives.
Held == [i \in 1 .. Cardinality(Reached) |-> payload_data[Walk[i - 1]]]
Abstract == INSTANCE Ledger WITH ledger <- Held
ImplementsLedger == Abstract!Spec
=============================================================================

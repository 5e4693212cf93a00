------------------------------- MODULE Ledger -------------------------------
(***************************************************************************)
(* What the list of queue_list.c promises: a sequence, and the result of   *)
(* the last call.                                                          *)
(***************************************************************************)
EXTENDS Integers, Sequences, SequencesExt

CONSTANTS Payloads, MaxOffset

ALLOC_FAULT == -2
VOID_STATE == -1
NORMAL_STATE == 0

VARIABLES ledger, result

Offsets == -1 .. MaxOffset
Returns(code, payloads) == result' = [code |-> code, payloads |-> payloads]

Init == ledger = <<>> /\ result = [code |-> NORMAL_STATE, payloads |-> {}]

Push(p) == \/ ledger' = Append(ledger, p) /\ Returns(NORMAL_STATE, {})
           \/ UNCHANGED ledger /\ Returns(ALLOC_FAULT, {})

Peek == /\ UNCHANGED ledger
        /\ IF ledger = <<>> THEN Returns(VOID_STATE, {})
           ELSE Returns(NORMAL_STATE, {Head(ledger)})

Pop == IF ledger = <<>> THEN UNCHANGED ledger /\ Returns(VOID_STATE, {})
       ELSE ledger' = Tail(ledger) /\ Returns(NORMAL_STATE, {Head(ledger)})

\* The oldest of those equal to p.
ExciseEqual(p) ==
  IF \A i \in DOMAIN ledger : ledger[i] # p THEN UNCHANGED ledger /\ Returns(VOID_STATE, {})
  ELSE ledger' = RemoveFirst(ledger, p) /\ Returns(NORMAL_STATE, {})

\* A negative offset is beyond the end, like one that is too large.
ExciseAt(offset) ==
  IF offset + 1 \notin DOMAIN ledger THEN UNCHANGED ledger /\ Returns(VOID_STATE, {})
  ELSE ledger' = RemoveAt(ledger, offset + 1) /\ Returns(NORMAL_STATE, {ledger[offset + 1]})

Next == \/ Peek \/ Pop
        \/ \E p \in Payloads : Push(p) \/ ExciseEqual(p)
        \/ \E offset \in Offsets : ExciseAt(offset)

Spec == Init /\ [][Next]_<<ledger, result>>
=============================================================================

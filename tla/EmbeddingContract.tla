------------------------- MODULE EmbeddingContract -------------------------
(***************************************************************************)
(* What find_embedding promises its caller, whatever the search does: it   *)
(* collects distinct embeddings, and its one answer is either the best of  *)
(* those it collected or a refusal.                                        *)
(***************************************************************************)
EXTENDS Integers, Sequences

CONSTANTS
  Embeddings,   \* the assignments the independent validator accepts
  Values,       \* what a terminal scorer may say of one
  NoAnswer      \* the empty embedding

VARIABLES
  found,        \* the embeddings collected, with their values, in order
  status,       \* "searching", "answered" or "raised"
  answer

contract_vars == <<found, status, answer>>

\* The earliest of the best.
IsBest(i) ==
  /\ i \in DOMAIN found
  /\ \A j \in DOMAIN found :
       /\ found[j].value <= found[i].value
       /\ j < i => found[j].value < found[i].value

ContractInit == found = <<>> /\ status = "searching" /\ answer = NoAnswer

Find ==
  /\ status = "searching"
  /\ \E c \in Embeddings, v \in Values :
       /\ \A i \in DOMAIN found : found[i].chains # c
       /\ found' = Append(found, [chains |-> c, value |-> v])
  /\ UNCHANGED <<status, answer>>

Answer ==
  /\ status = "searching"
  /\ \E i \in DOMAIN found : IsBest(i) /\ answer' = found[i].chains
  /\ status' = "answered"
  /\ UNCHANGED found

\* Nothing was found, or the budget does not cover the final validation.
Decline == status = "searching" /\ status' = "answered" /\ UNCHANGED <<found, answer>>

Raise == status = "searching" /\ status' = "raised" /\ UNCHANGED <<found, answer>>

ContractNext == Find \/ Answer \/ Decline \/ Raise

ContractSpec == ContractInit /\ [][ContractNext]_contract_vars
=============================================================================

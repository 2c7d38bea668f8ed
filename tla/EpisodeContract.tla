-------------------------- MODULE EpisodeContract --------------------------
(***************************************************************************)
(* What an episode of the environment promises its caller, who may begin   *)
(* another at any time: it returns only an embedding it                    *)
(* has found valid itself, and it refuses only when it has found none.     *)
(* EpisodeEnv implements it; archives, budgets and supports are invisible. *)
(***************************************************************************)
CONSTANTS Returnable, NoEmbedding, Refusals

VARIABLES found, outcome, answer

vars == <<found, outcome, answer>>

Init == found = {} /\ outcome = "unset" /\ answer = NoEmbedding

\* A new episode: its first workspace may already be one to return.
Begin == /\ found' \in {{}} \cup {{e} : e \in Returnable}
         /\ outcome' \in {"running"} \cup IF found' = {} THEN Refusals ELSE {}
         /\ answer' = NoEmbedding

\* The workspace moves on; it refuses on the way only while it is empty-handed.
Search == /\ outcome = "running"
          /\ found' \in {found} \cup {found \cup {e} : e \in Returnable}
          /\ outcome' \in {"running"} \cup IF found' = {} THEN Refusals ELSE {}
          /\ UNCHANGED answer

Return == /\ outcome = "running"
          /\ answer' \in found
          /\ outcome' = "COMMIT"
          /\ UNCHANGED found

Next == Begin \/ Search \/ Return

Spec == Init /\ [][Next]_vars
=============================================================================

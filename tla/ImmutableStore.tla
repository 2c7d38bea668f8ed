--------------------------- MODULE ImmutableStore ----------------------------
(***************************************************************************)
(* What publication promises its readers: a name holds nothing or one      *)
(* whole content, which appears at once and is never replaced.  Only a     *)
(* power loss takes it away.                                               *)
(***************************************************************************)
CONSTANTS Names, Contents, Nobody

VARIABLE held

Init == held = [n \in Names |-> Nobody]

Publish(n, c) ==
    /\ held[n] = Nobody
    /\ held' = [held EXCEPT ![n] = c]

Lose(lost) == held' = [n \in Names |-> IF n \in lost THEN Nobody ELSE held[n]]

Next ==
    \/ \E n \in Names, c \in Contents : Publish(n, c)
    \/ \E lost \in SUBSET Names : Lose(lost)

Spec == Init /\ [][Next]_held
=============================================================================

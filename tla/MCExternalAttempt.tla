------------------------- MODULE MCExternalAttempt --------------------------
(* Caps that stop the attempt at each of its tests, and caps that do not.  *)
EXTENDS ExternalAttempt

MCCaps ==
    {c \in [restarts : {2, 4}, validators : {0, 1, 3, 6}, compilers : {0, 4, 12}, audits : {0, 1}] :
        c.audits = 0 => c.restarts = 4 /\ c.validators = 6}
=============================================================================

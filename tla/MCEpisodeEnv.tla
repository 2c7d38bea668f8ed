---------------------------- MODULE MCEpisodeEnv ----------------------------
(***************************************************************************)
(* Three workspaces that validate, one that does not, the blank one; a     *)
(* support of one or two rows, an archive of two.  The budgets let every   *)
(* coordinate be the one that ends the search.                             *)
(***************************************************************************)
EXTENDS EpisodeEnv

CONSTANTS blank, partial, e1, e2, e3, none

MCEmbeddings == {blank, partial, e1, e2, e3}
MCReturnable == {e1, e2, e3}
MCCache == <<e2, e2>>
MCCacheThree == <<e3, e2>>
MCSizes == {1}

\* A reserve that holds everything COMMIT is charged; one with no more features
\* than the context asks for (MCEpisodeLeast.cfg); and, with MCCapsUnvalidated in the
\* place of MCCapsLeast there, one without a validator call.
MCReserve == Work(1, 0, 6, 1, 1, 32 * (2 + Variables) + 4)
MCReserveLeast == Work(1, 0, 6, 1, 1, 32 * (2 + Variables))
MCReserveUnvalidated == Work(1, 0, 6, 0, 1, 32 * (2 + Variables) + 4)
MCDebit == Work(0, 1, 0, 0, 0, 8)
MCCaps == Work(5, 6, 34, 16, 1, 8 + 196 + 692)
MCCapsLeast == Work(4, 6, 60, 20, 1, 8 + 32 * 6 + 256 + 32 * 7)
MCCapsUnvalidated == [MCCaps EXCEPT !.validator = 3]
=============================================================================

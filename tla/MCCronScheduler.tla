--------------------------- MODULE MCCronScheduler ---------------------------
(* A job of a user's, one that the configuration declares, and one that    *)
(* belongs to no agent.                                                    *)
EXTENDS CronScheduler, TLC

CONSTANTS added, declared, orphan
=============================================================================

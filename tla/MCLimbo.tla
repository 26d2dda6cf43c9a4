------------------------------- MODULE MCLimbo -------------------------------
(* The programs, compiled and run.                                             *)
EXTENDS LimboProps, LimboPrograms

MCPrograms == RunnablePrograms
MCImages == LET images == Compiled IN images
MCOutcomes == LET outcomes == Meant IN outcomes
=============================================================================

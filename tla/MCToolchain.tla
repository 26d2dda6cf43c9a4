------------------------------ MODULE MCToolchain ------------------------------
(* The sources and modules, worked out before the run.                         *)
EXTENDS ToolchainProps

MCSources == LET sources == AllSources IN sources
MCGenerated == LET generated == AllGenerated IN generated
MCMeanings == LET meanings == AllMeanings IN meanings
MCModules == LET modules == AllModules IN modules
=============================================================================

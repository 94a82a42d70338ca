-------------------------------- MODULE DccMC --------------------------------
(* Dcc with files of two chunks.                                              *)
EXTENDS Dcc

AnyStage == Live
NoStage == {}
\* Every stage but the one between writing the record and opening the file.
SafeStages == Live \ {"opening"}
=============================================================================

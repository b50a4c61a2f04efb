---------------------------- MODULE MCOrchestrator ----------------------------
(***************************************************************************)
(* Paths for the Orchestrator runs.  The process runs in /w.  An absolute *)
(* --out-dir /w/out with images named absolutely, relatively, and inside  *)
(* the output directory; and the relative forms of --out-dir: "." and     *)
(* "out".                                                                 *)
(***************************************************************************)
EXTENDS Orchestrator

MCCwd == <<"/", "w">>

MCAbsoluteOutDirs == {<<"/", "w", "out">>}

MCImageDirs == {<<"/", "img">>, <<"img">>, <<"/", "w", "out">>}

MCRelativeOutDirs == {<<>>, <<"out">>}

MCRelativeImageDirs == {<<"/", "img">>, <<"img">>}
=============================================================================

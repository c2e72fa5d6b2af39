-------------------------------- MODULE MCProjects --------------------------------
(* The manifest of projects alone: three projects and four sessions are     *)
(* enough for a project that stands in for the last one to be made twice.   *)
EXTENDS ProjectStore
=============================================================================

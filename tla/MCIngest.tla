-------------------------------- MODULE MCIngest --------------------------------
(****************************************************************************)
(* Two files, either of which may be missing from the source directory, and    *)
(* one process whose requests may run late. Three mints are a catalog and two  *)
(* documents, or a catalog and a document that is inserted again after a       *)
(* crash.                                                                    *)
(****************************************************************************)
EXTENDS Ingest

CONSTANTS p1, f1, f2

MCDirs == {{f1}, {f1, f2}}

================================================================================

---------------------------- MODULE MCFileTools ----------------------------
(* A write and two edits of one file, by its real path or through a link.  *)
EXTENDS FileTools
===========================================================================

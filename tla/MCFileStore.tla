---------------------------- MODULE MCFileStore ----------------------------
(* TLC instance of FileStore: three files of lengths 1, 0 and 2, so that  *)
(* offset 1 is both the end of the first file and the start of the empty  *)
(* second one; bytes 0 and 1; buffers of up to two bytes, so that a        *)
(* transfer spans a boundary.                                              *)
EXTENDS FileStore, TLC

MCLens == <<1, 0, 2>>
=============================================================================

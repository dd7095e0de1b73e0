---------------------------- MODULE MCSplitter -------------------------------
(* The split stage for TLC: the files are model values, interchangeable.  *)
EXTENDS Splitter, TLC

CONSTANTS f1, f2, f3

FilesSymmetry == Permutations(Files)

=============================================================================

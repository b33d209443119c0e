----------------------------- MODULE ArrayScan -----------------------------
(***************************************************************************)
(* Every array of the receiver is searched from index 0 for its first      *)
(* matching element; a search that finds none answers -1.                  *)
(***************************************************************************)
EXTENDS Integers, FiniteSetsExt

\* The answer of a search whose matching indices are the set S.
FirstOf(S) == IF S = {} THEN -1 ELSE Min(S)
============================================================================

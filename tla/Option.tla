------------------------------- MODULE Option -------------------------------
(***************************************************************************)
(* Rust's Option: an optional value is one of its type, or None.           *)
(***************************************************************************)

CONSTANT None

Maybe(S) == {None} \cup S
=============================================================================

------------------------------ MODULE Options ------------------------------
(***************************************************************************)
(* Values shared by the modules of the Rust crates: Option::None and the   *)
(* error of a Result.  Both are model values, so that they differ from     *)
(* every record, number and sequence they are compared with.               *)
(***************************************************************************)
EXTENDS Integers, Sequences, FiniteSets

CONSTANTS None, Err

\* Some field of a record of results is an error.
AnyErr(r) == \E f \in DOMAIN r : r[f] = Err
=============================================================================

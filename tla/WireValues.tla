----------------------------- MODULE WireValues -----------------------------
(***************************************************************************)
(* What a caller, a configuration file or a row may hold instead of a      *)
(* value.  Both are model values: they equal nothing else.                 *)
(***************************************************************************)
CONSTANTS
    Malformed,      \* text that a parser or validator of AV refuses
    Absent          \* no value, no row, no header
=============================================================================

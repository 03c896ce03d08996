-------------------------------- MODULE Null --------------------------------
(***************************************************************************)
(* The null pointer: no thread, no page, no descriptor.                    *)
(***************************************************************************)
CONSTANT NULL
=============================================================================

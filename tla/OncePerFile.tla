---------------------------- MODULE OncePerFile ----------------------------
(***************************************************************************)
(* What runMigrations promises whoever runs it, and however many do: the   *)
(* schema is what one pass over the files in their order leaves behind.    *)
(***************************************************************************)
EXTENDS Naturals

CONSTANT Files \* the number of migration files

VARIABLE schema \* how many files have been applied, each once, in order

Init == schema = 0

Apply == schema < Files /\ schema' = schema + 1

Spec == Init /\ [][Apply]_schema
=============================================================================

----------------------------- MODULE MCServer ------------------------------
(***************************************************************************)
(* An instance of the parts of the server for TLC.                         *)
(***************************************************************************)
EXTENDS Server, TLC

CONSTANTS sweepA, sweepB, preview, inr, usd

MCSweepers == {sweepA, sweepB, preview}
MCDays == [s \in MCSweepers |-> 1]
MCCurrency == "a" :> inr @@ "b" :> usd
=============================================================================

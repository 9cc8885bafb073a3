----------------------------- MODULE MCEnvelope -----------------------------
(***************************************************************************)
(* Four keys under two nonces: one whose hashes ascend with the keys and   *)
(* one that scatters them.                                                 *)
(***************************************************************************)
EXTENDS Envelope

FourKeys == 1 .. 4
TwoNonces == {"ascending", "scattered"}
TwoHashes ==
    [n \in TwoNonces |->
        IF n = "ascending" THEN [k \in FourKeys |-> k] ELSE [k \in FourKeys |-> (3 * k) % 5]]
=============================================================================

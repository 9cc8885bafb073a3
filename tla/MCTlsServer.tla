----------------------------- MODULE MCTlsServer -----------------------------
(***************************************************************************)
(* Small instances of TlsServer.  The connections are interchangeable; the *)
(* descriptors are not, accept returning the lowest free one.              *)
(***************************************************************************)
EXTENDS TlsServer, TLC

ConnSymmetry == Permutations(Conns)
=============================================================================

---------------------------- MODULE MCWriterProxy ----------------------------
(***************************************************************************)
(* Instances of WriterProxy: the proxies are interchangeable.              *)
(***************************************************************************)
EXTENDS WriterProxy, TLC

ProxySymmetry == Permutations(Proxies)
=============================================================================

---------------------------- MODULE MCImuStack ----------------------------
(* Small instances of ImuStack: values in the configuration files.         *)
EXTENDS ImuStack, TLC

Interchangeable == Permutations(Batches) \cup Permutations(Clients)
=============================================================================

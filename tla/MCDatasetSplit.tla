--------------------------- MODULE MCDatasetSplit ---------------------------
(* Instances of DatasetSplit for TLC. *)
EXTENDS DatasetSplit

MCRawFiles == <<"edf", "edf_burst_storm">>
=============================================================================

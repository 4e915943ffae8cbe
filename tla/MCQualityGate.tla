---------------------------- MODULE MCQualityGate ----------------------------
(* Instances of QualityGate for TLC.                                       *)
EXTENDS QualityGate

\* A robomimic dataset of two HDF5 files, a LeRobot one, and an episode of each.
File(k, kind, b) == [key |-> k, kind |-> kind, base |-> b]
MCFamilyOf == [rob |-> "robomimic", dro |-> "lerobot"]
MCFilesOf == [rob |-> <<File("mg", "hdf5", "x"), File("mh", "hdf5", "y")>>,
              dro |-> <<File("p", "parquet", "p"), File("v", "video", "v")>>]
\* The names of robomimic_scale30: .../can/mg/demo_v15.hdf5, .../can/mh/demo_v15.hdf5.
MCFilesShared == [MCFilesOf EXCEPT !["rob"] = <<File("mg", "hdf5", "x"), File("mh", "hdf5", "x")>>]
MCEpisodeOf == [e1 |-> "rob", e3 |-> "dro"]
MCBucketOf == [most |-> [e1 |-> "train", e3 |-> "test"], half |-> [e1 |-> "val", e3 |-> "test"]]
=============================================================================

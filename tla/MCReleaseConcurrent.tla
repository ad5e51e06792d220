------------------------- MODULE MCReleaseConcurrent -------------------------
(* ReleaseConcurrent on a root of the tool, VERSION and one user file.       *)
EXTENDS ReleaseConcurrent

CONSTANTS v1, v2, e1, bin, conf, version_file

MCVersion == {v1, v2}
MCEdit == {e1}
MCOneVersion == {v1}
MCPath == {bin, conf, version_file}
MCRootFile == {version_file}
MCPreserve == {conf}
=============================================================================

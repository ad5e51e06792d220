--------------------------- MODULE MCReleaseUpgrade ---------------------------
(* ReleaseUpgrade on a root of four paths: the tool, VERSION, one file of    *)
(* user configuration and one file the user added himself.                   *)
EXTENDS ReleaseRefinement, ReleaseInvariants

CONSTANTS v1, v2, e1, bin, conf, local_file, version_file

MCVersion == {v1, v2}
MCEdit == {e1}
MCNoEdit == {}
MCPath == {bin, conf, version_file}
MCPathLocal == {bin, conf, local_file, version_file}
MCRootFile == {version_file}
MCPreserve == {conf}
MCShips == {bin, conf, version_file}
=============================================================================

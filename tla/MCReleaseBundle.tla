--------------------------- MODULE MCReleaseBundle ---------------------------
(* Two device artifacts stand for the five, which are read one after the     *)
(* other alike; the two real platforms; two commits of one version, so that  *)
(* the version is packaged again from another commit.                        *)
EXTENDS ReleaseBundle

MCDevice == <<"katapult.bin", "klipper.bin">>
MCPlatforms == <<"linux-amd64", "windows-amd64">>
MCRelease == [c \in 0 .. MaxCommit |-> "0.1.0"]
=============================================================================

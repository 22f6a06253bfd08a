--------------------------- MODULE MCPlatformRuns ---------------------------
(***************************************************************************)
(* An instance of PlatformRuns for TLC.                                    *)
(***************************************************************************)
EXTENDS PlatformRuns

CONSTANTS w1, h1, s1, c1

NoNodes == {<<>>}
=============================================================================

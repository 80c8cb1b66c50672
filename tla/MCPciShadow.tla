---------------------------- MODULE MCPciShadow -----------------------------
(* PciShadow with three slots in every population, and expansion ROMs of the  *)
(* lengths the shadowing accepts, splits or refuses (none, 8 KB, 256 KB).     *)
EXTENDS PciShadow
MCRomLens == {0, 8, 16, 32, 64, 128, 256}
=============================================================================

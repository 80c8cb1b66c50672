----------------------------- MODULE MCAtaDisk ------------------------------
(* AtaDisk with none, one, two or all drives on the two channels, one of them *)
(* without LBA28; any of them may fail IDENTIFY.  A boot sector asks for      *)
(* three addresses of a tiny geometry whose heads fill the head field, two of *)
(* which would meet if the head numbers were counted differently.             *)
EXTENDS AtaDisk
MCPopulations == {S \in SUBSET Drives : Cardinality(S) =< 2} \cup {Drives}
MCChsDrives == {<<0, FALSE>>}
MCAddresses == {<<0, 1, 1>>, <<0, 2, 2>>, <<1, 0, 2>>}
MCCounts == {0, 2}
=============================================================================

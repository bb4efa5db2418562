-------------------------- MODULE MCSubnetStatus --------------------------
(* A range of one address, replaced by one whose two parts overlap;         *)
(* client 3 is outside both, so that available may wrap.                    *)
EXTENDS SubnetStatus

MCRanges == << <<<<0, 0>>>>, <<<<0, 1>>, <<1, 2>>>> >>
=============================================================================

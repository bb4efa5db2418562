----------------------------- MODULE MCBindingIp -----------------------------
(* A small instance of BindingIpPipeline for TLC.                            *)
EXTENDS BindingIpPipeline

\* Every address is in the range of every subnet.
MCIPRange == [s \in Subnets |-> IPs]
==============================================================================

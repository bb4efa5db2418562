--------------------------- MODULE MCHostOperation ---------------------------
(* A small instance of HostOperation for TLC: a PXE boot and a restart of    *)
(* one host.                                                                 *)
EXTENDS HostOperation

CONSTANTS pxe, plain, h1, s1, s2

MCSystemsOf == [h \in Hosts |-> Systems]
MCTarget == [o \in Ops |-> h1]
==============================================================================

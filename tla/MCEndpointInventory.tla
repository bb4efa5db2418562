-------------------------- MODULE MCEndpointInventory --------------------------
(* Small sets of endpoints that users may send.                              *)
EXTENDS EndpointInventory

Types == [n \in Names |-> IF n = "s" THEN "ssh" ELSE "redfish"]

Plain(n, a) == [name |-> n, ip |-> a, https |-> Unset, port |-> 0,
                secretName |-> Unset, secretNamespace |-> Unset]

\* The address of "s" may change, "r" has one of the two; the others are
\* refused: half a secret reference, an absent secret, no address.
Users == {Plain("r", "b"), Plain("s", "a"), Plain("s", "b"), Plain("s", "bad"),
          [Plain("s", "a") EXCEPT !.secretName = "own"],
          [Plain("r", "b") EXCEPT !.secretName = "absent", !.secretNamespace = "topohub"]}
================================================================================

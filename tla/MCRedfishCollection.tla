-------------------------- MODULE MCRedfishCollection --------------------------
(* Logs for model checking: the time stamps of the entries, oldest first.   *)
EXTENDS RedfishCollection

NoEntry == <<>>
SameSecond == <<1, 2, 2>>
================================================================================

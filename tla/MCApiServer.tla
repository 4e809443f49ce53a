---------------------------- MODULE MCApiServer ----------------------------
(* ApiServer on a small instance: an API process of the current release    *)
(* and a worker of an older one.                                           *)
EXTENDS ApiServer, TLC

CONSTANTS api, worker, r1, r2, keep, new, none

TwoProcesses == {api, worker}
Releases == [p \in TwoProcesses |-> IF p = api THEN 2 ELSE 1]
OneServer == {api}
TwoSaves == {r1, r2}
OnApi == [r \in TwoSaves |-> api]
SomeKeys == <<"maintenance", "smtp">>
SomePages == {keep, new, none}
PagePassword == (keep :> "keep") @@ (new :> "set") @@ (none :> "clear")
=============================================================================

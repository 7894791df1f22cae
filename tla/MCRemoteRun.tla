----------------------------- MODULE MCRemoteRun ----------------------------
(* Instances of RemoteRun for TLC.                                         *)
EXTENDS RemoteRun

CONSTANTS c1, c2, x, y, z

\* Two clients, one of which may also name a test that does not exist.
TwoClients ==
    {[k \in Clients |-> IF k = c1 THEN <<x, y>> ELSE <<z>>],
     [k \in Clients |-> IF k = c1 THEN <<x, Missing>> ELSE <<y>>]}

OneClient == {[k \in Clients |-> <<x, y>>]}

=============================================================================

---------------------------- MODULE MCWsEndpoint ----------------------------
(* The shared session with interchangeable connections.                    *)
EXTENDS WsService, TLC

ConnSymmetry == Permutations(Conns)
=============================================================================

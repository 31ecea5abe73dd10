-------------------------------- MODULE MCRpc --------------------------------
(***************************************************************************)
(* What the client, its tests and its comments say of Rpc that the code    *)
(* does not do.                                                            *)
(***************************************************************************)
EXTENDS Rpc

\* client_e2e_test.go, line 257: a call whose deadline passes gets a timeout as
\* its response.  It does not end the process.
ClientSurvives == ~clientDown

\* client.go, line 226: nobody handles a result of a oneway call.
NoOnewayResult == \A c \in Calls : result[c].of # None => ~IsOneway(result[c].of)

=============================================================================

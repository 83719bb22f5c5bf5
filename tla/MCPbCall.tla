------------------------------ MODULE MCPbCall ------------------------------
(***************************************************************************)
(* Values of PbCall's constants for TLC: a full name without a point, and  *)
(* one with a method that the service has and one that it has not.         *)
(***************************************************************************)
EXTENDS PbCall

MCFullNames == {<<"Login">>, <<"Echo", "Get">>, <<"Echo", "Put">>}

MCMethods == {<<"Get">>}

MCChar == Calls \cup {kNoError, kServiceNotFound, kFunctionNotFound, kInvaliadRequest, kUnknown,
                      "111", "HEARTBEAT", "PING", "PONG", "Login", "Echo", "Get", "Put"}
=============================================================================

----------------------------- MODULE MCHandler -----------------------------
(* Constants of Handler for TLC: two or three upstream URIs.               *)
EXTENDS Handler

MCTwoURIs == <<"http://a", "grpc://b">>
MCThreeURIs == <<"http://a", "grpc://b", "http://c">>
MCNoURIs == <<>>
=============================================================================

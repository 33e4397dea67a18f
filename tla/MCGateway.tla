----------------------------- MODULE MCGateway ------------------------------
(* Gateway for TLC: two channels, one with a slave before another. *)
EXTENDS Gateway

TwoChannels == << <<"s1", "s2">>, <<"s3">> >>

=============================================================================

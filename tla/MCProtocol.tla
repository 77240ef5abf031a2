----------------------------- MODULE MCProtocol -----------------------------
(* Small instances, for TLC, of the two halves of Protocol.hpp: how frames *)
(* are found in a stream, and what their bodies mean.                      *)
EXTENDS Protocol

TypedChars == {Q, BS, LF, Wide, "n", ":", "{", "}", "'", "username", "password", "data"}
ChosenIds  == {<<"username">>, <<Q, BS>>, <<"data", Q>>, <<Q, "data", "n">>}
=============================================================================

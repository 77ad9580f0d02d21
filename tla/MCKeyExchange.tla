---------------------------- MODULE MCKeyExchange ----------------------------
(***************************************************************************)
(* KeyExchange for TLC: the keys of MCHandshake; the connection's code and *)
(* one code that is not its own.                                           *)
(***************************************************************************)
EXTENDS KeyExchange

CONSTANTS good1, good2, small, junk, text, code1, code2

MCKeys == {good1, good2, small, junk, text}
MCNotPem == {text}
MCUnparsable == {junk}
MCTooSmall == {small}
MCCodes == {code1, code2}
=============================================================================

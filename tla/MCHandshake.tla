----------------------------- MODULE MCHandshake -----------------------------
(***************************************************************************)
(* Handshake for TLC: one key of each kind and a second good one, so that  *)
(* a client can change its key; two codes.                                 *)
(***************************************************************************)
EXTENDS Handshake

CONSTANTS good1, good2, small, junk, text, code1, code2

MCKeys == {good1, good2, small, junk, text}
MCNotPem == {text}
MCUnparsable == {junk}
MCTooSmall == {small}
MCCodes == {code1, code2}
=============================================================================

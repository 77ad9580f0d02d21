------------------------- MODULE MCClientConnection -------------------------
(* Texts for ClientConnection: one that passes everywhere, one that is too   *)
(* long from the start, and one that grows too long on the server.           *)
EXTENDS ClientConnection

Counts(plain, quoted, markup, separator, two, three) ==
    [plain |-> plain, quoted |-> quoted, markup |-> markup, separator |-> separator,
     two |-> two, three |-> three]

Passes == Counts(10, 2, 40, 5, 3, 4)

MCPageTexts == {Passes, Counts(120, 0, 0, 0, 0, 0)}
MCMailTexts == {Passes, Counts(0, 0, 80, 0, 0, 0)}
=============================================================================

----------------------------- MODULE CodecProofs -----------------------------
(***************************************************************************)
(* What Codec's conversions preserve, for every byte and every text.       *)
(***************************************************************************)
EXTENDS Codec, TLAPS

(***************************************************************************)
(* Whatever the byte, the numbers written for it are read as that byte: by *)
(* the browser from the server's int8, by the server from the browser's    *)
(* numbers and from the test client's int8.                                *)
(***************************************************************************)
THEOREM BytesSurvive ==
    \A b \in Bytes : BrowserReads(b) /\ ServerReads(b) /\ ServerReadsTestClient(b)
<1> SUFFICES ASSUME NEW b \in 0..255
             PROVE  BrowserReads(b) /\ ServerReads(b) /\ ServerReadsTestClient(b)
    BY DEF Bytes
<1>1. IsInt16(b) /\ IsInt16(b - 256)
  BY DEF IsInt16
<1>2. ToByte(b) = b /\ ToByte(b - 256) = b /\ ToUint8(b) = b /\ ToUint8(b - 256) = b
  BY DEF ToByte, ToUint8
<1>3. ToInt8(b) = b \/ ToInt8(b) = b - 256
  BY DEF ToInt8
<1>4. CASE ToInt8(b) = b
  BY <1>1, <1>2, <1>4 DEF BrowserReads, ServerReads, ServerReadsTestClient
<1>5. CASE ToInt8(b) = b - 256
  BY <1>1, <1>2, <1>5 DEF BrowserReads, ServerReads, ServerReadsTestClient
<1> QED
  BY <1>3, <1>4, <1>5

\* The classes of a text are numbers.
LEMMA TextFields ==
    ASSUME NEW text \in Texts
    PROVE  /\ text.plain \in Nat /\ text.quoted \in Nat /\ text.markup \in Nat
           /\ text.separator \in Nat /\ text.two \in Nat /\ text.three \in Nat
BY DEF Texts, Classes

\* How much a text grows between the two JSON writers.
LEMMA Growth ==
    ASSUME NEW text \in Texts
    PROVE  Written(text) = Typed(text) + 5 * text.markup + 3 * text.separator
BY TextFields DEF Written, Typed

LEMMA Limits == OAEPLimit(2048) = 190 /\ OAEPLimit(4096) = 446
BY DEF OAEPLimit

(***************************************************************************)
(* A message that the sender's browser could encrypt is only too long for  *)
(* the receiver's key if it has more than 50 characters that json.Marshal  *)
(* escapes: with f the length of the sender's id, growth up to 256 - f     *)
(* bytes is harmless.                                                      *)
(***************************************************************************)
THEOREM FewEscapesFit ==
    ASSUME NEW text \in Texts, NEW to \in Nat \ {0}, NEW from \in Nat,
           FitsServerKey(text, to),
           from + 5 * text.markup + 3 * text.separator <= 256
    PROVE  FitsClientKey(text, from)
<1>1. Typed(text) \in Nat
  BY TextFields DEF Typed
<1>2. Typed(text) <= 104
  BY <1>1, Limits DEF FitsServerKey
<1>3. Written(text) + from <= 360
  BY <1>1, <1>2, Growth, TextFields
<1> QED
  BY <1>1, <1>3, Limits, TextFields DEF FitsClientKey, Written

(***************************************************************************)
(* It does happen: a text of markup that the sender's browser encrypts and *)
(* that the server cannot encrypt for the receiver.                        *)
(***************************************************************************)
THEOREM MarkupMayNotFit ==
    \E text \in Texts : FitsServerKey(text, 1) /\ ~FitsClientKey(text, 1)
<1> DEFINE text == [class \in Classes |-> IF class = "markup" THEN 100 ELSE 0]
<1>1. text \in Texts
  BY DEF Texts
<1>2. /\ text.plain = 0 /\ text.quoted = 0 /\ text.markup = 100
      /\ text.separator = 0 /\ text.two = 0 /\ text.three = 0
  BY DEF Classes
<1> HIDE DEF text
<1>3. Typed(text) = 100 /\ Written(text) = 600
  BY <1>2 DEF Typed, Written
<1>4. FitsServerKey(text, 1) /\ ~FitsClientKey(text, 1)
  BY <1>3, Limits DEF FitsServerKey, FitsClientKey
<1> QED
  BY <1>1, <1>4

(***************************************************************************)
(* The receiver's page gets as many characters as were typed if, and only  *)
(* if, none takes more than one byte unescaped: ab2str does not decode     *)
(* UTF-8, although the sender's TextEncoder encoded it.                    *)
(***************************************************************************)
THEOREM ShownAsTyped ==
    ASSUME NEW text \in Texts
    PROVE  Shown(text) = Characters(text) <=> text.two = 0 /\ text.three = 0
BY TextFields DEF Shown, Characters
=============================================================================

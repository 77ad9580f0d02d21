-------------------------------- MODULE Codec --------------------------------
(***************************************************************************)
(* How a message's bytes and text survive the way between a browser and    *)
(* the server.  A ciphertext is bytes, sent as a JSON array of numbers     *)
(* whose width differs on the two sides.  A plaintext is JSON, whose size  *)
(* RSA-OAEP bounds: the browser's JSON.stringify and the server's          *)
(* json.Marshal escape different characters, so a message may grow on the  *)
(* server and no longer fit; and the browser takes each decrypted byte for *)
(* a character.                                                            *)
(***************************************************************************)
EXTENDS Integers

-----------------------------------------------------------------------------
(* Bytes. *)

Bytes == 0..255

\* toIntArray: int8(b).
ToInt8(b) == IF b < 128 THEN b ELSE b - 256

\* Mutant: numbers are read into []int8, as the server writes them.
IsInt8(i) == -128 <= i /\ i <= 127

\* json.Unmarshal into []int16 fails on a number that is not one.
IsInt16(i) == -32768 <= i /\ i <= 32767

\* toBytes: byte(i), of the int16 i.
ToByte(i) == i % 256

\* Mutant: numbers beyond the range are clamped, as by Uint8ClampedArray.
ToUint8Clamped(i) == IF i < 0 THEN 0 ELSE i

\* new Uint8Array(numbers) of the browser.
ToUint8(i) == i % 256

\* The server's writes, read by the browser, and the browser's (which are
\* numbers from 0 to 255) read by the server.
BrowserReads(b) == ToUint8(ToInt8(b)) = b
ServerReads(b) == IsInt16(b) /\ ToByte(b) = b

\* The client of hub_test.go writes what it got from toIntArray.
ServerReadsTestClient(b) == IsInt16(ToInt8(b)) /\ ToByte(ToInt8(b)) = b

-----------------------------------------------------------------------------
(* Texts: how many characters of each class a text has.  A character of    *)
(* four bytes is two UTF-16 units, and behaves like two of two bytes.      *)

Classes == {"plain",     \* printable ASCII but for the following
            "quoted",    \* " \ and the newlines: two bytes in JSON
            "markup",    \* < > &
            "separator", \* U+2028 and U+2029
            "two",       \* further characters of two bytes in UTF-8
            "three"}     \* of three bytes

Texts == [Classes -> Nat]

Characters(text) ==
    text.plain + text.quoted + text.markup + text.separator + text.two + text.three

\* The size of JSON.stringify's output in UTF-8 (TextEncoder).
Typed(text) ==
    text.plain + 2 * text.quoted + text.markup + 3 * text.separator
      + 2 * text.two + 3 * text.three

\* The size of json.Marshal's, which writes < > & and the separators as \u003c
\* and so on.
Written(text) ==
    text.plain + 2 * text.quoted + 6 * text.markup + 6 * text.separator
      + 2 * text.two + 3 * text.three

\* The characters of String.fromCharCode over the bytes of Written; escapes
\* are undone by JSON.parse.
Shown(text) ==
    text.plain + text.quoted + text.markup + text.separator + 2 * text.two + 3 * text.three

-----------------------------------------------------------------------------
(* OAEP with SHA-256 takes 66 bytes of the key's length. *)

OAEPLimit(modulusLength) == modulusLength \div 8 - 66

\* {"Varient":"Envelope","Data":{"To":"<to>","Data":{"Varient":"RealMessage",
\* "Content":"<text>"}}}, under the server's key.
FitsServerKey(text, to) == 85 + to + Typed(text) <= OAEPLimit(2048)

\* {"variant":"Message","body":{"From":"<from>","Data":{"Varient":"RealMessage",
\* "Content":"<text>"}}}, under the browser's key.
FitsClientKey(text, from) == 86 + from + Written(text) <= OAEPLimit(4096)
=============================================================================

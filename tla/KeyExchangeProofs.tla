--------------------------- MODULE KeyExchangeProofs ---------------------------
(***************************************************************************)
(* Proofs about Handshake, for every set of keys and codes and every bound *)
(* MaxCalls, and about KeyExchange: the exchange takes only steps of the   *)
(* handler, so it inherits what is shown of that, and registers at most    *)
(* one key.                                                                *)
(***************************************************************************)
EXTENDS KeyExchange, TLAPS

-----------------------------------------------------------------------------
(***************************************************************************)
(* The inductive invariant behind VerifiedAfterHandshake: each field the   *)
(* guards of Verify look at stands for a call on record.                   *)
(***************************************************************************)
ServerKeyOnRecord ==
    serverKeySent => \E s \in 1..Len(calls) : calls[s].op = "SendKey"

CodeOnRecordAfter(r) ==
    verification # NotSent =>
        \E v \in 1..Len(calls) : /\ IsLatest("SendVerification", v, Len(calls))
                                 /\ r < v
                                 /\ calls[v].arg = verification

ClientKeyOnRecord ==
    clientKey # NoKey =>
        \E r \in 1..Len(calls) : /\ IsLatest("ReceiveKey", r, Len(calls))
                                 /\ calls[r].resp = "KeyReceived"
                                 /\ calls[r].arg = clientKey
                                 /\ CodeOnRecordAfter(r)

HandshakeInv ==
    /\ TypeOK
    /\ CodeGoesToCurrentKey
    /\ ServerKeyOnRecord
    /\ ClientKeyOnRecord
    /\ VerifiedAfterHandshake

(***************************************************************************)
(* That of the exchange: Verify is the last call a                         *)
(* connection makes, Verified is an answer to Verify alone, and hadError   *)
(* remembers every ErrorResponse.                                          *)
(***************************************************************************)
VerifyIsLast ==
    \A n \in 1..Len(calls) :
        /\ calls[n].op = "Verify" => n = Len(calls) /\ phase = "returned"
        /\ calls[n].resp = "Verified" => /\ calls[n].op = "Verify"
                                        /\ calls[n].key = registered
                                        /\ registered # NoKey

RegisteredOnRecord ==
    registered # NoKey => \E n \in 1..Len(calls) : /\ calls[n].resp = "Verified"
                                                  /\ calls[n].key = registered

ErrorsRemembered ==
    \A m \in 1..Len(calls) : calls[m].resp = "ErrorResponse" => responderHadError

ExchangeInv ==
    /\ KTypeOK
    /\ VerifyIsLast
    /\ RegisteredOnRecord
    /\ ErrorsRemembered
    /\ ErrorEndsAtNextKey

-----------------------------------------------------------------------------
(* The handler: Spec is Handshake's. *)

\* The record gains one entry, and the earlier ones stay as they are.
Grows(op, arg, resp, key) ==
    /\ Len(calls') = Len(calls) + 1
    /\ \A i \in 1..Len(calls) : calls'[i] = calls[i]
    /\ calls'[Len(calls) + 1] = [op |-> op, arg |-> arg, resp |-> resp, key |-> key]

\* Every answered call makes the record grow by that call.
LEMMA RecordGrows ==
    ASSUME NEW op \in Ops, NEW arg \in Arguments, NEW resp \in Responses,
           NEW key \in Keys \cup {NoKey},
           calls \in Seq(Call), Respond(op, arg, resp, key)
    PROVE  calls' \in Seq(Call) /\ Grows(op, arg, resp, key)
BY DEF Respond, Call, Grows

\* The latest call of a method stays the latest until the method is called again.
LEMMA LatestStays ==
    ASSUME NEW op, NEW i \in Nat,
           calls \in Seq(Call), calls' \in Seq(Call),
           Len(calls') = Len(calls) + 1,
           \A j \in 1..Len(calls) : calls'[j] = calls[j],
           calls'[Len(calls) + 1].op # op,
           IsLatest(op, i, Len(calls))
    PROVE  IsLatest(op, i, Len(calls))' 
BY DEF IsLatest

\* What was the latest call among the first n is so however the record grows.
LEMMA LatestOfPrefix ==
    ASSUME NEW op, NEW i \in Nat, NEW n \in 1..Len(calls),
           calls \in Seq(Call), calls' \in Seq(Call),
           Len(calls') = Len(calls) + 1,
           \A j \in 1..Len(calls) : calls'[j] = calls[j]
    PROVE  IsLatest(op, i, n)' <=> IsLatest(op, i, n)
BY DEF IsLatest

\* A past call stays complete or incomplete however the record grows.
LEMMA CompleteOfPrefix ==
    ASSUME NEW n \in 1..Len(calls),
           calls \in Seq(Call), calls' \in Seq(Call),
           Len(calls') = Len(calls) + 1,
           \A j \in 1..Len(calls) : calls'[j] = calls[j],
           CompleteAt(n)
    PROVE  CompleteAt(n)'
<1>1. \A op : \A i \in 1..n : IsLatest(op, i, n)' <=> IsLatest(op, i, n)
  BY LatestOfPrefix
<1>2. \A i \in 1..n : calls'[i] = calls[i]
  OBVIOUS
<1> QED
  BY <1>1, <1>2 DEF CompleteAt

\* Hence a call answered by anything but Verified leaves VerifiedAfterHandshake be.
LEMMA OtherAnswers ==
    ASSUME calls \in Seq(Call), calls' \in Seq(Call),
           Len(calls') = Len(calls) + 1,
           \A j \in 1..Len(calls) : calls'[j] = calls[j],
           NEW last \in Nat, last = Len(calls) + 1,
           calls'[last].resp = "Verified" => CompleteAt(last)',
           VerifiedAfterHandshake
    PROVE  VerifiedAfterHandshake'
<1> SUFFICES ASSUME NEW n \in 1..last, calls'[n].resp = "Verified"
             PROVE  CompleteAt(n)'
  BY DEF VerifiedAfterHandshake
<1>1. CASE n = last
  BY <1>1
<1>2. CASE n # last
  <2>1. n \in 1..Len(calls)
    BY <1>2
  <2>2. CompleteAt(n)
    BY <2>1 DEF VerifiedAfterHandshake
  <2> QED
    BY <2>1, <2>2, CompleteOfPrefix
<1> QED
  BY <1>1, <1>2

-----------------------------------------------------------------------------
\* No step leaves the state space.
LEMMA TypePreserved ==
    ASSUME TypeOK, [Next]_vars
    PROVE  TypeOK'
<1> USE DEF TypeOK
<1>1. CASE SendKey
  <2>1. calls' \in Seq(Call)
    BY <1>1, RecordGrows DEF SendKey, Ops, Arguments, Responses
  <2> QED
    BY <1>1, <2>1 DEF SendKey, Respond
<1>2. ASSUME NEW k \in Keys, ReceiveNotPem(k)
      PROVE  TypeOK'
  BY <1>2 DEF ReceiveNotPem
<1>3. ASSUME NEW k \in Keys, RejectKey(k)
      PROVE  TypeOK'
  <2>1. calls' \in Seq(Call)
    BY <1>3, RecordGrows DEF RejectKey, Ops, Arguments, Responses
  <2> QED
    BY <1>3, <2>1 DEF RejectKey, Respond
<1>4. ASSUME NEW k \in Keys, AcceptKey(k)
      PROVE  TypeOK'
  <2>1. calls' \in Seq(Call)
    BY <1>4, RecordGrows DEF AcceptKey, Ops, Arguments, Responses
  <2> QED
    BY <1>4, <2>1 DEF AcceptKey, Respond
<1>5. ASSUME NEW code \in Codes, SendVerification(code)
      PROVE  TypeOK'
  <2>1. calls' \in Seq(Call)
    BY <1>5, RecordGrows DEF SendVerification, Ops, Arguments, Responses
  <2> QED
    BY <1>5, <2>1 DEF SendVerification, Respond
<1>6. ASSUME NEW plain \in Codes \cup {Undecryptable}, Verify(plain)
      PROVE  TypeOK'
  <2>1. calls' \in Seq(Call)
    BY <1>6, RecordGrows DEF Verify, Ops, Arguments, Responses
  <2> QED
    BY <1>6, <2>1 DEF Verify, Respond, handlerVars
<1>7. CASE UNCHANGED vars
  BY <1>7 DEF vars
<1> QED
  BY <1>1, <1>2, <1>3, <1>4, <1>5, <1>6, <1>7 DEF Next, ReceiveKey

-----------------------------------------------------------------------------
\* serverKeySent is never reset, so SendKey stays on record.
LEMMA ServerKeyStays ==
    ASSUME calls \in Seq(Call), calls' \in Seq(Call),
           Len(calls') = Len(calls) + 1,
           \A j \in 1..Len(calls) : calls'[j] = calls[j],
           serverKeySent' => (serverKeySent \/ calls'[Len(calls) + 1].op = "SendKey"),
           ServerKeyOnRecord
    PROVE  ServerKeyOnRecord'
<1> SUFFICES ASSUME serverKeySent'
             PROVE  \E s \in 1..Len(calls') : calls'[s].op = "SendKey"
  BY DEF ServerKeyOnRecord
<1>1. CASE serverKeySent
  BY <1>1 DEF ServerKeyOnRecord
<1>2. CASE calls'[Len(calls) + 1].op = "SendKey"
  BY <1>2
<1> QED
  BY <1>1, <1>2

\* A call that leaves the client key and the verification alone, and is not
\* one of the two that set them, leaves their record alone.
LEMMA ClientKeyStays ==
    ASSUME calls \in Seq(Call), calls' \in Seq(Call),
           Len(calls') = Len(calls) + 1,
           \A j \in 1..Len(calls) : calls'[j] = calls[j],
           calls'[Len(calls) + 1].op \notin {"ReceiveKey", "SendVerification"},
           clientKey' = clientKey, verification' = verification,
           ClientKeyOnRecord
    PROVE  ClientKeyOnRecord'
<1> SUFFICES ASSUME clientKey # NoKey
             PROVE  ClientKeyOnRecord'
  BY DEF ClientKeyOnRecord
<1>1. PICK r \in 1..Len(calls) : /\ IsLatest("ReceiveKey", r, Len(calls))
                                 /\ calls[r].resp = "KeyReceived"
                                 /\ calls[r].arg = clientKey
                                 /\ CodeOnRecordAfter(r)
  BY DEF ClientKeyOnRecord
<1>2. IsLatest("ReceiveKey", r, Len(calls))'
  BY <1>1, LatestStays
<1>3. CodeOnRecordAfter(r)'
  <2> SUFFICES ASSUME verification # NotSent
               PROVE  CodeOnRecordAfter(r)'
    BY DEF CodeOnRecordAfter
  <2>1. PICK v \in 1..Len(calls) : /\ IsLatest("SendVerification", v, Len(calls))
                                   /\ r < v
                                   /\ calls[v].arg = verification
    BY <1>1 DEF CodeOnRecordAfter
  <2>2. IsLatest("SendVerification", v, Len(calls))'
    BY <2>1, LatestStays
  <2>3. v \in 1..Len(calls') /\ calls'[v].arg = verification'
    BY <2>1
  <2> QED
    BY <2>1, <2>2, <2>3 DEF CodeOnRecordAfter
<1>4. r \in 1..Len(calls') /\ calls'[r] = calls[r]
  OBVIOUS
<1> QED
  BY <1>1, <1>2, <1>3, <1>4 DEF ClientKeyOnRecord

(***************************************************************************)
(* What a new key is recorded as: it is the latest ReceiveKey, and no      *)
(* verification is outstanding.                                            *)
(***************************************************************************)
LEMMA NewKeyOnRecord ==
    ASSUME calls \in Seq(Call), calls' \in Seq(Call),
           Len(calls') = Len(calls) + 1,
           NEW k \in Keys,
           calls'[Len(calls) + 1] = [op |-> "ReceiveKey", arg |-> k,
                                    resp |-> "KeyReceived", key |-> k],
           clientKey' = k, verification' = NotSent
    PROVE  ClientKeyOnRecord'
BY DEF ClientKeyOnRecord, CodeOnRecordAfter, IsLatest

\* What a new verification is recorded as: the latest SendVerification, after
\* the latest key.
LEMMA NewCodeOnRecord ==
    ASSUME calls \in Seq(Call), calls' \in Seq(Call),
           Len(calls') = Len(calls) + 1,
           \A j \in 1..Len(calls) : calls'[j] = calls[j],
           NEW code \in Codes,
           calls'[Len(calls) + 1].op = "SendVerification",
           calls'[Len(calls) + 1].arg = code,
           clientKey' = clientKey, verification' = code,
           ClientKeyOnRecord
    PROVE  ClientKeyOnRecord'
<1> SUFFICES ASSUME clientKey # NoKey
             PROVE  ClientKeyOnRecord'
  BY DEF ClientKeyOnRecord
<1>1. PICK r \in 1..Len(calls) : /\ IsLatest("ReceiveKey", r, Len(calls))
                                 /\ calls[r].resp = "KeyReceived"
                                 /\ calls[r].arg = clientKey
  BY DEF ClientKeyOnRecord
<1>2. IsLatest("ReceiveKey", r, Len(calls))'
  BY <1>1, LatestStays
<1>3. CodeOnRecordAfter(r)'
  BY DEF CodeOnRecordAfter, IsLatest
<1>4. r \in 1..Len(calls') /\ calls'[r] = calls[r]
  OBVIOUS
<1> QED
  BY <1>1, <1>2, <1>3, <1>4 DEF ClientKeyOnRecord

(***************************************************************************)
(* When the guards of Verify hold, the record holds the handshake: this is *)
(* where the fields are traded for calls.                                  *)
(***************************************************************************)
LEMMA GuardsMeanComplete ==
    ASSUME TypeOK, ServerKeyOnRecord, ClientKeyOnRecord, calls' \in Seq(Call),
           Len(calls') = Len(calls) + 1,
           \A j \in 1..Len(calls) : calls'[j] = calls[j],
           KeysExchangedAndCodeSent,
           calls'[Len(calls) + 1] = [op |-> "Verify", arg |-> verification,
                                    resp |-> "Verified", key |-> clientKey],
           NEW last \in Nat, last = Len(calls) + 1
    PROVE  CompleteAt(last)'
<1> USE DEF TypeOK, KeysExchangedAndCodeSent
<1>1. PICK s \in 1..Len(calls) : calls[s].op = "SendKey"
  BY DEF ServerKeyOnRecord
<1>2. PICK r \in 1..Len(calls) : /\ IsLatest("ReceiveKey", r, Len(calls))
                                 /\ calls[r].resp = "KeyReceived"
                                 /\ calls[r].arg = clientKey
                                 /\ CodeOnRecordAfter(r)
  BY DEF ClientKeyOnRecord
<1>3. PICK v \in 1..Len(calls) : /\ IsLatest("SendVerification", v, Len(calls))
                                 /\ r < v
                                 /\ calls[v].arg = verification
  BY <1>2 DEF CodeOnRecordAfter
<1>4. IsLatest("ReceiveKey", r, Len(calls))' /\ IsLatest("SendVerification", v, Len(calls))'
  BY <1>2, <1>3, LatestStays
<1>5. IsLatest("ReceiveKey", r, last)' /\ IsLatest("SendVerification", v, last)'
  BY <1>4
<1>6. s \in 1..last /\ r \in 1..last /\ v \in 1..last
  OBVIOUS
<1>7. calls'[s] = calls[s] /\ calls'[r] = calls[r] /\ calls'[v] = calls[v]
  OBVIOUS
<1> QED
  BY <1>1, <1>2, <1>3, <1>5, <1>6, <1>7 DEF CompleteAt

-----------------------------------------------------------------------------
\* HandshakeInv is inductive: one step per method.
LEMMA InvPreserved ==
    ASSUME HandshakeInv, [Next]_vars
    PROVE  HandshakeInv'
<1>1. TypeOK /\ TypeOK'
  BY TypePreserved DEF HandshakeInv
<1>2. calls \in Seq(Call) /\ calls' \in Seq(Call)
  BY <1>1 DEF TypeOK
<1>3. ServerKeyOnRecord /\ ClientKeyOnRecord /\ CodeGoesToCurrentKey /\ VerifiedAfterHandshake
  BY DEF HandshakeInv
<1>l. PICK last \in Nat : last = Len(calls) + 1
  BY <1>2
<1>4. CASE SendKey
  <2>1. Grows("SendKey", NoKey, "PublicKeyResponse", clientKey)
    BY <1>1, <1>4, RecordGrows DEF SendKey, TypeOK, Ops, Arguments, Responses
  <2>2. ServerKeyOnRecord'
    BY <1>2, <1>3, <2>1, ServerKeyStays DEF Grows
  <2>3. ClientKeyOnRecord'
    BY <1>2, <1>3, <1>4, <2>1, ClientKeyStays DEF Grows, SendKey
  <2>4. VerifiedAfterHandshake'
    BY <1>2, <1>3, <2>1, <1>l, OtherAnswers DEF Grows
  <2> QED
    BY <1>1, <1>3, <1>4, <2>2, <2>3, <2>4
       DEF HandshakeInv, SendKey, CodeGoesToCurrentKey
<1>5. ASSUME NEW k \in Keys, ReceiveNotPem(k)
      PROVE  HandshakeInv'
  BY <1>1, <1>3, <1>5
     DEF ReceiveNotPem, HandshakeInv, CodeGoesToCurrentKey, ServerKeyOnRecord,
         ClientKeyOnRecord, CodeOnRecordAfter, VerifiedAfterHandshake, CompleteAt, IsLatest
<1>6. ASSUME NEW k \in Keys, RejectKey(k)
      PROVE  HandshakeInv'
  <2>1. Grows("ReceiveKey", k, "ErrorResponse", NoKey)
    BY <1>1, <1>6, RecordGrows DEF RejectKey, TypeOK, Ops, Arguments, Responses
  <2>2. ServerKeyOnRecord'
    BY <1>2, <1>3, <1>6, <2>1, ServerKeyStays DEF Grows, RejectKey
  <2>3. ClientKeyOnRecord'
    BY <1>6 DEF RejectKey, ClientKeyOnRecord
  <2>4. VerifiedAfterHandshake'
    BY <1>2, <1>3, <2>1, <1>l, OtherAnswers DEF Grows
  <2> QED
    BY <1>1, <1>6, <2>2, <2>3, <2>4 DEF HandshakeInv, RejectKey, CodeGoesToCurrentKey
<1>7. ASSUME NEW k \in Keys, AcceptKey(k)
      PROVE  HandshakeInv'
  <2>1. Grows("ReceiveKey", k, "KeyReceived", k)
    BY <1>1, <1>7, RecordGrows DEF AcceptKey, TypeOK, Ops, Arguments, Responses
  <2>2. ServerKeyOnRecord'
    BY <1>2, <1>3, <1>7, <2>1, ServerKeyStays DEF Grows, AcceptKey
  <2>3. ClientKeyOnRecord'
    BY <1>2, <1>7, <2>1, NewKeyOnRecord DEF Grows, AcceptKey
  <2>4. VerifiedAfterHandshake'
    BY <1>2, <1>3, <2>1, <1>l, OtherAnswers DEF Grows
  <2> QED
    BY <1>1, <1>7, <2>2, <2>3, <2>4 DEF HandshakeInv, AcceptKey, CodeGoesToCurrentKey
<1>8. ASSUME NEW code \in Codes, SendVerification(code)
      PROVE  HandshakeInv'
  <2>1. PICK resp \in {"ErrorResponse", "VerificationResponse"} :
            Grows("SendVerification", code, resp, onSendVerify)
    BY <1>1, <1>8, RecordGrows DEF SendVerification, TypeOK, Ops, Arguments, Responses
  <2>2. ServerKeyOnRecord'
    BY <1>2, <1>3, <1>8, <2>1, ServerKeyStays DEF Grows, SendVerification
  <2>3. ClientKeyOnRecord'
    BY <1>2, <1>3, <1>8, <2>1, NewCodeOnRecord DEF Grows, SendVerification
  <2>4. VerifiedAfterHandshake'
    BY <1>2, <1>3, <2>1, <1>l, OtherAnswers DEF Grows
  <2> QED
    BY <1>1, <1>3, <1>8, <2>2, <2>3, <2>4
       DEF HandshakeInv, SendVerification, CodeGoesToCurrentKey
<1>9. ASSUME NEW plain \in Codes \cup {Undecryptable}, Verify(plain)
      PROVE  HandshakeInv'
  <2>1. PICK resp \in {"ErrorResponse", "Verified"} :
            /\ Grows("Verify", plain, resp, clientKey)
            /\ resp = "Verified" => KeysExchangedAndCodeSent /\ plain = verification
    BY <1>1, <1>9, RecordGrows DEF Verify, TypeOK, Ops, Arguments, Responses
  <2>2. ServerKeyOnRecord'
    BY <1>2, <1>3, <1>9, <2>1, ServerKeyStays DEF Grows, Verify, handlerVars
  <2>3. ClientKeyOnRecord'
    BY <1>2, <1>3, <1>9, <2>1, ClientKeyStays DEF Grows, Verify, handlerVars
  <2>4. resp = "Verified" => CompleteAt(last)'
    BY <1>1, <1>2, <1>3, <2>1, <1>l, GuardsMeanComplete DEF Grows
  <2>5. VerifiedAfterHandshake'
    BY <1>2, <1>3, <2>1, <2>4, <1>l, OtherAnswers DEF Grows
  <2> QED
    BY <1>1, <1>3, <1>9, <2>2, <2>3, <2>5
       DEF HandshakeInv, Verify, handlerVars, CodeGoesToCurrentKey
<1>10. CASE UNCHANGED vars
  BY <1>1, <1>3, <1>10
     DEF vars, HandshakeInv, CodeGoesToCurrentKey, ServerKeyOnRecord,
         ClientKeyOnRecord, CodeOnRecordAfter, VerifiedAfterHandshake, CompleteAt, IsLatest
<1> QED
  BY <1>4, <1>5, <1>6, <1>7, <1>8, <1>9, <1>10 DEF Next, ReceiveKey

LEMMA InvInitially ==
    ASSUME Init
    PROVE  HandshakeInv
<1>1. calls = <<>> /\ calls \in Seq(Call) /\ 1..Len(calls) = {}
  BY DEF Init
<1>2. VerifiedAfterHandshake
  BY <1>1 DEF VerifiedAfterHandshake
<1> QED
  BY <1>1, <1>2 DEF Init, HandshakeInv, TypeOK, CodeGoesToCurrentKey,
                    ServerKeyOnRecord, ClientKeyOnRecord

THEOREM InvHolds == Spec => []HandshakeInv
BY InvInitially, InvPreserved, PTL DEF Spec

(***************************************************************************)
(* Every value a field of the handler takes is one its methods can be      *)
(* given, and every recorded call is a call with an answer.                *)
(***************************************************************************)
THEOREM TypeCorrect == Spec => []TypeOK
<1>1. HandshakeInv => TypeOK
  BY DEF HandshakeInv
<1> QED
  BY <1>1, InvHolds, PTL

(***************************************************************************)
(* A verification code is only ever encrypted for the key that a           *)
(* successful Verify would register.                                       *)
(***************************************************************************)
THEOREM CodeForCurrentKey == Spec => []CodeGoesToCurrentKey
<1>1. HandshakeInv => CodeGoesToCurrentKey
  BY DEF HandshakeInv
<1> QED
  BY <1>1, InvHolds, PTL

(***************************************************************************)
(* No sequence of calls, however long, obtains Verified without a complete *)
(* handshake under the key that is registered.                             *)
(***************************************************************************)
THEOREM VerifiedIsEarned == Spec => []VerifiedAfterHandshake
<1>1. HandshakeInv => VerifiedAfterHandshake
  BY DEF HandshakeInv
<1> QED
  BY <1>1, InvHolds, PTL

-----------------------------------------------------------------------------
(* The exchange: KSpec. *)

\* Seen from the handler, every step of the goroutine is a call or nothing.
LEMMA StepsAreCalls ==
    ASSUME KNext
    PROVE  [Next]_vars
<1>1. CASE SetupFails \/ SignalReady \/ Disconnect
  BY <1>1 DEF SetupFails, SignalReady, Disconnect
<1>2. CASE OnGetPublicKey
  BY <1>2 DEF OnGetPublicKey, Next
<1>3. CASE OnGetVerification
  BY <1>3, KeyExchangeAssumption DEF OnGetVerification, Next
<1>4. ASSUME NEW key \in Keys \cup {EmptyKey, Malformed}, OnSetPublicKey(key)
      PROVE  [Next]_vars
  BY <1>4 DEF OnSetPublicKey, Next
<1>5. ASSUME NEW plain \in Codes \cup {Undecryptable, Malformed}, OnVerify(plain)
      PROVE  [Next]_vars
  BY <1>5 DEF OnVerify, Next
<1> QED
  BY <1>1, <1>2, <1>3, <1>4, <1>5 DEF KNext

\* So the exchange implements the handler's specification.
LEMMA ExchangeIsHandshake == KSpec => Spec
<1>1. KInit => Init
  BY DEF KInit
<1>2. [KNext]_kvars => [Next]_vars
  BY StepsAreCalls DEF kvars
<1> QED
  BY <1>1, <1>2, PTL DEF KSpec, Spec

(***************************************************************************)
(* The key a connection is registered under was verified: what holds of    *)
(* every sequence of handler calls holds of those the exchange makes.      *)
(***************************************************************************)
THEOREM ExchangeVerifiedIsEarned == KSpec => []VerifiedAfterHandshake
BY ExchangeIsHandshake, VerifiedIsEarned, PTL

(***************************************************************************)
(* And so is what it says of the closure: the loop's SetPublicKey branch   *)
(* never leaves it with the key of an earlier request.                     *)
(***************************************************************************)
THEOREM ExchangeCodeForCurrentKey == KSpec => []CodeGoesToCurrentKey
BY ExchangeIsHandshake, CodeForCurrentKey, PTL

-----------------------------------------------------------------------------
(***************************************************************************)
(* While the loop runs no Verify and no ReceiveKey after an error is on    *)
(* record, so any one call the loop survives, and a ReceiveKey it does not *)
(* survive, keeps the invariant.                                           *)
(***************************************************************************)
LEMMA LoopCall ==
    ASSUME NEW op \in Ops \ {"Verify"}, NEW arg, NEW resp \in Responses \ {"Verified"}, NEW key,
           calls \in Seq(Call), calls' \in Seq(Call), Grows(op, arg, resp, key),
           phase = "loop", ExchangeInv,
           responderHadError \/ resp = "ErrorResponse" => responderHadError',
           op = "ReceiveKey" /\ responderHadError' => phase' = "returned",
           registered' = registered
    PROVE  /\ VerifyIsLast'
           /\ RegisteredOnRecord'
           /\ ErrorsRemembered'
           /\ ErrorEndsAtNextKey'
<1>1. \A n \in 1..Len(calls) : /\ calls'[n] = calls[n]
                              /\ calls[n].op # "Verify" /\ calls[n].resp # "Verified"
  BY DEF ExchangeInv, VerifyIsLast, Grows
<1>2. PICK last \in Nat : last = Len(calls) + 1
  OBVIOUS
<1>3. /\ Len(calls') = last
      /\ calls'[last] = [op |-> op, arg |-> arg, resp |-> resp, key |-> key]
      /\ \A n \in 1..last : n \in 1..Len(calls) \/ n = last
  BY <1>2 DEF Grows
<1>4. VerifyIsLast'
  BY <1>1, <1>2, <1>3 DEF VerifyIsLast
<1>5. RegisteredOnRecord'
  BY <1>1 DEF RegisteredOnRecord, ExchangeInv
<1>6. \A n \in 1..Len(calls) : calls[n].resp = "ErrorResponse" => responderHadError
  BY DEF ErrorsRemembered, ExchangeInv
<1>7. \A n \in 1..last : calls'[n].resp = "ErrorResponse" => responderHadError'
  BY <1>1, <1>3, <1>6
<1>8. ErrorEndsAtNextKey'
  <2> SUFFICES ASSUME NEW m \in 1..last, NEW n \in 1..last,
                      calls'[m].resp = "ErrorResponse", calls'[n].op = "ReceiveKey", m <= n
               PROVE  n = last /\ phase' = "returned"
    BY <1>3 DEF ErrorEndsAtNextKey
  <2>1. CASE n = last
    BY <2>1, <1>3, <1>7
  <2>2. CASE n # last
    <3>1. m \in 1..Len(calls) /\ n \in 1..Len(calls)
      BY <1>2, <2>2
    <3>2. phase = "returned"
      BY <3>1, <1>1 DEF ErrorEndsAtNextKey, ExchangeInv
    <3> QED
      BY <3>2
  <2> QED
    BY <2>1, <2>2
<1>9. ErrorsRemembered'
  BY <1>3, <1>7 DEF ErrorsRemembered
<1> QED
  BY <1>4, <1>5, <1>8, <1>9

\* Verify ends the loop, and registers the key it was answered under.
LEMMA LastCallIsVerify ==
    ASSUME NEW arg, NEW resp \in {"ErrorResponse", "Verified"}, NEW key \in Keys \cup {NoKey},
           calls \in Seq(Call), calls' \in Seq(Call), Grows("Verify", arg, resp, key),
           phase = "loop", phase' = "returned", ExchangeInv,
           responderHadError \/ resp = "ErrorResponse" => responderHadError',
           resp = "Verified" => key # NoKey,
           registered' = IF resp = "Verified" THEN key ELSE registered
    PROVE  /\ VerifyIsLast'
           /\ RegisteredOnRecord'
           /\ ErrorsRemembered'
           /\ ErrorEndsAtNextKey'
<1>1. \A n \in 1..Len(calls) : /\ calls'[n] = calls[n]
                              /\ calls[n].op # "Verify" /\ calls[n].resp # "Verified"
  BY DEF ExchangeInv, VerifyIsLast, Grows
<1>2. PICK last \in Nat : last = Len(calls) + 1
  OBVIOUS
<1>3. /\ Len(calls') = last
      /\ calls'[last] = [op |-> "Verify", arg |-> arg, resp |-> resp, key |-> key]
      /\ \A n \in 1..last : n \in 1..Len(calls) \/ n = last
  BY <1>2 DEF Grows
<1>4. VerifyIsLast'
  BY <1>1, <1>2, <1>3 DEF VerifyIsLast
<1>5. registered = NoKey
  BY <1>1 DEF RegisteredOnRecord, ExchangeInv
<1>6. RegisteredOnRecord'
  <2>1. last \in 1..Len(calls')
    BY <1>2, <1>3
  <2> QED
    BY <1>3, <1>5, <2>1 DEF RegisteredOnRecord
<1>7. ErrorsRemembered'
  <2>1. \A n \in 1..Len(calls) : calls[n].resp = "ErrorResponse" => responderHadError
    BY DEF ErrorsRemembered, ExchangeInv
  <2> QED
    BY <1>1, <1>3, <2>1 DEF ErrorsRemembered
<1>8. ErrorEndsAtNextKey'
  <2> SUFFICES ASSUME NEW m \in 1..last, NEW n \in 1..last,
                      calls'[m].resp = "ErrorResponse", calls'[n].op = "ReceiveKey", m <= n
               PROVE  n = last /\ phase' = "returned"
    BY <1>3 DEF ErrorEndsAtNextKey
  <2>1. m \in 1..Len(calls) /\ n \in 1..Len(calls)
    BY <1>2, <1>3
  <2>2. phase = "returned"
    BY <2>1, <1>1 DEF ErrorEndsAtNextKey, ExchangeInv
  <2> QED
    BY <2>2
<1> QED
  BY <1>4, <1>6, <1>7, <1>8

-----------------------------------------------------------------------------
\* ExchangeInv is inductive: one step per branch of the goroutine.
LEMMA ExchangeInvPreserved ==
    ASSUME ExchangeInv, [KNext]_kvars
    PROVE  ExchangeInv'
<1>1. KTypeOK /\ TypeOK
  BY DEF ExchangeInv, KTypeOK
<1>2. TypeOK'
  <2>1. [Next]_vars
    BY StepsAreCalls DEF kvars
  <2> QED
    BY <1>1, <2>1, TypePreserved
<1>3. calls \in Seq(Call) /\ calls' \in Seq(Call)
  BY <1>1, <1>2 DEF TypeOK
<1>4. ASSUME UNCHANGED <<vars, responderHadError, registered>>,
             phase' \in {"loop", "returned"}, phase = "returned" => phase' = "returned"
      PROVE  ExchangeInv'
  BY <1>1, <1>2, <1>4
     DEF ExchangeInv, KTypeOK, VerifyIsLast, RegisteredOnRecord, ErrorsRemembered,
         ErrorEndsAtNextKey, vars
<1>5. ASSUME NEW op \in Ops, NEW arg, NEW resp, NEW key,
             Grows(op, arg, resp, key), RecordError
      PROVE  responderHadError \/ resp = "ErrorResponse" => responderHadError'
  <2>1. LastCall.resp = resp
    BY <1>3, <1>5 DEF Grows, LastCall
  <2> QED
    BY <1>5, <2>1, Zenon DEF RecordError
<1>6. RecordError => responderHadError' \in BOOLEAN
  BY DEF RecordError
<1>7. CASE SetupFails \/ SignalReady \/ Disconnect
  BY <1>4, <1>7 DEF SetupFails, SignalReady, Disconnect, Return
<1>8. CASE OnGetPublicKey
  <2>1. Grows("SendKey", NoKey, "PublicKeyResponse", clientKey)
    BY <1>1, <1>8, RecordGrows DEF OnGetPublicKey, SendKey, TypeOK, Ops, Arguments, Responses
  <2>2. phase = "loop" /\ phase' = "loop" /\ registered' = registered /\ RecordError
    BY <1>8 DEF OnGetPublicKey
  <2>3. responderHadError => responderHadError'
    BY <1>5, <2>1, <2>2 DEF Ops
  <2>4. VerifyIsLast' /\ RegisteredOnRecord' /\ ErrorsRemembered' /\ ErrorEndsAtNextKey'
    BY <1>3, <2>1, <2>2, <2>3, LoopCall DEF Ops, Responses
  <2> QED
    BY <1>1, <1>2, <1>6, <2>2, <2>4 DEF ExchangeInv, KTypeOK
<1>9. CASE OnGetVerification
  <2>1. PICK resp \in {"ErrorResponse", "VerificationResponse"} :
            Grows("SendVerification", Code, resp, onSendVerify)
    BY <1>1, <1>9, RecordGrows, KeyExchangeAssumption
       DEF OnGetVerification, SendVerification, TypeOK, Ops, Arguments, Responses
  <2>2. phase = "loop" /\ phase' = "loop" /\ registered' = registered /\ RecordError
    BY <1>9 DEF OnGetVerification
  <2>3. responderHadError \/ resp = "ErrorResponse" => responderHadError'
    BY <1>5, <2>1, <2>2 DEF Ops
  <2>4. VerifyIsLast' /\ RegisteredOnRecord' /\ ErrorsRemembered' /\ ErrorEndsAtNextKey'
    BY <1>3, <2>1, <2>2, <2>3, LoopCall DEF Ops, Responses
  <2> QED
    BY <1>1, <1>2, <1>6, <2>2, <2>4 DEF ExchangeInv, KTypeOK
<1>10. ASSUME NEW key \in Keys \cup {EmptyKey, Malformed}, OnSetPublicKey(key)
       PROVE  ExchangeInv'
  <2>1. phase = "loop"
    BY <1>10 DEF OnSetPublicKey
  <2>2. CASE UNCHANGED <<vars, responderHadError, registered>> /\ Return
    BY <1>4, <2>1, <2>2 DEF Return
  <2>3. CASE ReceiveNotPem(key) /\ UNCHANGED exchangeVars
    BY <1>1, <1>2, <2>3
       DEF ReceiveNotPem, exchangeVars, ExchangeInv, KTypeOK, VerifyIsLast,
           RegisteredOnRecord, ErrorsRemembered, ErrorEndsAtNextKey
  <2>4. CASE /\ key \in Keys /\ (RejectKey(key) \/ AcceptKey(key))
             /\ RecordError
             /\ (responderHadError' /\ Return) \/ (~responderHadError' /\ UNCHANGED phase)
             /\ UNCHANGED registered
    <3>1. PICK resp \in {"ErrorResponse", "KeyReceived"}, k \in Keys \cup {NoKey} :
              Grows("ReceiveKey", key, resp, k)
      BY <1>1, <2>4, RecordGrows DEF RejectKey, AcceptKey, TypeOK, Ops, Arguments, Responses
    <3>2. phase' \in {"loop", "returned"} /\ (responderHadError' => phase' = "returned")
      BY <2>1, <2>4 DEF Return
    <3>3. responderHadError \/ resp = "ErrorResponse" => responderHadError'
      BY <1>5, <2>4, <3>1 DEF Ops
    <3>4. VerifyIsLast' /\ RegisteredOnRecord' /\ ErrorsRemembered' /\ ErrorEndsAtNextKey'
      BY <1>3, <2>1, <2>4, <3>1, <3>2, <3>3, LoopCall DEF Ops, Responses
    <3> QED
      BY <1>1, <1>2, <1>6, <2>4, <3>2, <3>4 DEF ExchangeInv, KTypeOK
  <2>5. RejectKey(key) \/ AcceptKey(key) => ~panicked'
    BY Zenon DEF RejectKey, AcceptKey, Respond
  <2>6. ReceiveNotPem(key) => panicked'
    BY DEF ReceiveNotPem
  <2> QED
    BY <1>10, <2>2, <2>3, <2>4, <2>5, <2>6, Zenon DEF OnSetPublicKey, ReceiveKey, Panicked
<1>11. ASSUME NEW plain \in Codes \cup {Undecryptable, Malformed}, OnVerify(plain)
       PROVE  ExchangeInv'
  <2>1. phase = "loop" /\ phase' = "returned"
    BY <1>11 DEF OnVerify, Return
  <2>2. CASE UNCHANGED <<vars, responderHadError, registered>>
    BY <1>4, <2>1, <2>2
  <2>3. CASE /\ plain \in Codes \cup {Undecryptable} /\ Verify(plain) /\ RecordError
             /\ registered' = IF LastCall.resp = "Verified" THEN LastCall.key ELSE registered
    <3>1. PICK resp \in {"ErrorResponse", "Verified"} :
              /\ Grows("Verify", plain, resp, clientKey)
              /\ resp = "Verified" => clientKey # NoKey
      BY <1>1, <2>3, RecordGrows
         DEF Verify, KeysExchangedAndCodeSent, TypeOK, Ops, Arguments, Responses
    <3>2. LastCall.resp = resp /\ LastCall.key = clientKey
      BY <1>3, <3>1 DEF Grows, LastCall
    <3>3. responderHadError \/ resp = "ErrorResponse" => responderHadError'
      BY <1>5, <2>3, <3>1 DEF Ops
    <3>4. clientKey \in Keys \cup {NoKey}
      BY <1>1 DEF TypeOK
    <3>5. registered' = IF resp = "Verified" THEN clientKey ELSE registered
      BY <2>3, <3>2
    <3>6. VerifyIsLast' /\ RegisteredOnRecord' /\ ErrorsRemembered' /\ ErrorEndsAtNextKey'
      BY <1>3, <2>1, <3>1, <3>3, <3>4, <3>5, LastCallIsVerify
    <3> QED
      BY <1>1, <1>2, <1>6, <2>1, <2>3, <3>4, <3>5, <3>6 DEF ExchangeInv, KTypeOK
  <2> QED
    BY <1>11, <2>2, <2>3 DEF OnVerify
<1>12. CASE UNCHANGED kvars
  BY <1>1, <1>2, <1>12
     DEF kvars, exchangeVars, vars, ExchangeInv, KTypeOK, VerifyIsLast,
         RegisteredOnRecord, ErrorsRemembered, ErrorEndsAtNextKey
<1> QED
  BY <1>7, <1>8, <1>9, <1>10, <1>11, <1>12 DEF KNext

LEMMA ExchangeInvInitially ==
    ASSUME KInit
    PROVE  ExchangeInv
<1>1. calls = <<>> /\ 1..Len(calls) = {}
  BY DEF KInit, Init
<1>2. TypeOK
  BY InvInitially DEF KInit, HandshakeInv
<1> QED
  BY <1>1, <1>2 DEF KInit, ExchangeInv, KTypeOK, VerifyIsLast, RegisteredOnRecord,
                    ErrorsRemembered, ErrorEndsAtNextKey

LEMMA ExchangeInvHolds == KSpec => []ExchangeInv
BY ExchangeInvInitially, ExchangeInvPreserved, PTL DEF KSpec

(***************************************************************************)
(* A connection is registered at most once, under the key its one Verify   *)
(* was answered for, and only as the goroutine returns.                    *)
(***************************************************************************)
THEOREM RegisteredOnce == KSpec => []OneRegistration
<1>1. ASSUME ExchangeInv
      PROVE  OneRegistration
  <2>1. \A m, n \in 1..Len(calls) :
            calls[m].op = "Verify" /\ calls[n].op = "Verify" => m = n
    BY <1>1 DEF ExchangeInv, VerifyIsLast
  <2>2. registered # NoKey <=>
            \E n \in 1..Len(calls) : calls[n].resp = "Verified" /\ calls[n].key = registered
    BY <1>1 DEF ExchangeInv, VerifyIsLast, RegisteredOnRecord
  <2>3. registered # NoKey => phase = "returned"
    BY <1>1 DEF ExchangeInv, VerifyIsLast, RegisteredOnRecord
  <2> QED
    BY <2>1, <2>2, <2>3 DEF OneRegistration
<1> QED
  BY <1>1, ExchangeInvHolds, PTL

(***************************************************************************)
(* Every variable of the loop and its handler keeps its type.              *)
(***************************************************************************)
THEOREM ExchangeTypeCorrect == KSpec => []KTypeOK
<1>1. ExchangeInv => KTypeOK
  BY DEF ExchangeInv
<1> QED
  BY <1>1, ExchangeInvHolds, PTL

(***************************************************************************)
(* Once an error has been answered, the next SetPublicKey ends the loop.   *)
(***************************************************************************)
THEOREM ErrorIsSticky == KSpec => []ErrorEndsAtNextKey
<1>1. ExchangeInv => ErrorEndsAtNextKey
  BY DEF ExchangeInv
<1> QED
  BY <1>1, ExchangeInvHolds, PTL
=============================================================================

------------------------------ MODULE Encoding ------------------------------
(***************************************************************************)
(* One deposit on its way through the encodings of the bridge: address to  *)
(* 32 bytes (api, frontend), event log and back (deposit.rs, watcher),     *)
(* message id and public inputs (zk-utils.ts; the prover, the encoding     *)
(* library and the scripts have copies), and what zk_verifier.ride or the  *)
(* committee's mint reads out of them.                                     *)
(*                                                                         *)
(* A byte has Width bits and a 32-byte field IdSize bytes; an address is   *)
(* version, body, checksum.  Program id and asset, 32 bytes passed on as   *)
(* they are, are left out, and so is the root, which goes the way of the   *)
(* message id.                                                             *)
(***************************************************************************)
EXTENDS Integers, Sequences, SequencesExt

CONSTANTS
  Width,     \* 8
  IdSize,    \* 32
  Short,     \* 4: bytes of a u32
  Long,      \* 8: bytes of a u64
  Version,   \* first byte of an address
  Bodies,    \* bodies of addresses
  Senders,   \* Solana keys: IdSize bytes
  Ids,       \* message ids: IdSize bytes
  Amounts,   \* below Byte^Long \div 2
  Slots

VARIABLES
  deposit,   \* what the user wants, then what the program hashes
  id,        \* keccak of the preimage
  log,       \* the event, in bytes
  answer     \* of the contract: None, Refused or what it minted, to whom

vars == <<deposit, id, log, answer>>

None == <<>>
Refused == <<"refused">>

Byte == 2 ^ Width
Half == IdSize \div 2

Checksum(body) == (body + 1) % Byte
Address(body) == <<Version, body, Checksum(body)>>
IsAddress(bytes) == \E body \in 0..Byte - 1 : bytes = Address(body)

Zeros(n) == [i \in 1..n |-> 0]

\* writeU32LE, writeU64LE
LE(value, size) == [i \in 1..size |-> (value \div 2 ^ (Width * (i - 1))) % Byte]
FromLE(bytes) == FoldRight(LAMBDA byte, value : value * Byte + byte, bytes, 0)

\* fieldElementToBytes
BE(value, size) == Reverse(LE(value, size))
FromBE(bytes) == FromLE(Reverse(bytes))

BytesToBits(bytes) ==
  [i \in 1..Width * Len(bytes) |->
     (bytes[(i - 1) \div Width + 1] \div 2 ^ ((i - 1) % Width)) % 2]
NumberToBits(value, bits) == [i \in 1..bits |-> (value \div 2 ^ (i - 1)) % 2]

(***************************************************************************)
(* Base58: a number, and a '1' for every leading zero byte                 *)
(***************************************************************************)
LeadingZeros(bytes) ==
  CHOOSE n \in 0..Len(bytes) : /\ \A i \in 1..n : bytes[i] = 0
                               /\ n < Len(bytes) => bytes[n + 1] # 0
Digits(bytes) == SubSeq(bytes, LeadingZeros(bytes) + 1, Len(bytes))

ToBase58(bytes) == [ones |-> LeadingZeros(bytes), number |-> Digits(bytes)]
FromBase58(text) == Zeros(text.ones) \o text.number

\* base58ToBytes
Base58ToBytes(text, size) ==
  LET raw == IF text.number = <<>> THEN <<0>> ELSE text.number
      total == text.ones + Len(raw)
      start == IF total < size THEN size - total ELSE 0
  IN SubSeq(Zeros(start + text.ones) \o raw, 1, size)

(***************************************************************************)
(* Deposit                                                                 *)
(***************************************************************************)
\* encodeRecipientDcc, encodeRecipientBytes
EncodeRecipient(address) == address \o Zeros(IdSize - Len(address))

Init ==
  /\ deposit \in [to : {Address(body) : body \in Bodies}, sender : Senders, amount : Amounts,
                  slot : Slots, index : {1, Byte - 1}, nonce : {0, Byte}]
  /\ id = <<>>
  /\ log = <<>>
  /\ answer = None

DepositPreimage(src, dst, event) ==
  LE(src, Short) \o LE(dst, Short) \o LE(event.slot, Long) \o LE(event.index, Short)
  \o event.sender \o event.recipient \o LE(event.amount, Long) \o LE(event.nonce, Long)

\* parseDepositMessage
ParseDeposit(bytes) ==
  LET at == 2 * Short
      Part(from, size) == SubSeq(bytes, from + 1, from + size)
      rest == at + Long + Short + 2 * IdSize
  IN [slot |-> FromLE(Part(at, Long)), index |-> FromLE(Part(at + Long, Short)),
      sender |-> Part(at + Long + Short, IdSize),
      recipient |-> Part(at + Long + Short + IdSize, IdSize),
      amount |-> FromLE(Part(rest, Long)), nonce |-> FromLE(Part(rest + Long, Long))]

\* The event index is 64 bits wide in the log and 32 in the preimage.
Lock(hash) ==
  LET recipient == EncodeRecipient(deposit.to) IN
  /\ log = <<>>
  /\ id' = hash
  /\ log' = deposit.sender \o recipient \o LE(deposit.amount, Long) \o LE(deposit.nonce, Long)
            \o LE(deposit.slot, Long) \o LE(deposit.index, Long)
  /\ UNCHANGED <<deposit, answer>>

\* decodeBridgeDeposit: key and recipient become text.
DecodeBridgeDeposit ==
  LET Part(from, size) == SubSeq(log, from + 1, from + size)
      rest == 2 * IdSize
  IN [sender |-> ToBase58(Part(0, IdSize)), recipient |-> Part(IdSize, IdSize),
      amount |-> FromLE(Part(rest, Long)), nonce |-> FromLE(Part(rest + Long, Long)),
      slot |-> FromLE(Part(rest + 2 * Long, Long)),
      index |-> FromLE(Part(rest + 3 * Long, Short))]

(***************************************************************************)
(* Validator                                                               *)
(***************************************************************************)
SolChain == 1
DccChain == 2

\* The bytes that a validator hashes and that it hands to the contract.
Raw(event) == [event EXCEPT !.sender = Base58ToBytes(event.sender, IdSize)]

\* Keccak of the deposit's preimage is id; it collides with nothing.
Keccak(bits) ==
  LET event == Raw(DecodeBridgeDeposit) IN
  IF bits = BytesToBits(DepositPreimage(SolChain, DccChain, event)) THEN id
  ELSE [id EXCEPT ![1] = (@ + 1) % Byte]

HashBigEndian(hash) ==          \* mutation: the halves are read big-endian
  <<FromBE(SubSeq(hash, 1, Half)), FromBE(SubSeq(hash, Half + 1, IdSize))>>

HashToFieldElements(hash) ==
  <<FromLE(SubSeq(hash, 1, Half)), FromLE(SubSeq(hash, Half + 1, IdSize))>>

\* The circuit's inputs: amount, message id and recipient are public.
Witness(event) ==
  LET messageId == Keccak(BytesToBits(DepositPreimage(SolChain, DccChain, event))) IN
  [public |-> HashToFieldElements(messageId) \o <<event.amount>>
              \o HashToFieldElements(event.recipient),
   src |-> NumberToBits(SolChain, Width * Short), dst |-> NumberToBits(DccChain, Width * Short),
   slot |-> NumberToBits(event.slot, Width * Long),
   index |-> NumberToBits(event.index, Width * Short), sender |-> BytesToBits(event.sender),
   nonce |-> NumberToBits(event.nonce, Width * Long)]

\* bridge_deposit.circom: the bits of the public inputs hash to the message id.
Satisfies(witness) ==
  LET Bits(k, bits) == NumberToBits(witness.public[k], bits)
      Word(k) == Bits(k, Width * Half) \o Bits(k + 1, Width * Half)
      Hashes(bits, hash) == BytesToBits(Keccak(bits)) = hash
  IN Hashes(witness.src \o witness.dst \o witness.slot \o witness.index \o witness.sender
            \o Word(4) \o Bits(3, Width * Long) \o witness.nonce, Word(1))

\* serializeInputsForRIDE
SerializeInputs(signals) == FlattenSeq([k \in 1..Len(signals) |-> BE(signals[k], IdSize)])

\* The padding of the recipient, with every zero at the end of the address.
Trimmed(recipient) ==
  SubSeq(recipient, 1, CHOOSE n \in 1..IdSize :
                         /\ n = 1 \/ recipient[n] # 0
                         /\ \A i \in n + 1..IdSize : recipient[i] = 0)

RecipientAddress(event) == ToBase58(Trimmed(event.recipient))

(***************************************************************************)
(* Contracts                                                               *)
(***************************************************************************)
Element(inputs, k) == SubSeq(inputs, (k - 1) * IdSize + 1, k * IdSize)

Reconstruct256(lo, hi) ==
  Reverse(SubSeq(lo, Half + 1, IdSize)) \o Reverse(SubSeq(hi, Half + 1, IdSize))

FieldElementToInt(element) == FromBE(SubSeq(element, IdSize - Long + 1, IdSize))

\* addressFromStringValue throws unless the text is an address.
VerifiedRecipient(inputs, event, text) ==
  LET address == FromBase58(text) IN
  /\ Keccak(BytesToBits(DepositPreimage(SolChain, DccChain, event)))
       = Reconstruct256(Element(inputs, 1), Element(inputs, 2))
  /\ FieldElementToInt(Element(inputs, 3)) = event.amount
  /\ Reconstruct256(Element(inputs, 4), Element(inputs, 5)) = event.recipient
  /\ IsAddress(address)
  /\ SubSeq(event.recipient, 1, Len(address)) = address

\* generateAndSubmitSingleProof, verifyAndMint
VerifyAndMint ==
  LET event == Raw(DecodeBridgeDeposit)
      witness == Witness(event)
      inputs == SerializeInputs(witness.public)
      text == RecipientAddress(event)
  IN /\ log # <<>> /\ answer = None
     /\ answer' = IF Satisfies(witness) /\ VerifiedRecipient(inputs, event, text)
                  THEN <<FromBase58(text), event.amount>>
                  ELSE Refused
     /\ UNCHANGED <<deposit, id, log>>

\* submitMintToDcc, committeeMint: the committee signed the text and the amount.
CommitteeMint ==
  LET event == DecodeBridgeDeposit
      address == FromBase58(RecipientAddress(event))
  IN /\ log # <<>> /\ answer = None
     /\ answer' = IF IsAddress(address) THEN <<address, event.amount>>
                  ELSE Refused
     /\ UNCHANGED <<deposit, id, log>>

Next == (\E hash \in Ids : Lock(hash)) \/ VerifyAndMint \/ CommitteeMint

Spec == Init /\ [][Next]_vars

----------------------------------------------------------------------------
\* What one side writes the other side reads: a deposit is minted to the
\* address and in the amount that the user chose, along either path, and is
\* refused only for the last byte of its address; and parseDepositMessage
\* undoes encodeDepositMessage.
EncodingsAgree ==
  /\ answer # None => IF answer = Refused THEN Last(deposit.to) = 0
                     ELSE answer = <<deposit.to, deposit.amount>>
  /\ log # <<>> => LET event == Raw(DecodeBridgeDeposit) IN
                  ParseDeposit(DepositPreimage(SolChain, DccChain, event)) = event

\* "The recipient_dcc is stored as 26 raw bytes (base58-decoded DCC address) +
\* 6 zero-pad bytes ... Strip trailing zero-padding to get original
\* base58-decoded bytes": nothing else is stripped, and the deposit is minted.
RecipientSurvives == answer # Refused
=============================================================================

----------------------------- MODULE WireFormat -----------------------------
(***************************************************************************)
(* The byte codecs of the kernel and the two experiments: every message    *)
(* that has an encoder and a decoder, with all its fields, and the list of *)
(* accounts that a capability hash is taken of.                            *)
(*                                                                         *)
(* An encoder and a decoder are each the list of the fields they put or    *)
(* read, in the order of the source, whose cursor moves by the width of    *)
(* the field.  Discriminators and magic numbers are shortened to a byte.   *)
(* A sender encodes, the bytes may be changed on the way (a caller chooses *)
(* the instruction data, an engine its return data), a receiver decodes.   *)
(***************************************************************************)
EXTENDS Naturals, SequencesExt

CONSTANTS
  ByteMax,            \* the largest byte
  HashLen,            \* bytes of a key or a digest
  WordLen,            \* bytes of a u64
  CountLen,           \* bytes of a u16
  MaxPayload,         \* MAX_OPAQUE_PAYLOAD_LEN
  MaxOpaqueAccounts,  \* MAX_OPAQUE_ACCOUNTS
  Digest(_),          \* the execution digest of an encoded binding
  Messages,           \* the values that are sent in each format
  Payloads, Programs, Descriptors,
  MaxTampered,        \* how many bytes are replaced on the way
  None

VARIABLES
  kind,        \* the format in use; None before something is sent
  sent,        \* what the sender encoded; None once the bytes were changed
  wire,        \* the bytes
  tampered,    \* how many bytes were replaced
  received     \* what the receiver decoded; None before that and when it refuses

vars == <<kind, sent, wire, tampered, received>>

Byte == 0 .. ByteMax
Bytes(n) == [1 .. n -> Byte]

\* The integers of so many bytes, and their number.
Span(width) ==
  LET span[i \in 0 .. width] == IF i = 0 THEN 1 ELSE (ByteMax + 1) * span[i - 1]
  IN  span[width]
Uint(width) == 0 .. Span(width) - 1

(***************************************************************************)
(* Integers and the cursor.                                                *)
(***************************************************************************)
\* to_le_bytes, for an integer of so many bytes.
put_uint(value, width) ==
  LET rest[i \in 0 .. width] == IF i = 0 THEN value ELSE rest[i - 1] \div (ByteMax + 1)
  IN  [i \in 1 .. width |-> rest[i - 1] % (ByteMax + 1)]
put_u16(value) == put_uint(value, CountLen)

\* The next n bytes when so many have been read.
read_array(data, cursor, n) == SubSeq(data, cursor + 1, cursor + n)
read_u8(data, cursor) == data[cursor + 1]

\* from_le_bytes, the highest byte first.
from_le_bytes(bytes) ==
  LET high[i \in 0 .. Len(bytes)] ==
        IF i = 0 THEN 0 ELSE bytes[Len(bytes) + 1 - i] + (ByteMax + 1) * high[i - 1]
  IN  high[Len(bytes)]

\* Fields of the same type, one after the other.
u8s(names) == [i \in DOMAIN names |-> [name |-> names[i], type |-> "u8"]]
u16s(names) == [i \in DOMAIN names |-> [name |-> names[i], type |-> "u16"]]
u64s(names) == [i \in DOMAIN names |-> [name |-> names[i], type |-> "u64"]]
keys(names) == [i \in DOMAIN names |-> [name |-> names[i], type |-> "key"]]
opaque(names) == [i \in DOMAIN names |-> [name |-> names[i], type |-> "payload"]]

Width == [u8 |-> 1, u16 |-> CountLen, u64 |-> WordLen, key |-> HashLen, payload |-> MaxPayload]
Numbers == {"u8", "u16", "u64"}

\* Where the cursor stands behind the first i fields.
cursor_at(fields, i) ==
  LET at[j \in 0 .. Len(fields)] ==
        IF j = 0 THEN 0 ELSE at[j - 1] + Width[fields[j].type]
  IN  at[i]

Names(fields) == {fields[i].name : i \in DOMAIN fields}

put_field(type, value) == IF type \in Numbers THEN put_uint(value, Width[type]) ELSE value
put_fields(fields, value) ==
  FlattenSeq([i \in DOMAIN fields |-> put_field(fields[i].type, value[fields[i].name])])

read_field(type, bytes) == IF type \in Numbers THEN from_le_bytes(bytes) ELSE bytes
read_fields(fields, data, cursor) ==
  [name \in Names(fields) |->
     LET i == CHOOSE i \in DOMAIN fields : fields[i].name = name
         type == fields[i].type
     IN  read_field(type, read_array(data, cursor + cursor_at(fields, i - 1), Width[type]))]

\* The values of the struct with these fields.
Values(type) == IF type \in Numbers THEN Uint(Width[type]) ELSE Bytes(Width[type])
IsMessage(fields, value) ==
  /\ value = [name \in Names(fields) |-> value[name]]
  /\ \A i \in DOMAIN fields : value[fields[i].name] \in Values(fields[i].type)

(***************************************************************************)
(* What each encoder puts and each decoder reads, behind the version.      *)
(***************************************************************************)
\* The kernel's request and receipt.
kernel_encode_request ==
  keys(<<"plan_hash", "market", "domain">>)
    \o u64s(<<"engine_revision", "amount_in", "amount_out", "protocol_fee",
              "accounted_input_before", "accounted_output_before", "accounted_fee_before">>)
kernel_decode_request ==
  keys(<<"plan_hash", "market", "domain">>)
    \o u64s(<<"engine_revision", "amount_in", "amount_out", "protocol_fee",
              "accounted_input_before", "accounted_output_before", "accounted_fee_before">>)
KERNEL_REQUEST_LEN == 1 + 3 * HashLen + 7 * WordLen

kernel_encode_receipt == keys(<<"plan_hash">>) \o u64s(<<"state_sequence">>)
kernel_decode_receipt == keys(<<"plan_hash">>) \o u64s(<<"state_sequence">>)
KERNEL_RECEIPT_LEN == 1 + 1 + HashLen + WordLen

\* Engine-generated settlement.
encode_request_binding ==
  keys(<<"core_program", "market", "domain", "engine_program", "engine_state",
         "user_authority", "user_input", "user_output", "mint_in", "mint_out",
         "domain_input_vault", "domain_output_vault", "protocol_fee_vault", "fee_ledger",
         "token_program">>)
    \o u64s(<<"engine_revision", "fee_policy_revision", "amount_in", "protocol_fee",
              "max_total_input_debit", "min_output_credit", "max_protocol_fee",
              "accounted_input_before", "accounted_output_before", "accounted_fee_before",
              "expires_at_slot">>)
    \o keys(<<"capability_hash", "payload_hash">>)
decode_request_binding ==
  keys(<<"core_program", "market", "domain", "engine_program", "engine_state",
         "user_authority", "user_input", "user_output", "mint_in", "mint_out",
         "domain_input_vault", "domain_output_vault", "protocol_fee_vault", "fee_ledger",
         "token_program">>)
    \o u64s(<<"engine_revision", "fee_policy_revision", "amount_in", "protocol_fee",
              "max_total_input_debit", "min_output_credit", "max_protocol_fee",
              "accounted_input_before", "accounted_output_before", "accounted_fee_before",
              "expires_at_slot">>)
    \o keys(<<"capability_hash", "payload_hash">>)
REQUEST_BINDING_LEN == 1 + 15 * HashLen + 11 * WordLen + 2 * HashLen

encode_request ==
  keys(<<"request_hash", "market", "domain">>)
    \o u64s(<<"engine_revision", "amount_in", "accounted_input_before",
              "accounted_output_before">>)
    \o u16s(<<"opaque_account_count">>) \o keys(<<"capability_hash">>)
    \o u16s(<<"payload_len">>) \o opaque(<<"payload">>)
decode_request ==
  keys(<<"request_hash", "market", "domain">>)
    \o u64s(<<"engine_revision", "amount_in", "accounted_input_before",
              "accounted_output_before">>)
    \o u16s(<<"opaque_account_count">>) \o keys(<<"capability_hash">>)
    \o u16s(<<"payload_len">>) \o opaque(<<"payload">>)
ENGINE_REQUEST_LEN ==
  1 + HashLen + 2 * HashLen + 4 * WordLen + CountLen + HashLen + CountLen + MaxPayload

generated_encode_receipt == keys(<<"request_hash">>) \o u64s(<<"amount_out", "state_sequence">>)
generated_decode_receipt == keys(<<"request_hash">>) \o u64s(<<"amount_out", "state_sequence">>)
GENERATED_RECEIPT_LEN == 1 + 1 + HashLen + 2 * WordLen

\* The routed callback.
encode_intent_binding ==
  u8s(<<"timing_mode">>)
    \o keys(<<"core_program", "market", "domain", "engine_program", "engine_state",
              "user_authority", "user_input", "user_output", "mint_in", "mint_out",
              "domain_input_vault", "domain_output_vault", "protocol_fee_vault",
              "fee_ledger", "token_program">>)
    \o u64s(<<"engine_revision", "fee_policy_revision", "amount_in", "protocol_fee",
              "max_total_input_debit", "min_output_credit", "max_protocol_fee",
              "expires_at_slot">>)
    \o keys(<<"authorization_nonce", "authorized_capability_hash", "payload_hash">>)
decode_intent_binding ==
  u8s(<<"timing_mode">>)
    \o keys(<<"core_program", "market", "domain", "engine_program", "engine_state",
              "user_authority", "user_input", "user_output", "mint_in", "mint_out",
              "domain_input_vault", "domain_output_vault", "protocol_fee_vault",
              "fee_ledger", "token_program">>)
    \o u64s(<<"engine_revision", "fee_policy_revision", "amount_in", "protocol_fee",
              "max_total_input_debit", "min_output_credit", "max_protocol_fee",
              "expires_at_slot">>)
    \o keys(<<"authorization_nonce", "authorized_capability_hash", "payload_hash">>)
INTENT_BINDING_LEN == 2 + 15 * HashLen + 8 * WordLen + 3 * HashLen

encode_execution_binding ==
  u8s(<<"phase">>) \o keys(<<"intent_digest", "phase_context_digest", "market", "domain">>)
    \o u64s(<<"engine_revision", "amount_in", "protocol_fee", "accounted_input_before",
              "accounted_output_before", "accounted_fee_before", "pre_sequence">>)
    \o keys(<<"authorized_capability_hash", "phase_capability_hash">>)
    \o u16s(<<"opaque_account_count", "payload_len">>) \o opaque(<<"payload">>)

\* Faulty variant of decode_execution_binding: the two capability hashes are read in the
\* other order.
decode_binding_hashes_swapped ==
  u8s(<<"phase">>) \o keys(<<"intent_digest", "phase_context_digest", "market", "domain">>)
    \o u64s(<<"engine_revision", "amount_in", "protocol_fee", "accounted_input_before",
              "accounted_output_before", "accounted_fee_before", "pre_sequence">>)
    \o keys(<<"phase_capability_hash", "authorized_capability_hash">>)
    \o u16s(<<"opaque_account_count", "payload_len">>) \o opaque(<<"payload">>)

decode_execution_binding ==
  u8s(<<"phase">>) \o keys(<<"intent_digest", "phase_context_digest", "market", "domain">>)
    \o u64s(<<"engine_revision", "amount_in", "protocol_fee", "accounted_input_before",
              "accounted_output_before", "accounted_fee_before", "pre_sequence">>)
    \o keys(<<"authorized_capability_hash", "phase_capability_hash">>)
    \o u16s(<<"opaque_account_count", "payload_len">>) \o opaque(<<"payload">>)
EXECUTION_BINDING_LEN ==
  2 + 2 * HashLen + 7 * WordLen + 4 * HashLen + 2 * CountLen + MaxPayload

encode_receipt ==
  u8s(<<"phase">>) \o keys(<<"intent_digest", "execution_digest">>)
    \o u64s(<<"amount_out", "state_sequence">>)
decode_receipt ==
  u8s(<<"phase">>) \o keys(<<"intent_digest", "execution_digest">>)
    \o u64s(<<"amount_out", "state_sequence">>)
ENGINE_RECEIPT_LEN == 1 + 2 + 2 * HashLen + 2 * WordLen

encode_settlement_binding ==
  keys(<<"intent_digest", "primary_execution_digest", "primary_receipt_digest">>)
    \o u64s(<<"amount_in", "amount_out", "protocol_fee", "total_input_debit",
              "accounted_input_before", "accounted_output_before", "accounted_fee_before",
              "accounted_input_after", "accounted_output_after", "accounted_fee_after",
              "observed_source_after", "observed_destination_after",
              "observed_input_vault_after", "observed_output_vault_after",
              "observed_fee_vault_after">>)
decode_settlement_binding ==
  keys(<<"intent_digest", "primary_execution_digest", "primary_receipt_digest">>)
    \o u64s(<<"amount_in", "amount_out", "protocol_fee", "total_input_debit",
              "accounted_input_before", "accounted_output_before", "accounted_fee_before",
              "accounted_input_after", "accounted_output_after", "accounted_fee_after",
              "observed_source_after", "observed_destination_after",
              "observed_input_vault_after", "observed_output_vault_after",
              "observed_fee_vault_after">>)
SETTLEMENT_BINDING_LEN == 1 + 3 * HashLen + 15 * WordLen

(***************************************************************************)
(* The formats.                                                            *)
(***************************************************************************)
Encoder ==
  [kernel_evaluate |-> kernel_encode_request, kernel_receipt |-> kernel_encode_receipt,
   request_binding |-> encode_request_binding, evaluate |-> encode_request,
   generated_receipt |-> generated_encode_receipt, intent |-> encode_intent_binding,
   phase |-> encode_execution_binding, receipt |-> encode_receipt,
   settlement |-> encode_settlement_binding]
Decoder ==
  [kernel_evaluate |-> kernel_decode_request, kernel_receipt |-> kernel_decode_receipt,
   request_binding |-> decode_request_binding, evaluate |-> decode_request,
   generated_receipt |-> generated_decode_receipt, intent |-> decode_intent_binding,
   phase |-> decode_execution_binding, receipt |-> decode_receipt,
   settlement |-> decode_settlement_binding]
Length ==
  [kernel_evaluate |-> 1 + KERNEL_REQUEST_LEN, kernel_receipt |-> KERNEL_RECEIPT_LEN,
   request_binding |-> REQUEST_BINDING_LEN, evaluate |-> 1 + ENGINE_REQUEST_LEN,
   generated_receipt |-> GENERATED_RECEIPT_LEN, intent |-> INTENT_BINDING_LEN,
   phase |-> 1 + EXECUTION_BINDING_LEN + HashLen, receipt |-> ENGINE_RECEIPT_LEN,
   settlement |-> SETTLEMENT_BINDING_LEN]

Formats == {"kernel_evaluate", "kernel_receipt", "request_binding", "evaluate",
            "generated_receipt", "intent", "phase", "receipt", "settlement"}
Instructions == {"kernel_evaluate", "evaluate", "phase"}
Receipts == {"kernel_receipt", "generated_receipt", "receipt"}
WithPayload == {"evaluate", "phase"}

PROBE_WIRE_VERSION == 0
EVALUATE_DISCRIMINATOR == 1
RECEIPT_MAGIC == 2
Phases == {0, 1, 2}
PHASE_COMMIT == 2
TimingModes == {0, 1}
engine_phase_discriminator(phase) == 3 - phase
NoContext == [i \in 1 .. HashLen |-> 0]

require_version(actual) == actual = PROBE_WIRE_VERSION
require_length(data, expected) == Len(data) = expected
require_phase(actual) == actual \in Phases
require_timing_mode(actual) == actual \in TimingModes
validate_opaque_account_count(actual) == actual <= MaxOpaqueAccounts

\* A payload in a field of the largest size, the rest zero.
canonical_payload(payload) ==
  [i \in 1 .. MaxPayload |-> IF i <= Len(payload) THEN payload[i] ELSE 0]

\* Faulty variant of payload_is_canonical: the padding is not looked at.
payload_length_in_bounds(value) == value.payload_len <= MaxPayload

payload_is_canonical(value) ==
  /\ value.payload_len <= MaxPayload
  /\ \A i \in value.payload_len + 1 .. MaxPayload : value.payload[i] = 0

\* EngineRequest::new and ExecutionBinding::new, which pad the payload they are given.
NewWithPayload(value, payload) ==
  [value EXCEPT !.payload_len = Len(payload), !.payload = canonical_payload(payload)]

\* The part of a decoded payload field that its receiver is given.
payload_bytes(value) == SubSeq(value.payload, 1, value.payload_len)

validate_engine_request(request) ==
  /\ validate_opaque_account_count(request.opaque_account_count)
  /\ payload_is_canonical(request)

validate_execution_binding(binding) ==
  /\ require_phase(binding.phase)
  /\ (binding.phase_context_digest # NoContext) <=> (binding.phase = PHASE_COMMIT)
  /\ validate_opaque_account_count(binding.opaque_account_count)
  /\ payload_is_canonical(binding)

\* What encoder and decoder of a format ask of its value.
Valid(k, value) ==
  CASE k = "evaluate" -> validate_engine_request(value)
    [] k = "phase" -> validate_execution_binding(value)
    [] k = "receipt" -> require_phase(value.phase)
    [] k = "intent" -> require_timing_mode(value.timing_mode)
    [] OTHER -> TRUE

\* The version and the fields: what is hashed where a digest is taken of a binding.
Body(k, value) == <<PROBE_WIRE_VERSION>> \o put_fields(Encoder[k], value)

\* Before the version of an instruction stands its discriminator, of a receipt the magic
\* number; behind the binding of a phase its digest.
Lead(k, value) ==
  CASE k \in Receipts -> <<RECEIPT_MAGIC>>
    [] k = "phase" -> <<engine_phase_discriminator(value.phase)>>
    [] k \in Instructions \ {"phase"} -> <<EVALUATE_DISCRIMINATOR>>
    [] OTHER -> <<>>
LeadLen(k) == IF k \in Receipts \cup Instructions THEN 1 ELSE 0
Trail(k, value) == IF k = "phase" THEN Digest(Body(k, value)) ELSE <<>>
TrailLen(k) == IF k = "phase" THEN HashLen ELSE 0

Encoded(k, value) == Lead(k, value) \o Body(k, value) \o Trail(k, value)

\* The decoder returns Ok(Decoded(k, data)) if Accepted(k, data), and an error otherwise.
Decoded(k, data) == read_fields(Decoder[k], data, LeadLen(k) + 1)
Accepted(k, data) ==
  LET value == Decoded(k, data)
  IN
  /\ require_length(data, Length[k])
  /\ require_version(read_u8(data, LeadLen(k)))
  /\ Valid(k, value)
  /\ read_array(data, 0, LeadLen(k)) = Lead(k, value)
  /\ read_array(data, Length[k] - TrailLen(k), TrailLen(k)) = Trail(k, value)

(***************************************************************************)
(* The bytes of a capability hash.                                         *)
(***************************************************************************)
AsBit(b) == IF b THEN 1 ELSE 0

\* Faulty variant of privilege_flags: both privileges set the same bit.
flags_in_one_bit(descriptor) == AsBit(descriptor.is_writable \/ descriptor.is_signer)

privilege_flags(descriptor) == AsBit(descriptor.is_writable) + 2 * AsBit(descriptor.is_signer)

capability_bytes(engine_program, descriptors) ==
  <<PROBE_WIRE_VERSION>> \o engine_program \o put_u16(Len(descriptors))
    \o FlattenSeq([i \in DOMAIN descriptors |->
         put_u16(i - 1) \o descriptors[i].key \o descriptors[i].owner
           \o <<AsBit(descriptors[i].is_executable), privilege_flags(descriptors[i])>>])

Capabilities == [program : Programs, descriptors : BoundedSeq(Descriptors, 1 + MaxOpaqueAccounts)]

\* Versions, phases, discriminators and the magic number are bytes; the limits fit their
\* counts; what is sent has the fields of its struct.
ASSUME WireAssumption ==
  /\ ByteMax \in Nat /\ ByteMax >= 3
  /\ {HashLen, WordLen, CountLen} \subseteq Nat \ {0}
  /\ {MaxPayload, MaxOpaqueAccounts, MaxTampered} \subseteq Nat
  /\ {MaxPayload, 1 + MaxOpaqueAccounts} \subseteq Uint(CountLen)
  /\ \A k \in Formats : \A value \in Messages[k] : IsMessage(Encoder[k], value)
  /\ Payloads \subseteq Seq(Byte)
  /\ Programs \subseteq Bytes(HashLen)
  /\ Descriptors \subseteq [key : Bytes(HashLen), owner : Bytes(HashLen), is_writable : BOOLEAN,
                            is_signer : BOOLEAN, is_executable : BOOLEAN]
  /\ None \notin Formats \cup {"capability"}

\* A digest is as long as a key.
ASSUME DigestAssumption ==
  \A value \in Messages["phase"], payload \in Payloads :
    Len(payload) <= MaxPayload =>
      Digest(Body("phase", NewWithPayload(value, payload))) \in Bytes(HashLen)

(***************************************************************************)
(* The specification.                                                      *)
(***************************************************************************)
Init ==
  /\ kind = None /\ sent = None /\ wire = None /\ received = None
  /\ tampered = 0

Send(k, value, data) ==
  /\ kind = None
  /\ kind' = k /\ sent' = value /\ wire' = data
  /\ UNCHANGED <<tampered, received>>

\* A value goes out if its encoder accepts it.
send ==
  \E k \in Formats \ WithPayload : \E value \in Messages[k] :
    Valid(k, value) /\ Send(k, value, Encoded(k, value))

send_payload ==
  \E k \in WithPayload : \E value \in Messages[k], payload \in Payloads :
    /\ Len(payload) <= MaxPayload
    /\ Valid(k, NewWithPayload(value, payload))
    /\ Send(k, NewWithPayload(value, payload), Encoded(k, NewWithPayload(value, payload)))

bind_capabilities ==
  \E c \in Capabilities :
    Send("capability", c, capability_bytes(c.program, c.descriptors))

\* The bytes that arrive need not be those of an encoder.
InFlight == kind \in Formats /\ received = None

tamper ==
  /\ InFlight
  /\ tampered < MaxTampered
  /\ \E i \in DOMAIN wire, byte \in Byte : byte # wire[i] /\ wire' = [wire EXCEPT ![i] = byte]
  /\ tampered' = tampered + 1
  /\ sent' = None
  /\ UNCHANGED <<kind, received>>

resize ==
  /\ InFlight
  /\ tampered < MaxTampered
  /\ \/ wire' = Front(wire)
     \/ \E byte \in Byte : wire' = Append(wire, byte)
  /\ tampered' = tampered + 1
  /\ sent' = None
  /\ UNCHANGED <<kind, received>>

\* The receiver's answer; bytes it refuses end the call.
receive ==
  /\ InFlight
  /\ Accepted(kind, wire)
  /\ received' = Decoded(kind, wire)
  /\ UNCHANGED <<kind, sent, wire, tampered>>

Next ==
  \/ send \/ send_payload \/ bind_capabilities
  \/ tamper \/ resize
  \/ receive

Spec == Init /\ [][Next]_vars

(***************************************************************************)
(* Properties.                                                             *)
(***************************************************************************)
\* Bytes that nobody changed are accepted by the decoder and mean what was encoded: the
\* reader's cursor meets every field of the struct where the writer's left it.
RoundTrip ==
  InFlight /\ sent # None => Accepted(kind, wire) /\ Decoded(kind, wire) = sent

\* What the receiver acts on, rebuilt as its sender would: the payload is payload_bytes.
Rebuilt(k, value) ==
  IF k \in WithPayload THEN NewWithPayload(value, payload_bytes(value)) ELSE value

\* Whatever bytes arrive, those a decoder accepts are the only ones that mean what its
\* caller gets from it: no padding, length, count, phase, timing or version has a second
\* spelling, so that what the digests bind is what the bytes say.
OneSpelling == received # None => Encoded(kind, Rebuilt(kind, received)) = wire

\* Two lists of accounts that differ in a key, an owner, a privilege, an executable flag,
\* their order or their length are hashed from different bytes, none the beginning of
\* another.
CapabilitiesTellApart ==
  kind = "capability" =>
    \A c \in Capabilities :
      IsPrefix(capability_bytes(c.program, c.descriptors), wire) => c = sent
=============================================================================

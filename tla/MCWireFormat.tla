---------------------------- MODULE MCWireFormat ----------------------------
(***************************************************************************)
(* The wire format with four byte values, keys and digests of one byte and *)
(* words of two: every limit can be met, exceeded by one and undercut.     *)
(***************************************************************************)
EXTENDS WireFormat

\* Not injective: the codec must not rest on that.
MCDigest(data) == <<FoldLeft(LAMBDA sum, byte : sum + byte, 0, data) % (ByteMax + 1)>>

\* A value whose neighbouring fields differ.
Sample(fields) ==
  [name \in Names(fields) |->
     LET i == CHOOSE i \in DOMAIN fields : fields[i].name = name
         width == Width[fields[i].type]
     IN  IF fields[i].type \in Numbers THEN (5 * i) % Span(width)
         ELSE [j \in 1 .. width |-> (i + j) % (ByteMax + 1)]]

MCMessages ==
  [k \in Formats |->
     CASE k = "evaluate" ->
            {[Sample(encode_request) EXCEPT !.opaque_account_count = n] : n \in {0, 1, 2}}
       [] k = "phase" ->
            {[Sample(encode_execution_binding) EXCEPT
                !.phase = p, !.phase_context_digest = context, !.opaque_account_count = n] :
              p \in Byte, context \in {<<0>>, <<3>>}, n \in {1, 2}}
       [] k = "receipt" -> {[Sample(encode_receipt) EXCEPT !.phase = p] : p \in Byte}
       [] k = "intent" -> {[Sample(encode_intent_binding) EXCEPT !.timing_mode = t] : t \in Byte}
       [] OTHER -> {Sample(Encoder[k])}]

MCPayloads == {<<>>, <<2>>, <<1, 0>>, <<0, 1>>, <<1, 1, 1>>}
MCPrograms == {<<0>>, <<3>>}
MCDescriptors ==
  [key : {<<0>>, <<3>>}, owner : {<<0>>, <<3>>},
   is_writable : BOOLEAN, is_signer : BOOLEAN, is_executable : BOOLEAN]
=============================================================================

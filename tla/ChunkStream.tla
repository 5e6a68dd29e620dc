------------------------------- MODULE ChunkStream ------------------------------
(***************************************************************************)
(* The re-signing of a streaming upload: upstream_request_filter stores a  *)
(* StreamingState (lib.rs:1171-1237) and request_body_filter               *)
(* (lib.rs:1344-1424) takes the client's aws-chunked frames apart and      *)
(* signs each payload again, one link of a chain of signatures per frame.  *)
(*                                                                         *)
(* The body arrives in pieces that have nothing to do with the frames: a   *)
(* piece may end inside a header, a payload or the CRLF behind it.  A byte *)
(* is a symbol; a size and the ";chunk-signature=..." behind it are one    *)
(* symbol each.                                                            *)
(***************************************************************************)
EXTENDS Naturals, Sequences, SequencesExt

CONSTANTS
    Symbols,      \* what bodies are made of
    SizeOf,       \* SizeOf[s]: what a symbol is read as that from_str_radix(_, 16)
                  \* takes for a number
    Uploads,      \* what clients upload, a set of sequences of frames
    MaxAttempts   \* bound on pingora's attempts at one request

\* A frame: its size as the client wrote it, and its payload.
Frame == [size : Symbols \ {";", "cr", "lf"}, payload : Seq(Symbols)]

IsNumbered(frame) == frame.size \in DOMAIN SizeOf

\* A size that is a number is the payload's; behind a last frame, one without a
\* payload, there may be trailers, but nothing that looks like another frame.
ASSUME ChunkAssumption ==
    /\ {";", "cr", "lf"} \subseteq Symbols
    /\ SizeOf \in [DOMAIN SizeOf -> Nat]
    /\ \A u \in Uploads :
         /\ u \in Seq(Frame)
         /\ \A i \in DOMAIN u : IsNumbered(u[i]) => SizeOf[u[i].size] = Len(u[i].payload)
         /\ \A i, j \in DOMAIN u :
              i < j /\ IsNumbered(u[i]) /\ u[i].payload = <<>> => ~IsNumbered(u[j])
    /\ MaxAttempts \in Nat \ {0}

VARIABLES
    upload,      \* the frames the client means to send
    wire,        \* the bytes it sends, all of them or fewer
    received,    \* how many bytes pingora handed to the filter
    ended,       \* pingora has said end_of_stream
    attempt,     \* how often pingora has begun to send the request
    active,      \* ctx.stream_state is Some
    decode_buf,  \* bytes not yet taken apart
    prior_sig,   \* the signature the next frame is chained to
    sent         \* what the backend got: payloads with their signatures

state == <<active, decode_buf, prior_sig>>
vars == <<upload, wire, received, ended, attempt, state, sent>>

CRLF == <<"cr", "lf">>

\* A frame as the client writes it.
Encode(frame) == <<frame.size, ";">> \o CRLF \o frame.payload \o CRLF

\* BytesOf(frames)[k]: the bytes of the first k frames.
BytesOf(frames) ==
    LET bytes[k \in 0..Len(frames)] ==
          IF k = 0 THEN <<>> ELSE bytes[k - 1] \o Encode(frames[k])
    IN bytes

EncodeAll(frames) == BytesOf(frames)[Len(frames)]

\* An HMAC over the signature before and the payload, as injective as can be:
\* everything signed so far, since the seed of the attempt.
Seed(n) == <<n>>
Signature(prior, payload) == Append(prior, payload)

Init ==
    /\ upload \in Uploads
    /\ \E n \in 0..Len(EncodeAll(upload)) : wire = SubSeq(EncodeAll(upload), 1, n)
    /\ received = 0
    /\ ended = FALSE
    /\ attempt = 1
    /\ active = TRUE
    /\ decode_buf = <<>>
    /\ prior_sig = Seed(1)
    /\ sent = <<>>

\* parse_aws_chunk_header: where the first line ends, and the size it gives;
\* nothing when there is no whole line, or its size is not a number.
CrlfAt(buf) == {i \in 1..(Len(buf) - 1) : SubSeq(buf, i, i + 1) = CRLF}
ParseHeader(buf) ==
    LET line == {i \in CrlfAt(buf) : \A j \in CrlfAt(buf) : i <= j} IN
    {[header_len |-> i + 1, payload_len |-> SizeOf[buf[1]]] :
        i \in {i \in line : /\ i > 1 /\ buf[1] \in DOMAIN SizeOf
                            /\ i = 2 \/ buf[2] = ";"}}

\* The header of a frame all of whose bytes are there.
WholeFrame(buf) ==
    {h \in ParseHeader(buf) : h.header_len + h.payload_len + 2 <= Len(buf)}

Payload(buf, h) == SubSeq(buf, h.header_len + 1, h.header_len + h.payload_len)
Behind(buf, h) == SubSeq(buf, h.header_len + h.payload_len + 3, Len(buf))

\* Fault: one frame is taken from a piece, the next when the next piece comes.
Decode_OneFrame(buf) ==
    IF WholeFrame(buf) = {} THEN [payloads |-> <<>>, rest |-> buf]
    ELSE LET h == CHOOSE h \in WholeFrame(buf) : TRUE
         IN  [payloads |-> IF h.payload_len = 0 THEN <<>> ELSE <<Payload(buf, h)>>,
              rest |-> Behind(buf, h)]

NoTurn(buf) == [payloads |-> <<>>, rest |-> buf, done |-> FALSE]

\* One turn of the while loop, on the payloads taken so far and what is left:
\* it ends where there is no whole frame, or behind the client's own last one.
Turn(loop) ==
    IF loop.done \/ WholeFrame(loop.rest) = {} THEN loop
    ELSE LET h == CHOOSE h \in WholeFrame(loop.rest) : TRUE
         IN  [payloads |-> IF h.payload_len = 0 THEN loop.payloads
                           ELSE Append(loop.payloads, Payload(loop.rest, h)),
              rest |-> Behind(loop.rest, h),
              done |-> h.payload_len = 0]

\* Every frame takes bytes: there are no more turns than bytes.
Turns(buf) ==
    LET turns[k \in 0..Len(buf)] ==
          IF k = 0 THEN NoTurn(buf) ELSE Turn(turns[k - 1])
    IN turns

Decode(buf) == Turns(buf)[Len(buf)]

\* Fault: every frame of a piece is chained to the signature before the piece.
SignChunks_Unchained(prior, payloads) ==
    [i \in DOMAIN payloads |->
       [payload |-> payloads[i], sig |-> Signature(prior, payloads[i])]]

\* sign_chunk for each payload in turn.
SignChunks(prior, payloads) ==
    [i \in DOMAIN payloads |->
       [payload |-> payloads[i], sig |-> prior \o SubSeq(payloads, 1, i)]]

\* request_body_filter with a body.  An empty one that is not the end returns
\* early and changes nothing.
Receive(n, end_of_stream) ==
    /\ ~ended
    /\ active
    /\ n = 0 => end_of_stream
    /\ end_of_stream => received + n = Len(wire)
    /\ received' = received + n
    /\ ended' = end_of_stream
    /\ LET decoded == Decode(decode_buf \o SubSeq(wire, received + 1, received + n))
           last == prior_sig \o decoded.payloads
           terminal == [payload |-> <<>>, sig |-> Signature(last, <<>>)]
       IN  /\ decode_buf' = decoded.rest
           /\ prior_sig' = last
           /\ sent' = sent \o SignChunks(prior_sig, decoded.payloads)
                           \o (IF end_of_stream THEN <<terminal>> ELSE <<>>)
           /\ active' = ~end_of_stream
    /\ UNCHANGED <<upload, wire, attempt>>

\* request_body_filter without a body: nothing to take, so it returns early,
\* at the end of the stream as well.
ReceiveNone ==
    /\ ~ended
    /\ received = Len(wire)
    /\ ended' = TRUE
    /\ UNCHANGED <<upload, wire, received, attempt, state, sent>>

\* Fault: a second attempt goes on with the state of the first.
Retry_KeepsState ==
    /\ attempt < MaxAttempts
    /\ attempt' = attempt + 1
    /\ received' = 0
    /\ ended' = FALSE
    /\ active' = TRUE
    /\ sent' = <<>>
    /\ UNCHANGED <<upload, wire, decode_buf, prior_sig>>

\* pingora gives up on the connection and sends the request again from its
\* first byte: upstream_request_filter signs it again and replaces the state.
Retry ==
    /\ attempt < MaxAttempts
    /\ attempt' = attempt + 1
    /\ received' = 0
    /\ ended' = FALSE
    /\ active' = TRUE
    /\ decode_buf' = <<>>
    /\ prior_sig' = Seed(attempt + 1)
    /\ sent' = <<>>
    /\ UNCHANGED <<upload, wire>>

Next ==
    \/ \E n \in 0..(Len(wire) - received), end_of_stream \in BOOLEAN :
         Receive(n, end_of_stream)
    \/ ReceiveNone
    \/ Retry

Spec == Init /\ [][Next]_vars

--------------------------------------------------------------------------------
(* Properties                                                              *)

TypeOK ==
    /\ upload \in Uploads
    /\ IsPrefix(wire, EncodeAll(upload))
    /\ received \in 0..Len(wire)
    /\ ended \in BOOLEAN
    /\ attempt \in 1..MaxAttempts
    /\ active \in BOOLEAN
    /\ decode_buf \in Seq(Symbols)
    /\ Len(decode_buf) <= received
    /\ \A i \in DOMAIN sent : sent[i].payload \in Seq(Symbols)

\* The client's chunks: what got across before its last frame, and before a
\* frame whose size is not a number or that is broken off.
IsAcross(k) ==
    /\ IsNumbered(upload[k]) /\ upload[k].payload # <<>>
    /\ Len(BytesOf(upload)[k]) <= Len(wire)
Stops == {k \in 0..Len(upload) : k < Len(upload) => ~IsAcross(k + 1)}
Chunks == [i \in 1..Min(Stops) |-> upload[i].payload]

\* What the backend got: the frame that closes the upload is the last.
IsClosing(frame) == frame.payload = <<>>
Closed == \E i \in DOMAIN sent : IsClosing(sent[i])
Relayed ==
    LET n == IF Closed /\ IsClosing(Last(sent)) THEN Len(sent) - 1 ELSE Len(sent)
    IN  [i \in 1..n |-> sent[i].payload]

\* However the body is cut into pieces, and however often it is sent again,
\* the backend gets exactly the client's chunks, in order, and the end of the
\* upload only behind the last one (lib.rs:1386-1419).
Relay == INSTANCE UploadRelay
           WITH source <- Chunks, closed <- Closed, relayed <- Relayed
ImplementsRelay == Relay!Spec

\* The backend can check every frame: each is signed over the signature of the
\* frame before it, the first over the seed of the attempt it belongs to
\* (signer.rs:1265-1275, lib.rs:1223-1237).
ChainIntact ==
    \A i \in DOMAIN sent :
        sent[i].sig = Signature(IF i = 1 THEN Seed(attempt) ELSE sent[i - 1].sig,
                                sent[i].payload)

\* lib.rs:1404: "We will emit our own terminal chunk below when
\* end_of_stream."
EndClosesUpload == ended /\ wire = EncodeAll(upload) => Closed
================================================================================

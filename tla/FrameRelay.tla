----------------------------- MODULE FrameRelay -----------------------------
(***************************************************************************)
(* One direction of a proxied connection, byte by byte: an encoding task   *)
(* (relay_local_to_remote in crates/client/src/main.rs, relay_upload in    *)
(* crates/server/src/main.rs) turns what it reads into encrypted frames, a *)
(* TCP connection carries them as a stream of bytes that arrive in pieces  *)
(* of any size, and a decoding task (relay_download in the server,         *)
(* relay_remote_to_local in the client) reassembles the frames and writes  *)
(* the plain bytes to its end.  The two pairs of functions are equal line  *)
(* by line, so this is the upload and the download direction alike.        *)
(*                                                                         *)
(* A frame is a header (12 bytes of nonce and a 16-bit length), the        *)
(* encrypted bytes and the authentication tag.  Encryption is modelled by  *)
(* what it guarantees: decode accepts a whole frame cut at its boundaries  *)
(* and nothing else.                                                       *)
(***************************************************************************)
EXTENDS Naturals, Sequences, SequencesExt

CONSTANTS
    HeaderLen,   \* 14: nonce and length
    TagLen,      \* 16: the tag of ChaCha20-Poly1305
    MaxU16,      \* the largest length a header can hold
    ReadLen,     \* the decoder's read buffer, 65536
    WireCap,     \* bound: bytes TCP holds between the two tasks
    MaxBytes,    \* bound: bytes the source sends
    Faults       \* subset of {"sourceReset", "senderDies", "wireReset", "sinkGone"}

MaxPayload == MaxU16 - TagLen

ASSUME RelayAssumption ==
    /\ HeaderLen \in Nat \ {0}
    /\ TagLen \in Nat \ {0}
    /\ MaxU16 \in Nat
    /\ MaxU16 > TagLen
    /\ ReadLen \in Nat \ {0}
    /\ WireCap \in Nat \ {0}
    /\ MaxBytes \in Nat
    /\ Faults \subseteq {"sourceReset", "senderDies", "wireReset", "sinkGone"}

\* The source sends the numbers 1, 2, 3 ... so that every byte is known by its place.
Byte == 1..MaxBytes
Cell == [part : {"header", "body", "tag"}, value : Nat]

VARIABLES
    produced,   \* history: all bytes the source has written
    closed,     \* the source has shut down its side
    source,     \* bytes the encoder has yet to read
    enc,        \* encoder: read, write, done, failed
    out,        \* the encoded frame's bytes that write_all has yet to hand to TCP
    wire,       \* bytes TCP holds
    wireEnd,    \* open, fin, rst: how the encoder's side left the connection
    dec,        \* decoder: read, parse, deliver, done, failed
    leftover,   \* bytes read but not yet parsed
    plain,      \* a decoded payload that is being written
    sink,       \* all bytes the sink has received
    ended,      \* the sink has seen the end of the stream
    broken      \* history: a fault has happened

encVars == <<produced, closed, source, enc, out>>
decVars == <<dec, leftover, plain, sink, ended>>
vars    == <<encVars, wire, wireEnd, decVars, broken>>

TypeOK ==
    /\ produced \in Seq(Byte)
    /\ closed \in BOOLEAN
    /\ source \in Seq(Byte)
    /\ enc \in {"read", "write", "done", "failed"}
    /\ out \in Seq(Cell)
    /\ wire \in Seq(Cell)
    /\ wireEnd \in {"open", "fin", "rst"}
    /\ dec \in {"read", "parse", "deliver", "done", "failed"}
    /\ leftover \in Seq(Cell)
    /\ plain \in Seq(Byte)
    /\ sink \in Seq(Byte)
    /\ ended \in BOOLEAN
    /\ broken \in BOOLEAN

Init ==
    /\ produced = <<>>
    /\ closed = FALSE
    /\ source = <<>>
    /\ enc = "read"
    /\ out = <<>>
    /\ wire = <<>>
    /\ wireEnd = "open"
    /\ dec = "read"
    /\ leftover = <<>>
    /\ plain = <<>>
    /\ sink = <<>>
    /\ ended = FALSE
    /\ broken = FALSE

-----------------------------------------------------------------------------
(* Frame::encode and Frame::decode.                                        *)

Run(part, n, value) == [i \in 1..n |-> [part |-> part, value |-> value]]

Body(payload) == [i \in DOMAIN payload |-> [part |-> "body", value |-> payload[i]]]

\* Encodable: "payload too large" otherwise.
Encodable(payload) == Len(payload) <= MaxPayload

\* The header holds the length of the ciphertext, tag included.
Encode(payload) ==
    Run("header", HeaderLen, Len(payload) + TagLen) \o Body(payload) \o Run("tag", TagLen, 0)

CipherLen(bytes) == bytes[HeaderLen].value

\* The whole of bytes is one frame as encode makes it.
Decodable(bytes) ==
    LET size == Len(bytes) - HeaderLen - TagLen
    IN  /\ size >= 0
        /\ \A i \in DOMAIN bytes :
             bytes[i].part = IF i <= HeaderLen THEN "header"
                             ELSE IF i <= HeaderLen + size THEN "body" ELSE "tag"

Decode_WithTag(bytes) ==
    [i \in 1 .. Len(bytes) - HeaderLen |-> bytes[HeaderLen + i].value]
Decode(bytes) ==
    [i \in 1 .. Len(bytes) - HeaderLen - TagLen |-> bytes[HeaderLen + i].value]

-----------------------------------------------------------------------------
(* The application that sends.                                             *)

SourceWrites ==
    /\ ~closed
    /\ Len(produced) < MaxBytes
    /\ produced' = Append(produced, Len(produced) + 1)
    /\ source' = Append(source, Len(produced) + 1)
    /\ UNCHANGED <<closed, enc, out, wire, wireEnd, decVars, broken>>

SourceCloses ==
    /\ ~closed
    /\ closed' = TRUE
    /\ UNCHANGED <<produced, source, enc, out, wire, wireEnd, decVars, broken>>

-----------------------------------------------------------------------------
(* The encoding task.                                                      *)

\* A read fills at most a buffer of MaxPayload bytes.
ReadLimit_WholeU16 == MaxU16
ReadLimit == MaxPayload

EncRead ==
    /\ enc = "read"
    /\ \E n \in 1..ReadLimit :
       /\ n <= Len(source)
       /\ LET payload == SubSeq(source, 1, n)
          IN  /\ source' = SubSeq(source, n + 1, Len(source))
              /\ IF Encodable(payload)
                 THEN /\ out' = Encode(payload)
                      /\ enc' = "write"
                      /\ UNCHANGED wireEnd
                 ELSE /\ enc' = "failed"
                      /\ wireEnd' = IF wireEnd = "open" THEN "fin" ELSE wireEnd
                      /\ UNCHANGED out
    /\ UNCHANGED <<produced, closed, wire, decVars, broken>>

\* write_all hands the frame to TCP as room appears.
EncWrite ==
    /\ enc = "write"
    /\ wireEnd = "open"
    /\ \E n \in 1..Len(out) :
       /\ Len(wire) + n <= WireCap
       /\ wire' = wire \o SubSeq(out, 1, n)
       /\ out' = SubSeq(out, n + 1, Len(out))
       /\ enc' = IF n = Len(out) THEN "read" ELSE "write"
    /\ UNCHANGED <<produced, closed, source, wireEnd, decVars, broken>>

\* The source's end of file: shutdown.
EncShutdown_HalfOpen ==
    /\ enc = "read"
    /\ source = <<>>
    /\ closed
    /\ wireEnd = "open"
    /\ enc' = "done"
    /\ UNCHANGED <<produced, closed, source, out, wire, wireEnd, decVars, broken>>
EncShutdown ==
    /\ enc = "read"
    /\ source = <<>>
    /\ closed
    /\ wireEnd = "open"
    /\ enc' = "done"
    /\ wireEnd' = "fin"
    /\ UNCHANGED <<produced, closed, source, out, wire, decVars, broken>>

\* The source's connection breaks: the task returns the error and drops its write
\* half, which ends the stream as a shutdown would.
EncReadFails ==
    /\ "sourceReset" \in Faults
    /\ enc = "read"
    /\ enc' = "failed"
    /\ wireEnd' = IF wireEnd = "open" THEN "fin" ELSE wireEnd
    /\ broken' = TRUE
    /\ UNCHANGED <<produced, closed, source, out, wire, decVars>>

\* The connection was reset: the encoder notices when it writes or shuts down.
EncWriteFails ==
    /\ enc = "write" \/ (enc = "read" /\ source = <<>> /\ closed)
    /\ wireEnd = "rst"
    /\ enc' = "failed"
    /\ UNCHANGED <<produced, closed, source, out, wire, wireEnd, decVars, broken>>

\* The process of the encoder ends; its kernel closes the connection.
SenderDies ==
    /\ "senderDies" \in Faults
    /\ enc \in {"read", "write"}
    /\ enc' = "failed"
    /\ out' = <<>>
    /\ wireEnd' = IF wireEnd = "open" THEN "fin" ELSE wireEnd
    /\ broken' = TRUE
    /\ UNCHANGED <<produced, closed, source, wire, decVars>>

\* The connection is reset; what was under way is lost.
WireReset ==
    /\ "wireReset" \in Faults
    /\ wireEnd # "rst"
    /\ wireEnd' = "rst"
    /\ wire' = <<>>
    /\ broken' = TRUE
    /\ UNCHANGED <<encVars, decVars>>

-----------------------------------------------------------------------------
(* The decoding task.                                                      *)

DecRead ==
    /\ dec = "read"
    /\ \E n \in 1..ReadLen :
       /\ n <= Len(wire)
       /\ leftover' = leftover \o SubSeq(wire, 1, n)
       /\ wire' = SubSeq(wire, n + 1, Len(wire))
    /\ dec' = "parse"
    /\ UNCHANGED <<encVars, wireEnd, plain, sink, ended, broken>>

\* The inner loop: a frame is complete when the length its header holds is there.
FrameEnd == HeaderLen + CipherLen(leftover)
Incomplete == Len(leftover) >= HeaderLen => Len(leftover) < FrameEnd

DecParse ==
    /\ dec = "parse"
    /\ ~Incomplete
    /\ LET bytes == SubSeq(leftover, 1, FrameEnd)
       IN  IF Decodable(bytes)
           THEN /\ plain' = Decode(bytes)
                /\ dec' = "deliver"
           ELSE /\ dec' = "failed"
                /\ UNCHANGED plain
    /\ UNCHANGED <<encVars, wire, wireEnd, leftover, sink, ended, broken>>

DecNeedsMore ==
    /\ dec = "parse"
    /\ Incomplete
    /\ dec' = "read"
    /\ UNCHANGED <<encVars, wire, wireEnd, leftover, plain, sink, ended, broken>>

\* write_all of the payload, then drain of the frame, and the inner loop goes on.
DecDeliver_OneFramePerRead ==
    /\ dec = "deliver"
    /\ sink' = sink \o plain
    /\ plain' = <<>>
    /\ leftover' = SubSeq(leftover, FrameEnd + 1, Len(leftover))
    /\ dec' = "read"
    /\ UNCHANGED <<encVars, wire, wireEnd, ended, broken>>
DecDeliver ==
    /\ dec = "deliver"
    /\ sink' = sink \o plain
    /\ plain' = <<>>
    /\ leftover' = SubSeq(leftover, FrameEnd + 1, Len(leftover))
    /\ dec' = "parse"
    /\ UNCHANGED <<encVars, wire, wireEnd, ended, broken>>

\* The sink closes while a payload is being written: part of it may have arrived.
DecWriteFails_Retried ==
    /\ "sinkGone" \in Faults
    /\ dec = "deliver"
    /\ \E n \in 0..Len(plain) : sink' = sink \o SubSeq(plain, 1, n)
    /\ broken' = TRUE
    /\ UNCHANGED <<encVars, wire, wireEnd, dec, leftover, plain, ended>>
DecWriteFails ==
    /\ "sinkGone" \in Faults
    /\ dec = "deliver"
    /\ \E n \in 0..Len(plain) : sink' = sink \o SubSeq(plain, 1, n)
    /\ dec' = "failed"
    /\ broken' = TRUE
    /\ UNCHANGED <<encVars, wire, wireEnd, leftover, plain, ended>>

\* End of file: shutdown of the sink's side; an incomplete frame is dropped silently.
DecShutdown ==
    /\ dec = "read"
    /\ wire = <<>>
    /\ wireEnd = "fin"
    /\ dec' = "done"
    /\ ended' = TRUE
    /\ UNCHANGED <<encVars, wire, wireEnd, leftover, plain, sink, broken>>

DecReadFails ==
    /\ dec = "read"
    /\ wireEnd = "rst"
    /\ dec' = "failed"
    /\ UNCHANGED <<encVars, wire, wireEnd, leftover, plain, sink, ended, broken>>

\* A task that returns an error drops the sink's write half: the sink cannot tell it
\* from a shutdown.
DecDrops ==
    /\ dec = "failed"
    /\ ~ended
    /\ ended' = TRUE
    /\ UNCHANGED <<encVars, wire, wireEnd, dec, leftover, plain, sink, broken>>

Encoder == EncRead \/ EncWrite \/ EncShutdown \/ EncWriteFails
Decoder == DecRead \/ DecParse \/ DecNeedsMore \/ DecDeliver \/ DecShutdown
              \/ DecReadFails \/ DecDrops
Fault == EncReadFails \/ SenderDies \/ WireReset \/ DecWriteFails

Next == SourceWrites \/ SourceCloses \/ Encoder \/ Decoder \/ Fault

Spec == Init /\ [][Next]_vars

\* tokio runs both tasks, TCP moves what it holds; the source owes nobody anything.
FairSpec == Spec /\ WF_vars(Encoder) /\ WF_vars(Decoder)

-----------------------------------------------------------------------------
(* Properties.                                                             *)

\* What the relay promises to the applications.  A fault ends the sink's stream early and
\* cannot be told from a proper end.
Stream == INSTANCE ByteStream WITH consumed <- sink

\* The relay implements the byte stream: no chunking of reads, writes or TCP segments
\* loses, repeats or reorders a byte, and the end comes last unless a fault came before it.
ImplementsByteStream == Stream!Spec

\* Unless something outside breaks, no task ends with an error: the read buffer never
\* exceeds what encode accepts, the parser never looks at a frame's inside.
NoSpuriousFailure == ~broken => enc # "failed" /\ dec # "failed"

\* A byte the source wrote reaches the sink although no further byte follows it: no
\* task sits on a frame that it has (the inner loop of relay_download).
BytesArrive == \A n \in Byte : Len(produced) >= n ~> Len(sink) >= n \/ broken

\* However the stream ends or breaks, the sink sees its end, unless it broke itself.
CloseArrives == closed \/ wireEnd # "open" ~> ended

=============================================================================

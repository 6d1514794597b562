---- MODULE Upload ----
(***************************************************************************)
(* The body of one PutObject, from the wire to the object: the middleware  *)
(* authenticate with its ObservingBody and ChunkDecoder, and the digests   *)
(* that put_object checks once the object is stored.                       *)
(*                                                                         *)
(* A body on the wire is a sequence of tokens: a byte of the content, CR,  *)
(* LF, and a chunk header in two halves, the second of which ends the      *)
(* line.  It may come in pieces cut anywhere.  A digest is what it is the  *)
(* digest of: the signature of a chunk is the list of the chunks up to it, *)
(* and a signature of nothing is the list of none.                         *)
(* The signature over the request itself is in Credentials.                *)
(***************************************************************************)
EXTENDS Integers, SequencesExt

CONSTANTS Byte,     \* bytes of contents
          Chunked,  \* the contents that are sent, as the chunks they are sent in
          Claims    \* sizes that a chunk header may claim

ASSUME ChunkedAssumption == Chunked \subseteq Seq(Seq(Byte) \ {<<>>})
ASSUME ClaimsAssumption == Claims \subseteq Nat

VARIABLES sent,      \* the chunks the client meant to send
          header,    \* how it declares them: x-amz-content-sha256
          md5,       \* whether it gives their Content-MD5
          wire,      \* what of the body is still to come
          received,  \* the bytes ObservingBody has hashed
          decoder,   \* the ChunkDecoder
          stored,    \* what the body stream has yielded: the staged object
          answer,    \* "none", "receiving", "installed", then the response
          faulty     \* history: the body was changed or its connection broken

upload == <<sent, header, md5, wire, received, decoder, stored, answer, faulty>>

(***************************************************************************)
(* The body as a client sends it.                                          *)
(***************************************************************************)
Opening == [kind |-> "open"]
Garbled == [kind |-> "garbled"]  \* bytes that are no UTF-8
CR == [kind |-> "cr"]
LF == [kind |-> "lf"]
Line(size, sig) == [kind |-> "line", size |-> size, sig |-> sig]
Token(b) == [kind |-> "byte", value |-> b]

Data(chunk) == [i \in DOMAIN chunk |-> Token(chunk[i])]
Contents(chunks) == FlattenSeq([i \in DOMAIN chunks |-> Data(chunks[i])])

\* The chunks up to number i, which is what signature i stands for.
Chain(chunks, i) == [j \in 1 .. i |-> IF j > Len(chunks) THEN <<>> ELSE Data(chunks[j])]

Frame(chunks, i) == <<Opening, Line(IF i > Len(chunks) THEN 0 ELSE Len(chunks[i]), Chain(chunks, i))>>
                    \o (IF i > Len(chunks) THEN <<>> ELSE Data(chunks[i])) \o <<CR, LF>>

\* The frames in some order, the last one being empty.
Framed(chunks, order) == FlattenSeq([i \in DOMAIN order |-> Frame(chunks, order[i])])

IsFramed(h) == h \in {"STREAMING-AWS4-HMAC-SHA256-PAYLOAD", "STREAMING-UNSIGNED-PAYLOAD-TRAILER"}

Body(chunks, h) ==
  IF IsFramed(h) THEN Framed(chunks, [i \in 1 .. Len(chunks) + 1 |-> i]) ELSE Contents(chunks)

\* What may arrive in its place.  Chunks are lost, repeated or in another order.
Misordered(chunks) == {Framed(chunks, order) : order \in UNION {[1 .. n -> 1 .. Len(chunks) + 1] :
                                                                n \in 1 .. Len(chunks) + 1}}

\* Or the body is cut off somewhere, or not at all; a byte is lost or changed; a header
\* claims a wrong size or one that is no number, has another signature, is no text or
\* only the end of its line.
At(body, kinds) == {i \in DOMAIN body : body[i].kind \in kinds}
SignaturesOf(chunks) == {Chain(chunks, i) : i \in 0 .. Len(chunks) + 1}
Harmed(body, chunks) ==
  {SubSeq(body, 1, n) : n \in 0 .. Len(body)}
  \cup {RemoveAt(body, i) : i \in At(body, {"byte", "cr", "lf"})}
  \cup {[body EXCEPT ![p[1]] = Token(p[2])] : p \in At(body, {"byte"}) \X Byte}
  \cup {[body EXCEPT ![p[1]].size = p[2]] : p \in At(body, {"line"}) \X (Claims \cup {-1})}
  \cup {[body EXCEPT ![p[1]].sig = p[2]] : p \in At(body, {"line"}) \X SignaturesOf(chunks)}
  \cup {[body EXCEPT ![i] = Garbled] : i \in At(body, {"open"})}
  \cup {[body EXCEPT ![i] = CR, ![i + 1] = LF] : i \in At(body, {"open"})}

(***************************************************************************)
(* ChunkDecoder.  A call of push takes a piece token by token; what is left *)
(* of it in the end is in buf, and what it yields is in out.                *)
(***************************************************************************)
NewDecoder == [state |-> "header", buf |-> <<>>, remaining |-> 0, pending |-> <<>>,
               data |-> <<>>, prev |-> <<>>, finished |-> FALSE, error |-> FALSE, out |-> <<>>]

\* verify_chunk.
Verified(d, data) == d.pending = Append(d.prev, data)

Fail(d) == [d EXCEPT !.error = TRUE]

\* parse_chunk_header waits for more without an end of line, and also, for ever, after
\* a first line that is empty or no text.
Waits(text) == \/ text[1] = Garbled
               \/ Len(text) > 1 /\ <<text[1], text[2]>> = <<CR, LF>>
               \/ \A i \in DOMAIN text : /\ text[i].kind # "line"
                                         /\ i > 1 => <<text[i - 1], text[i]>> # <<CR, LF>>

\* The last chunk ends the body before its signature is looked at.
ReadHeader(d, t) ==
  LET text == Append(d.buf, t)
      p == [d EXCEPT !.buf = <<>>, !.pending = t.sig, !.remaining = t.size]
      last == [p EXCEPT !.state = "done", !.finished = TRUE]
      read == text = <<Opening, t>> /\ t.size >= 0
  IN  IF Waits(text) THEN [d EXCEPT !.buf = text]
      ELSE IF ~read THEN Fail(d)
      ELSE IF t.size > 0 THEN [p EXCEPT !.state = "chunk"]
      ELSE IF Verified(last, <<>>) THEN [last EXCEPT !.prev = t.sig] ELSE Fail(last)

\* Mutant: only the last chunk is verified.
ReadChunkUnverified(d, t) ==
  LET p == [d EXCEPT !.data = Append(@, t), !.out = Append(@, t), !.remaining = @ - 1]
  IN  IF p.remaining > 0 THEN p
      ELSE [p EXCEPT !.state = "trailer", !.prev = d.pending, !.data = <<>>]

ReadChunk(d, t) ==
  LET p == [d EXCEPT !.data = Append(@, t), !.out = Append(@, t), !.remaining = @ - 1]
  IN  IF p.remaining > 0 THEN p
      ELSE IF Verified(d, p.data)
      THEN [p EXCEPT !.state = "trailer", !.prev = d.pending, !.data = <<>>]
      ELSE Fail(p)

ReadTrailer(d, t) ==
  CASE d.buf = <<>> -> [d EXCEPT !.buf = <<t>>]
    [] d.buf # <<>> /\ <<d.buf[1], t>> = <<CR, LF>> -> [d EXCEPT !.state = "header", !.buf = <<>>]
    [] OTHER -> Fail(d)

\* After an error nobody calls the decoder again; where it stands then is left out.
Decode(d, t) == IF d.error \/ d.finished THEN d
                ELSE CASE d.state = "header" -> ReadHeader(d, t)
                       [] d.state = "chunk" -> ReadChunk(d, t)
                       [] d.state = "trailer" -> ReadTrailer(d, t)

\* Once the last chunk has been read, calls return at once.
Push(d, piece) == IF d.finished THEN [d EXCEPT !.out = <<>>, !.error = FALSE]
                  ELSE FoldLeft(Decode, [d EXCEPT !.out = <<>>], piece)

(***************************************************************************)
(* The request.                                                            *)
(***************************************************************************)
\* parse_payload_sha; a presigned request is unsigned whatever it declares.
Mode(h) == CASE h = "STREAMING-AWS4-HMAC-SHA256-PAYLOAD" -> "StreamingSigned"
             [] h = "STREAMING-UNSIGNED-PAYLOAD-TRAILER" -> "StreamingUnsigned"
             [] h = "hash" -> "SignedFull"
             [] h \in {"presigned", "UNSIGNED-PAYLOAD"} -> "Unsigned"
             [] h \in {"absent", "other"} -> "InvalidArgument"

Headers == {"STREAMING-AWS4-HMAC-SHA256-PAYLOAD", "STREAMING-UNSIGNED-PAYLOAD-TRAILER", "hash",
            "presigned", "UNSIGNED-PAYLOAD", "absent", "other"}

UploadInit ==
  /\ sent \in Chunked /\ header \in Headers /\ md5 \in BOOLEAN
  /\ wire \in Harmed(Body(sent, header), sent) \cup (IF IsFramed(header) THEN Misordered(sent) ELSE {})
  /\ faulty = (wire # Body(sent, header))
  /\ received = <<>> /\ decoder = NewDecoder /\ stored = <<>>
  /\ answer = "none"

Authenticate ==
  /\ answer = "none"
  /\ answer' = IF Mode(header) = "InvalidArgument" THEN "InvalidArgument" ELSE "receiving"
  /\ UNCHANGED <<sent, header, md5, wire, received, decoder, stored, faulty>>

\* Mutant: what the decoder holds back at the end of a piece is lost.
NextDecoderFresh(piece) == [Push(decoder, piece) EXCEPT !.buf = <<>>]

\* The decoder after the next piece.
NextDecoder(piece) == IF Mode(header) = "StreamingSigned" THEN Push(decoder, piece) ELSE decoder

\* Mutant: what a finished decoder answers does not count.
PollUnlessFinished ==
  /\ answer = "receiving" /\ wire # <<>>
  /\ \E n \in 1 .. Len(wire) : \E piece \in {SubSeq(wire, 1, n)} : \E d \in {NextDecoder(piece)} :
       /\ wire' = SubSeq(wire, n + 1, Len(wire))
       /\ received' = received \o piece
       /\ decoder' = [d EXCEPT !.out = <<>>]
       /\ answer' = IF d.error /\ ~d.finished THEN "SignatureOrArgument" ELSE answer
       /\ stored' = IF Mode(header) = "StreamingSigned" THEN stored \o d.out ELSE stored \o piece
  /\ UNCHANGED <<sent, header, md5, faulty>>

\* poll_next of ObservingBody: with a decoder, a piece yields what it decodes to, or
\* an error that ends the body and discards what the piece has yielded so far.
Poll ==
  /\ answer = "receiving" /\ wire # <<>>
  /\ \E n \in 1 .. Len(wire) : \E piece \in {SubSeq(wire, 1, n)} : \E d \in {NextDecoder(piece)} :
       /\ wire' = SubSeq(wire, n + 1, Len(wire))
       /\ received' = received \o piece
       /\ decoder' = [d EXCEPT !.out = <<>>]
       /\ answer' = IF d.error THEN "SignatureOrArgument" ELSE answer
       /\ stored' = CASE Mode(header) # "StreamingSigned" -> stored \o piece
                      [] Mode(header) = "StreamingSigned" /\ ~d.error -> stored \o d.out
                      [] OTHER -> stored
  /\ UNCHANGED <<sent, header, md5, faulty>>

\* The connection breaks; the body ends with an error and nothing is installed.
Break == /\ answer = "receiving"
         /\ answer' = "InternalError"
         /\ faulty' = TRUE
         /\ UNCHANGED <<sent, header, md5, wire, received, decoder, stored>>

\* The body ends; the storage engine installs what it has staged.
Install == /\ answer = "receiving" /\ wire = <<>>
           /\ answer' = "installed"
           /\ UNCHANGED <<sent, header, md5, wire, received, decoder, stored, faulty>>

\* The digests of check_body_state that are given: of what was received, and of what
\* is stored.
Checked(mode) == /\ mode = "SignedFull" => received = Contents(sent)
                 /\ md5 => stored = Contents(sent)

\* An object that fails the check is deleted again.
Check == /\ answer = "installed"
         /\ answer' = IF Checked(Mode(header)) THEN "OK" ELSE "Digest"
         /\ UNCHANGED <<sent, header, md5, wire, received, decoder, stored, faulty>>

UploadNext == Authenticate \/ Poll \/ Break \/ Install \/ Check

UploadSpec == UploadInit /\ [][UploadNext]_upload

----
\* The types of the variables.  The decoder holds back nothing of a chunk and half a CRLF
\* at the most.
UploadTypeOK ==
  /\ answer \in {"none", "receiving", "installed", "OK", "Digest", "InvalidArgument",
                 "SignatureOrArgument", "InternalError"}
  /\ decoder.state \in {"header", "chunk", "trailer", "done"}
  /\ decoder.state = "chunk" => decoder.buf = <<>>
  /\ decoder.state = "trailer" => Len(decoder.buf) <= 1
  /\ decoder.remaining \in Nat /\ decoder.out = <<>>
  /\ decoder.finished <=> decoder.state = "done"

\* An upload that is acknowledged has been stored as the client meant it, whatever of
\* Harmed or Misordered befell it, if its payload was signed as a whole, if it came with
\* a Content-MD5, or if its chunks were signed and the last one was seen: an error of
\* the last chunk counts although the body has ended.  A body of signed chunks that
\* ends early, without an error, is acknowledged.
SignedUploadsAreWhole ==
  answer = "OK" /\ (Mode(header) = "SignedFull" \/ md5 \/ decoder.finished) => stored = Contents(sent)

\* However the body is cut into pieces, what is stored of signed chunks begins with
\* chunks that the client has sent, in their order; only what follows them, data of
\* the chunk that is being read, may be anything.
VerifiedIsPrefix ==
  Mode(header) = "StreamingSigned" /\ ~decoder.error =>
    \E i \in 0 .. Len(sent) : stored = Contents(SubSeq(sent, 1, i)) \o decoder.data

\* A body that arrives as it was sent is stored whole and acknowledged, however it is
\* cut into pieces.  One of unsigned chunks is not: it is stored with its framing.
HonestUploadsSucceed ==
  ~faulty /\ Mode(header) \notin {"StreamingUnsigned", "InvalidArgument"} =>
    /\ answer \in {"none", "receiving", "installed", "OK"}
    /\ answer = "OK" => stored = Contents(sent)
====

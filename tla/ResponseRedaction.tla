-------------------------- MODULE ResponseRedaction --------------------------
(***************************************************************************)
(* How an upstream response body reaches the caller: proxy_request of      *)
(* src/src/server.rs with the RedactionSet and StreamingRedactor of        *)
(* crates/av-credential-proxy/src/redaction.rs.                            *)
(*                                                                         *)
(* A route is buffered or streaming.  Either way AV must not return a      *)
(* credential in any of its encodings, however the upstream cuts the body  *)
(* into chunks.  Bytes are members of a small alphabet; the encodings      *)
(* (Base64, percent, JSON) are library code, so they are a parameter.      *)
(***************************************************************************)
EXTENDS Integers, Sequences, SequencesExt

CONSTANTS
    Bytes,              \* what a body is made of
    Marker,             \* "[REDACTED]", a sequence of other bytes
    Encodings(_),       \* credential_encodings: a secret to its patterns
    SecretLists,        \* the sequences of sensitive values to consider
    MaxResponseBytes,   \* max_response_bytes of the route
    MaxBody,            \* bound: bytes the upstream sends
    MaxChunk            \* bound: bytes in a chunk

ASSUME RedactionAssumption ==
    /\ \A i \in 1..Len(Marker) : Marker[i] \notin Bytes
    /\ Marker # <<>>
    /\ MaxResponseBytes \in Nat /\ MaxBody \in Nat /\ MaxChunk \in Nat \ {0}

VARIABLES
    secrets,        \* the sensitive values of the prepared request
    responseMode,   \* "buffered" or "streaming"
    body,           \* bytes received from the upstream
    pending,        \* StreamingRedactor.pending, or the buffer
    returned,       \* bytes handed to the caller
    responseState   \* "open", "done", "failed"

responseVars ==
    <<secrets, responseMode, body, pending, returned, responseState>>
-----------------------------------------------------------------------------
(* RedactionSet::new                                                       *)

RawPatterns(list) ==
    SelectSeq(FlattenSeq([i \in 1..Len(list) |-> Encodings(list[i])]),
              LAMBDA p : p # <<>>)

\* unwrap_or(1) for a set without patterns.
MaximumPatternLength(list) ==
    LET lengths == {Len(p) : p \in ToSet(RawPatterns(list))}
    IN  IF lengths = {} THEN 1 ELSE CHOOSE n \in lengths : \A m \in lengths : m <= n

\* sort_by_key(Reverse(len)) is stable: longest first, then in order.
Patterns(list) ==
    LET raw == RawPatterns(list)
        max == MaximumPatternLength(list)
    IN  FlattenSeq([i \in 1..max |->
                       SelectSeq(raw, LAMBDA p : Len(p) = max + 1 - i)])

From(s, i) == SubSeq(s, i + 1, Len(s))

Occurs(p, s) == \E i \in 0..Len(s) - Len(p) : IsPrefix(p, From(s, i))

RedactExact(s, p) ==
    LET rest[offset \in 0..Len(s)] ==
            LET found == {i \in offset..Len(s) - Len(p) : IsPrefix(p, From(s, i))}
                first == CHOOSE i \in found : \A j \in found : i <= j
            IN  IF found = {} THEN From(s, offset)
                ELSE SubSeq(s, offset + 1, first) \o Marker \o rest[first + Len(p)]
    IN  rest[0]

RedactBytes(list, s) == FoldLeft(RedactExact, s, Patterns(list))
-----------------------------------------------------------------------------
(* StreamingRedactor                                                       *)

\* Mutation: the overlap is one byte too short.
SafeLimitHoldsLess(list, buffer, finished) ==
    LET overlap == IF MaximumPatternLength(list) > 1 THEN MaximumPatternLength(list) - 2 ELSE 0
    IN  IF finished \/ Len(buffer) < overlap THEN Len(buffer) ELSE Len(buffer) - overlap

\* Mutation: every chunk is passed on whole.
SafeLimitHoldsNothing(list, buffer, finished) == Len(buffer)

SafeLimit(list, buffer, finished) ==
    IF finished THEN Len(buffer)
    ELSE IF Len(buffer) < MaximumPatternLength(list) THEN 0
    ELSE Len(buffer) - (MaximumPatternLength(list) - 1)

\* emit: what is returned and how much of the buffer it stands for.
Emit(list, buffer, finished) ==
    LET limit == SafeLimit(list, buffer, finished)
        patterns == Patterns(list)
        scan[consumed \in 0..Len(buffer)] ==
            LET k == SelectInSeq(patterns,
                                 LAMBDA p : IsPrefix(p, From(buffer, consumed)))
                next == IF k > 0 THEN consumed + Len(patterns[k]) ELSE consumed + 1
                head == IF k > 0 THEN Marker ELSE <<buffer[consumed + 1]>>
            IN  IF consumed >= limit THEN [output |-> <<>>, consumed |-> consumed]
                ELSE [output |-> head \o scan[next].output,
                      consumed |-> scan[next].consumed]
    IN  scan[0]
-----------------------------------------------------------------------------
(* proxy_request, after the upstream has answered                          *)

ResponseInit ==
    /\ secrets \in SecretLists
    /\ responseMode \in {"buffered", "streaming"}
    /\ body = <<>> /\ pending = <<>> /\ returned = <<>>
    /\ responseState = "open"

Chunks == UNION {[1..n -> Bytes] : n \in 1..MaxChunk}

OverLimit(chunk) == Len(body) + Len(chunk) > MaxResponseBytes

\* The buffered loop: nothing leaves AV before the upstream is done.
BufferChunk(chunk) ==
    /\ responseMode = "buffered" /\ responseState = "open"
    /\ body' = body \o chunk
    /\ IF OverLimit(chunk)
       THEN responseState' = "failed" /\ pending' = pending
       ELSE responseState' = "open" /\ pending' = pending \o chunk
    /\ UNCHANGED <<secrets, responseMode, returned>>

ReturnBuffered ==
    /\ responseMode = "buffered" /\ responseState = "open"
    /\ returned' = RedactBytes(secrets, pending)
    /\ pending' = <<>> /\ responseState' = "done"
    /\ UNCHANGED <<secrets, responseMode, body>>

\* The streaming loop: an oversized body ends in an error of the body stream.
StreamChunk(chunk) ==
    /\ responseMode = "streaming" /\ responseState = "open"
    /\ body' = body \o chunk
    /\ IF OverLimit(chunk)
       THEN /\ responseState' = "failed"
            /\ UNCHANGED <<pending, returned>>
       ELSE LET emitted == Emit(secrets, pending \o chunk, FALSE)
            IN  /\ returned' = returned \o emitted.output
                /\ pending' = From(pending \o chunk, emitted.consumed)
                /\ UNCHANGED responseState
    /\ UNCHANGED <<secrets, responseMode>>

FinishStream ==
    /\ responseMode = "streaming" /\ responseState = "open"
    /\ returned' = returned \o Emit(secrets, pending, TRUE).output
    /\ pending' = <<>> /\ responseState' = "done"
    /\ UNCHANGED <<secrets, responseMode, body>>

\* The declared length is too large, the upstream connection breaks, or the
\* dynamic lease cannot be released when the body ends.
ResponseFails ==
    /\ responseState = "open"
    /\ responseState' = "failed"
    /\ UNCHANGED <<secrets, responseMode, body, pending, returned>>

ResponseNext ==
    \/ \E chunk \in Chunks :
          /\ Len(body) + Len(chunk) <= MaxBody
          /\ BufferChunk(chunk) \/ StreamChunk(chunk)
    \/ ReturnBuffered
    \/ FinishStream
    \/ ResponseFails

ResponseSpec == ResponseInit /\ [][ResponseNext]_responseVars
-----------------------------------------------------------------------------
(* Properties                                                              *)

\* Neither mode ever returns a credential in one of its encodings, also when
\* chunks split it, patterns overlap or one is a prefix of another
\* (StreamingRedactor::emit, RedactionSet::redact_bytes).
NoCredentialReturned ==
    \A i \in 1..Len(Patterns(secrets)) : ~Occurs(Patterns(secrets)[i], returned)

\* What a streaming caller has received, with what finishing now would add,
\* is what the whole body in a single chunk would give: the cuts made by the
\* upstream do not show, and no byte is lost or repeated (emit).
ChunkingInvisible ==
    (responseMode = "streaming" /\ responseState = "open") =>
        returned \o Emit(secrets, pending, TRUE).output
            = Emit(secrets, body, TRUE).output

\* Between chunks the redactor holds back less than one longest pattern, so a
\* streaming response never turns into a buffered one ("retains only the
\* largest possible overlap").
RetainsOnlyOverlap ==
    responseMode = "streaming" => Len(pending) < MaximumPatternLength(secrets)

(* Redacting a stream changes neither what arrives nor, by more than the   *)
(* overlap, when (StreamingRedactor).                                      *)
StreamingFaithful == ChunkingInvisible /\ RetainsOnlyOverlap
=============================================================================

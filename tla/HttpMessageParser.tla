----------------------------- MODULE HttpMessageParser -----------------------------
(***************************************************************************)
(* The HTTP/1.x message parser, a character at a time (consume), under the *)
(* loop of the Transaction's read handlers, which feeds it one buffer and  *)
(* calls parse() again after each change of phase.                         *)
(*                                                                         *)
(* A character is its class.  Of a header only what decides the framing is *)
(* kept: whether some Transfer-Encoding lists "chunked", and the values of *)
(* Content-Length.  A body is its number of bytes.  remaining_ has the     *)
(* width of its type: it counts modulo Modulus (2^64 in the code).         *)
(***************************************************************************)
EXTENDS Notifications, Integers, Sequences, SequencesExt

CONSTANTS Radix,       \* of a chunk's length: 16 in the code
          Modulus,     \* of remaining_: 2^64 in the code
          Lengths,     \* values of Content-Length to consider
          MaxBuffer,   \* bound: bytes one read returns
          MaxHeaders,  \* bound: header fields
          MaxDigits,   \* bound: digits of a chunk's length
          MaxChunks    \* bound: chunks after the first

ASSUME ParserAssumption ==
  /\ {Radix, Modulus, MaxBuffer, MaxHeaders, MaxDigits, MaxChunks} \subseteq Nat
  /\ Radix > 0 /\ Radix <= Modulus
  /\ Lengths \subseteq 0 .. (Modulus - 1)

--------------------------------------------------------------------------------
\* Classes of characters, and the predicates of the code as sets of classes.
Chars == { "H", "T", "P", "digit", "hex", "token", ".", "/", ":", ";",
           "tspecial", "SP", "HT", "CR", "LF", "ctl", "high" }

is_char     == Chars \ {"high"}
is_ctl      == {"HT", "CR", "LF", "ctl"}
is_tspecial == {"/", ":", ";", "tspecial", "SP", "HT"}
is_hex      == {"digit", "hex"}
Token       == is_char \ (is_ctl \cup is_tspecial)

\* The transitions that depend on the character alone.
Arrow(from, on, to) == {from} \X on \X {to}

Arrows == UNION {
  Arrow("method_start", Token, "method"),
  Arrow("method", Token, "method"),
  Arrow("method", {"SP"}, "uri"),
  Arrow("uri", Chars \ (is_ctl \cup {"SP"}), "uri"),
  Arrow("uri", {"SP"}, "http_version_h"),
  Arrow("http_version_h", {"H"}, "http_version_t1"),
  Arrow("http_version_t1", {"T"}, "http_version_t2"),
  Arrow("http_version_t2", {"T"}, "http_version_p"),
  Arrow("http_version_p", {"P"}, "http_version_slash"),
  Arrow("http_version_slash", {"/"}, "http_version_major_start"),
  Arrow("http_version_major_start", {"digit"}, "http_version_major"),
  Arrow("http_version_major", {"digit"}, "http_version_major"),
  Arrow("http_version_major", {"."}, "http_version_minor_start"),
  Arrow("http_version_minor_start", {"digit"}, "http_version_minor"),
  Arrow("http_version_minor", {"digit"}, "http_version_minor"),
  Arrow("http_version_minor", {"CR"}, "newline_1"),
  Arrow("newline_1", {"LF"}, "header_line_start"),

  Arrow("response_start", {"H"}, "response_http_t1"),
  Arrow("response_http_t1", {"T"}, "response_http_t2"),
  Arrow("response_http_t2", {"T"}, "response_http_p"),
  Arrow("response_http_p", {"P"}, "response_http_slash"),
  Arrow("response_http_slash", {"/"}, "response_major_version_start"),
  Arrow("response_major_version_start", {"digit"}, "response_major_version"),
  Arrow("response_major_version", {"digit"}, "response_major_version"),
  Arrow("response_major_version", {"."}, "response_minor_version_start"),
  Arrow("response_minor_version_start", {"digit"}, "response_minor_version"),
  Arrow("response_minor_version", {"digit"}, "response_minor_version"),
  Arrow("response_minor_version", {"SP"}, "response_status_code_start"),
  Arrow("response_status_code_start", {"digit"}, "response_status_code"),
  Arrow("response_status_code", {"digit"}, "response_status_code"),
  Arrow("response_status_code", {"SP"}, "response_status_message_start"),
  Arrow("response_status_message_start", is_char, "response_status_message"),
  Arrow("response_status_message", is_char \ {"CR"}, "response_status_message"),
  Arrow("response_status_message", {"CR"}, "response_newline"),
  Arrow("response_newline", {"LF"}, "header_line_start"),

  Arrow("header_line_start", {"CR"}, "newline_3"),
  Arrow("header_line_start", Token, "header_name"),
  Arrow("header_lws", {"CR"}, "newline_2"),
  Arrow("header_lws", {"SP", "HT"}, "header_lws"),
  Arrow("header_lws", Chars \ (is_ctl \cup {"SP"}), "header_value"),
  Arrow("header_name", Token, "header_name"),
  Arrow("header_space", {"SP"}, "header_value"),
  Arrow("header_value", Chars \ is_ctl, "header_value"),
  Arrow("newline_2", {"LF"}, "header_line_start"),

  Arrow("chunk_length", {"CR"}, "chunk_length_newline"),
  Arrow("chunk_trailing_newline", {"LF"}, "chunk_length_start"),
  Arrow("chunk_trailing_header_line_start", {"CR"}, "chunk_terminating_newline") }

\* enum ParserState, by the part of the message the parser is in.  Nothing leads
\* to the states of the enum for chunk extensions and trailing headers.
LineStates == {
  "method_start", "method", "uri", "http_version_h", "http_version_t1",
  "http_version_t2", "http_version_p", "http_version_slash",
  "http_version_major_start", "http_version_major", "http_version_minor_start",
  "http_version_minor", "newline_1",
  "response_start", "response_http_t1", "response_http_t2", "response_http_p",
  "response_http_slash", "response_major_version_start", "response_major_version",
  "response_minor_version_start", "response_minor_version",
  "response_status_code_start", "response_status_code",
  "response_status_message_start", "response_status_message", "response_newline" }

HeadStates  == { "header_line_start", "header_lws", "header_name", "header_space",
                 "header_value", "newline_2", "newline_3" }
ChunkStates == { "chunk_length_start", "chunk_length", "chunk_length_newline",
                 "chunk", "chunk_trailing_newline",
                 "chunk_trailing_header_line_start", "chunk_terminating_newline" }
BodyStates  == ChunkStates \cup {"fixed_length_entity"}
States      == LineStates \cup HeadStates \cup BodyStates

\* get_phase_for_state_transition.
PhaseFor(phase, from, to) ==
  CASE from # to /\ to = "header_line_start" /\ phase = Start -> ReceivedMessageLine
    [] from # to /\ to \in {"chunk_length_start", "fixed_length_entity"}
                 /\ phase = ReceivedMessageLine                -> ReceivedHeaders
    [] OTHER                                                   -> phase

--------------------------------------------------------------------------------
VARIABLES
  state, remaining,     \* state_, remaining_
  phase,                \* the caller's *phase
  isResponse,           \* whether resetForResponse has been called
  name,                 \* the header name in buffer_
  headers,              \* number of header fields in the message
  chunked, lengths,     \* what its framing headers say
  body,                 \* bytes in the message's body
  left,                 \* bytes of the buffer not yet consumed
  reached, verdict,     \* the last phase notified; what parsing returned
  \* Observers, which the code does not keep:
  entry,                \* the phase in which the buffer was begun
  digits, declared,     \* of this chunk's length: digits read, true value
  total, chunks,        \* true length of the chunks so far; how many
  startLine             \* how far the start line has come

message   == << headers, chunked, lengths, body >>
observers == << digits, declared, total, chunks >>
vars      == << state, remaining, phase, isResponse, name, message, left, reached, verdict,
                entry, observers, startLine >>

parser    == << state, remaining, phase >>

Names  == {"Transfer-Encoding", "Content-Length", "other"}
NoName == ""    \* buffer_ is empty
Junk  == -1     \* a Content-Length that toULongLong does not accept

StartLine == {"open", "CR", "ended", "header"}

Waiting == "Waiting"    \* for the next buffer
Parsing == "Parsing"
Aborted == "Aborted"    \* qFatal, or an exception, ended the process

--------------------------------------------------------------------------------
\* A new parser is set up for a request.
Init ==
  /\ state = "method_start"
  /\ remaining = 0
  /\ phase = Start
  /\ isResponse = FALSE
  /\ name = NoName
  /\ headers = 0 /\ chunked = FALSE /\ lengths = << >> /\ body = 0
  /\ left = 0
  /\ reached = Start
  /\ entry = Start
  /\ verdict = Waiting
  /\ digits = 0 /\ declared = 0 /\ total = 0 /\ chunks = 0
  /\ startLine = "open"

\* resetForResponse, once the request has been parsed and sent: the parser
\* turns to another message, which has a phase of its own.
ResetForResponse ==
  /\ verdict = "Valid"
  /\ ~isResponse
  /\ state' = "response_start"
  /\ remaining' = 0
  /\ phase' = Start
  /\ isResponse' = TRUE
  /\ name' = NoName
  /\ headers' = 0 /\ chunked' = FALSE /\ lengths' = << >> /\ body' = 0
  /\ left' = 0
  /\ reached' = Start
  /\ entry' = Start
  /\ verdict' = Waiting
  /\ digits' = 0 /\ declared' = 0 /\ total' = 0 /\ chunks' = 0
  /\ startLine' = "open"

ReadBuffer ==
  /\ verdict = Waiting
  /\ left' \in 1 .. MaxBuffer
  /\ verdict' = Parsing
  /\ entry' = phase
  /\ reached' = phase
  /\ UNCHANGED << parser, isResponse, name, message, observers, startLine >>

\* parse() used up the buffer: Incomplete, and the handler reads again.
BufferUsedUp ==
  /\ verdict = Parsing
  /\ left = 0
  /\ verdict' = Waiting
  /\ UNCHANGED << parser, isResponse, name, message, left, reached, entry, observers,
                  startLine >>

\* A character is taken from the buffer.
Take == /\ verdict = Parsing
        /\ left > 0
        /\ left' = left - 1
        /\ UNCHANGED << entry, isResponse >>

\* TRANSIT(to).  When the phase changes parse() stops, and the handler notifies
\* the phase and calls it again with the rest of the buffer.
Transit(to) ==
  /\ state' = to
  /\ phase' = PhaseFor(phase, state, to)
  /\ reached' = phase'
  /\ verdict' = Parsing

\* parse() stores ReceivedFullMessage itself; no notification.
AcceptSilently == verdict' = "Valid" /\ UNCHANGED << state, phase, reached >>

Accept == /\ verdict' = "Valid"
          /\ phase' = ReceivedFullMessage
          /\ UNCHANGED << state, reached >>

Reject == /\ verdict' = "Invalid"
          /\ UNCHANGED << state, phase, reached >>

Abort == /\ verdict' = Aborted
         /\ UNCHANGED << state, phase, reached >>

--------------------------------------------------------------------------------
\* Where the start line stands after one character more: a CR LF ends it; what
\* follows should be read as a header, not as more of the start line.
Past(c) == CASE startLine \in {"ended", "header"} ->
                  IF c \in Token THEN "header" ELSE startLine
             [] c = "CR"                         -> "CR"
             [] c = "LF" /\ startLine = "CR"     -> "ended"
             [] OTHER                            -> "open"

\* A transition the character alone decides.  CR after a header's value is
\* EndHeader's.
Follow(c) ==
  \E a \in Arrows :
    /\ a[1] = state /\ a[2] = c
    /\ Take
    /\ Transit(a[3])
    /\ startLine' = IF phase = Start THEN Past(c) ELSE startLine
    /\ name' = IF a[3] = "header_name" THEN NoName ELSE name
    /\ digits' = IF a[3] = "chunk_length_start" THEN 0 ELSE digits
    /\ chunks' = IF a[3] = "chunk_length_start" THEN chunks + 1 ELSE chunks
    /\ chunks' <= MaxChunks
    /\ UNCHANGED << remaining, message, declared, total >>

\* A character no transition of the state accepts.
Refused(c) ==
  /\ state \notin BodyStates
  /\ ~ \E a \in Arrows : a[1] = state /\ a[2] = c
  /\ CASE state = "header_line_start" -> ~(c \in {"SP", "HT"} /\ headers > 0)
       [] state = "header_name"       -> c # ":"
       [] state = "header_value"      -> c # "CR"
       [] state = "newline_3"         -> c # "LF"
       [] OTHER                       -> TRUE

Refuse(c) == /\ Refused(c)
             /\ Take
             /\ Reject
             /\ UNCHANGED << remaining, name, message, observers, startLine >>

\* A line that starts with blanks continues the header before it.
FoldHeader(c) ==
  /\ state = "header_line_start"
  /\ headers > 0
  /\ c \in {"SP", "HT"}
  /\ Take
  /\ Transit("header_lws")
  /\ UNCHANGED << remaining, name, message, observers, startLine >>

EndName ==
  /\ state = "header_name"
  /\ Take
  /\ name' \in Names
  /\ Transit("header_space")
  /\ UNCHANGED << remaining, message, observers, startLine >>

\* Headers::insert under the name in buffer_, which is then cleared: the value
\* of a folded line goes in under the empty name.
EndHeader ==
  /\ state = "header_value"
  /\ Take
  /\ Transit("newline_2")
  /\ headers < MaxHeaders
  /\ headers' = headers + 1
  /\ \/ /\ name = "Transfer-Encoding"
        /\ chunked' \in {chunked, TRUE}
        /\ UNCHANGED lengths
     \/ /\ name = "Content-Length"
        /\ \E n \in Lengths \cup {Junk} : lengths' = Append(lengths, n)
        /\ UNCHANGED chunked
     \/ /\ name \notin {"Transfer-Encoding", "Content-Length"}
        /\ UNCHANGED << chunked, lengths >>
  /\ name' = NoName
  /\ UNCHANGED << remaining, body, observers, startLine >>

\* The end of the head decides how the body is framed.  find_by_name returns
\* the values of a name latest first, and the loop returns at the first.  Room
\* for the body is reserved at once, and no worker catches what reserve() throws.
EndHead ==
  /\ state = "newline_3"
  /\ Take
  /\ \/ /\ chunked
        /\ Transit("chunk_length_start")
        /\ body' = 0
        /\ UNCHANGED remaining
     \/ /\ ~chunked
        /\ lengths # << >>
        /\ \/ Last(lengths) = Junk /\ Reject /\ UNCHANGED << remaining, body >>
           \/ Last(lengths) = 0 /\ Accept /\ UNCHANGED << remaining, body >>
           \/ Last(lengths) > 0 /\ Abort /\ UNCHANGED << remaining, body >>
           \/ /\ Last(lengths) > 0
              /\ Transit("fixed_length_entity")
              /\ remaining' = Last(lengths)
              /\ body' = 0
     \/ /\ ~chunked
        /\ lengths = << >>
        /\ Accept
        /\ UNCHANGED << remaining, body >>
  /\ UNCHANGED << name, headers, chunked, lengths, observers, startLine >>

--------------------------------------------------------------------------------
\* Chunked bodies.

AccumulatedUnscaled(d)  == (remaining + d) % Modulus
Accumulated(d) == (remaining * Radix + d) % Modulus

ChunkDigit(d) ==
  /\ state \in {"chunk_length_start", "chunk_length"}
  /\ digits < MaxDigits
  /\ Take
  /\ Transit("chunk_length")
  /\ digits' = digits + 1
  /\ IF state = "chunk_length_start"
       THEN remaining' = d /\ declared' = d
       ELSE remaining' = Accumulated(d) /\ declared' = declared * Radix + d
  /\ UNCHANGED << name, message, total, chunks, startLine >>

\* Extensions of a chunk's length end the process.
ChunkExtension ==
  /\ state = "chunk_length"
  /\ Take
  /\ Abort
  /\ UNCHANGED << remaining, name, message, observers, startLine >>

EndChunkLength ==
  /\ state = "chunk_length_newline"
  /\ Take
  /\ Transit(IF remaining > 0 THEN "chunk" ELSE "chunk_trailing_header_line_start")
  /\ total' = total + declared
  /\ UNCHANGED << remaining, name, message, digits, declared, chunks, startLine >>

ChunkByte ==
  /\ state = "chunk"
  /\ remaining > 0
  /\ Take
  /\ Transit("chunk")
  /\ body' = body + 1
  /\ remaining' = remaining - 1
  /\ UNCHANGED << name, headers, chunked, lengths, observers, startLine >>

EndChunk ==
  /\ state = "chunk"
  /\ remaining = 0
  /\ Take
  /\ Transit("chunk_trailing_newline")
  /\ UNCHANGED << remaining, name, message, observers, startLine >>

EndChunks ==
  /\ state = "chunk_terminating_newline"
  /\ Take
  /\ Accept
  /\ UNCHANGED << remaining, name, message, observers, startLine >>

\* So do trailing headers.
TrailingHeader ==
  /\ state = "chunk_trailing_header_line_start"
  /\ Take
  /\ Abort
  /\ UNCHANGED << remaining, name, message, observers, startLine >>

\* What a chunked body may not contain where it stands.
BadChunk(c) ==
  /\ \/ state = "chunk_length_start" /\ c \notin is_hex
     \/ state = "chunk_length" /\ c \notin is_hex \cup {"CR", ";"}
     \/ state \in {"chunk_length_newline", "chunk_trailing_newline",
                   "chunk_terminating_newline"} /\ c # "LF"
     \/ state = "chunk" /\ remaining = 0 /\ c # "CR"
  /\ Take
  /\ Reject
  /\ UNCHANGED << remaining, name, message, observers, startLine >>

--------------------------------------------------------------------------------
FixedByteLate ==
  /\ state = "fixed_length_entity"
  /\ Take
  /\ body' = body + 1
  /\ remaining' = (remaining + Modulus - 1) % Modulus
  /\ IF remaining = 0 THEN Accept ELSE Transit("fixed_length_entity")
  /\ UNCHANGED << name, headers, chunked, lengths, observers, startLine >>

FixedByte ==
  /\ state = "fixed_length_entity"
  /\ Take
  /\ body' = body + 1
  /\ remaining' = (remaining + Modulus - 1) % Modulus
  /\ IF remaining' = 0 THEN Accept ELSE Transit("fixed_length_entity")
  /\ UNCHANGED << name, headers, chunked, lengths, observers, startLine >>

\* consume(c).
Consume(c) ==
  \/ Follow(c)
  \/ Refuse(c)
  \/ FoldHeader(c)
  \/ c = ":" /\ EndName
  \/ c = "CR" /\ (EndHeader \/ EndChunk)
  \/ c = "LF" /\ (EndHead \/ EndChunkLength \/ EndChunks)
  \/ c \in is_hex /\ \E d \in 0 .. (Radix - 1) : ChunkDigit(d)
  \/ c = ";" /\ ChunkExtension
  \/ c # "CR" /\ TrailingHeader
  \/ ChunkByte
  \/ FixedByte
  \/ BadChunk(c)

Ended == verdict \in {"Valid", "Invalid", Aborted} /\ UNCHANGED vars

\* Bounds are reached: no more header fields, digits or chunks are sent.
Next == \/ ReadBuffer
        \/ BufferUsedUp
        \/ \E c \in Chars : Consume(c)
        \/ ResetForResponse
        \/ Ended

Spec == Init /\ [][Next]_vars

--------------------------------------------------------------------------------
\* Every variable has the shape its declaration gives it; remaining_ is an
\* unsigned number of its width.
TypeOK ==
  /\ state \in States
  /\ remaining \in 0 .. (Modulus - 1)
  /\ phase \in ParsePhase /\ reached \in ParsePhase /\ entry \in ParsePhase
  /\ isResponse \in BOOLEAN
  /\ name \in Names \cup {NoName}
  /\ headers \in 0 .. MaxHeaders
  /\ chunked \in BOOLEAN
  /\ lengths \in Seq(Lengths \cup {Junk})
  /\ body \in Nat
  /\ left \in 0 .. MaxBuffer
  /\ verdict \in {Waiting, Parsing, Aborted, "Valid", "Invalid"}
  /\ digits \in 0 .. MaxDigits /\ declared \in Nat /\ total \in Nat
  /\ chunks \in 0 .. MaxChunks /\ startLine \in StartLine

\* What the Transaction's read handlers take for granted of a buffer, wherever
\* the network cut it: the phases notified on the way, the verdict, and the
\* phase left behind for the next buffer.
OutcomeAsPromised ==
  verdict \in {Waiting, "Valid", "Invalid"} =>
    LET o == [ reached |-> reached,
               verdict |-> IF verdict = Waiting THEN "Incomplete" ELSE verdict ]
    IN  o \in ParseOutcomes(entry) /\ phase = PhaseAfter(o)

\* The bytes of a body that are still to come are counted right in every state:
\* the counter is never decremented below zero, and reaches it at the last byte.
BytesAccountedFor ==
  verdict = Parsing =>
    /\ state = "fixed_length_entity" =>
         remaining > 0 /\ body + remaining = Last(lengths)
    /\ state = "chunk" /\ total < Modulus => body + remaining = total

\* A message that is accepted has the body its framing headers declare, if its
\* length fits the counter; whatever the request left in the parser, and however
\* the message was cut into buffers.
BodyAsDeclared ==
  verdict = "Valid" =>
    CASE chunked                      -> total < Modulus => body = total
      [] ~chunked /\ lengths # << >> -> body = Last(lengths)
      [] OTHER                        -> body = 0

\* README.md:86 calls the transaction "RFC 7230-compliant(-ish)": a start line
\* ends at its first newline, also when a status has no reason phrase.  What
\* stands on the line after it is a header, and no part of the start line.
StartLineEndsAtNewline == phase # Start => startLine = "ended"

================================================================================

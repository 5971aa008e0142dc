------------------------------- MODULE ParserProofs -------------------------------
(***************************************************************************)
(* Proofs about HttpMessageParser: for every radix and width of the        *)
(* counter, any buffers and any number of headers, digits and chunks, by   *)
(* one inductive invariant.                                                *)
(***************************************************************************)
EXTENDS HttpMessageParser, TLAPS

\* The phase tells which part that is, until the message is accepted.
PhaseInv ==
  /\ verdict = "Valid" <=> phase = ReceivedFullMessage
  /\ verdict # "Valid" =>
       /\ state \in LineStates => phase = Start
       /\ state \in HeadStates => phase = ReceivedMessageLine
       /\ state \in BodyStates => phase = ReceivedHeaders

\* What has been notified of this buffer: the phase, and before a verdict of
\* Valid at least the message's first line.
ReachedInv ==
  /\ entry <= reached /\ reached <= ReceivedHeaders
  /\ verdict # "Valid" => reached = phase
  /\ verdict = "Valid" => reached >= ReceivedMessageLine

\* No body before the end of the head; then the one the head announced.
FramingInv ==
  /\ verdict # "Valid" /\ state \notin BodyStates => body = 0
  /\ state \notin BodyStates => total = 0
  /\ verdict # "Valid" /\ state \in ChunkStates => chunked
  /\ verdict # "Valid" /\ state = "fixed_length_entity" =>
       ~chunked /\ lengths # << >>

\* remaining_ and what is still to come of the body.  A counter that wrapped is
\* told by the true length, declared or total, that does not fit.
LengthRead    == state \in {"chunk_length", "chunk_length_newline"}
BetweenChunks == state \in ChunkStates \ {"chunk"}

CountInv ==
  /\ verdict # "Valid" /\ LengthRead /\ declared < Modulus => remaining = declared
  /\ verdict # "Valid" /\ BetweenChunks /\ total < Modulus => body = total
  /\ verdict # "Valid" /\ state = "chunk" /\ total < Modulus =>
       body + remaining = total
  /\ verdict # "Valid" /\ state = "fixed_length_entity" =>
       remaining > 0 /\ body + remaining = Last(lengths)

ParserInv == /\ TypeOK
             /\ PhaseInv
             /\ ReachedInv
             /\ FramingInv
             /\ CountInv
             /\ BodyAsDeclared

--------------------------------------------------------------------------------
\* The transitions on the character alone stay in a part of the message or go on
\* to the head; three of them are in a chunked body.
LEMMA ArrowsStay ==
  \A a \in Arrows :
    /\ a[1] \in LineStates \cup HeadStates \cup BodyStates
    /\ a[1] \in LineStates => a[3] \in LineStates \cup {"header_line_start"}
    /\ a[1] \in HeadStates => a[3] \in HeadStates
    /\ a[1] \in BodyStates =>
         << a[1], a[3] >> \in
           { << "chunk_length", "chunk_length_newline" >>,
             << "chunk_trailing_newline", "chunk_length_start" >>,
             << "chunk_trailing_header_line_start", "chunk_terminating_newline" >> }
  BY DEF Arrows, Arrow, LineStates, HeadStates, BodyStates, ChunkStates

\* Where a transition may lead: on within its part, or into the next one.
Onward(from, to) ==
  \/ from \in LineStates /\ to \in LineStates \cup {"header_line_start"}
  \/ from \in HeadStates /\ to \in HeadStates \cup {"chunk_length_start", "fixed_length_entity"}
  \/ from \in BodyStates /\ to \in BodyStates

\* TRANSIT keeps the phase in step with the state, and notifies it.
LEMMA Moving ==
  ASSUME TypeOK, PhaseInv, ReachedInv, verdict = Parsing,
         NEW to, Transit(to), Onward(state, to), entry' = entry
  PROVE  PhaseInv' /\ ReachedInv' /\ verdict' = Parsing /\ state' = to /\ to \in States
         /\ phase' \in ParsePhase /\ reached' \in ParsePhase /\ entry' \in ParsePhase
<1>1. verdict' = Parsing /\ state' = to /\ phase' = PhaseFor(phase, state, to)
      /\ reached' = phase'
  BY DEF Transit
<1>2. /\ phase = IF state \in LineStates THEN Start
                 ELSE IF state \in HeadStates THEN ReceivedMessageLine ELSE ReceivedHeaders
      /\ phase' = IF to \in LineStates THEN Start
                  ELSE IF to \in HeadStates THEN ReceivedMessageLine ELSE ReceivedHeaders
  BY <1>1 DEF Onward, PhaseFor, PhaseInv, TypeOK, States, LineStates, HeadStates, BodyStates,
              ChunkStates, Parsing, Start, ReceivedMessageLine, ReceivedHeaders
<1>3. to \in States
  BY DEF Onward, States, HeadStates, BodyStates, ChunkStates
<1>4. PhaseInv'
  BY <1>1, <1>2 DEF PhaseInv, LineStates, HeadStates, BodyStates, ChunkStates, Parsing, Start,
              ReceivedMessageLine, ReceivedHeaders, ReceivedFullMessage
<1>5. phase <= phase'
  BY <1>2 DEF Onward, LineStates, HeadStates, BodyStates, ChunkStates, Start,
              ReceivedMessageLine, ReceivedHeaders
<1>6. phase' \in 0 .. 2 /\ phase \in 0 .. 2 /\ entry \in 0 .. 4
  BY <1>2 DEF TypeOK, ParsePhase, Start, ReceivedMessageLine, ReceivedHeaders, ReceivedFullMessage
<1>7. entry <= phase /\ reached = phase
  BY DEF ReachedInv, Parsing
<1>8. ReachedInv'
  BY <1>1, <1>5, <1>6, <1>7 DEF ReachedInv, Parsing, ReceivedHeaders
<1>9. phase' \in ParsePhase /\ reached' \in ParsePhase /\ entry' \in ParsePhase
  BY <1>1, <1>6 DEF ParsePhase, Start, ReceivedFullMessage
<1> QED BY <1>1, <1>3, <1>4, <1>8, <1>9

\* A verdict leaves the state, and only acceptance changes the phase.
LEMMA Stopping ==
  ASSUME TypeOK, PhaseInv, ReachedInv, verdict = Parsing, entry' = entry,
         (Accept /\ state \notin LineStates) \/ Reject \/ Abort
  PROVE  /\ PhaseInv' /\ ReachedInv' /\ state' = state
         /\ verdict' \in {"Valid", "Invalid", Aborted}
         /\ phase' \in ParsePhase /\ reached' \in ParsePhase /\ entry' \in ParsePhase
<1>1. phase \in {ReceivedMessageLine, ReceivedHeaders} \/ state \in LineStates
  BY DEF PhaseInv, TypeOK, States, Parsing
<1>2. reached = phase /\ state' = state /\ reached' = reached
  BY DEF ReachedInv, Accept, Reject, Abort, Parsing
<1>3. \/ verdict' = "Valid" /\ phase' = ReceivedFullMessage /\ state \notin LineStates
      \/ verdict' \in {"Invalid", Aborted} /\ phase' = phase
  BY DEF Accept, Reject, Abort
<1>4. PhaseInv'
  BY <1>2, <1>3 DEF PhaseInv, Parsing, Aborted
<1>5. ReachedInv'
  BY <1>1, <1>2, <1>3 DEF ReachedInv, Parsing, Aborted, ReceivedMessageLine, ReceivedHeaders
<1>6. phase \in ParsePhase /\ reached \in ParsePhase /\ entry \in ParsePhase
      /\ ReceivedFullMessage \in ParsePhase
  BY DEF TypeOK, ParsePhase, ReceivedFullMessage, Start
<1> QED BY <1>2, <1>3, <1>4, <1>5, <1>6

--------------------------------------------------------------------------------
\* The conjuncts of TypeOK that the two lemmas above do not give.
RestOK ==
  /\ remaining \in 0 .. (Modulus - 1)
  /\ isResponse \in BOOLEAN
  /\ name \in Names \cup {NoName}
  /\ headers \in 0 .. MaxHeaders
  /\ chunked \in BOOLEAN
  /\ lengths \in Seq(Lengths \cup {Junk})
  /\ body \in Nat
  /\ left \in 0 .. MaxBuffer
  /\ digits \in 0 .. MaxDigits /\ declared \in Nat /\ total \in Nat
  /\ chunks \in 0 .. MaxChunks /\ startLine \in StartLine

LEMMA TypePartsPrimed ==
  ASSUME state' \in States, RestOK', phase' \in ParsePhase, reached' \in ParsePhase,
         entry' \in ParsePhase, verdict' \in {Waiting, Parsing, Aborted, "Valid", "Invalid"}
  PROVE  TypeOK'
  BY DEF TypeOK, RestOK

\* The bounds are numbers, and remaining_ has room for a digit.
LEMMA Bounds ==
  /\ Radix \in Nat \ {0} /\ Modulus \in Nat \ {0} /\ Radix <= Modulus
  /\ MaxBuffer \in Nat /\ MaxHeaders \in Nat /\ MaxDigits \in Nat /\ MaxChunks \in Nat
  /\ Lengths \subseteq 0 .. (Modulus - 1)
  BY ParserAssumption

\* What a step that moves on from one state to the next has to show.
LEMMA Moved ==
  ASSUME ParserInv, verdict = Parsing, NEW to, Transit(to), Onward(state, to),
         entry' = entry, RestOK', FramingInv', CountInv'
  PROVE  ParserInv'
<1>1. /\ PhaseInv' /\ ReachedInv' /\ verdict' = Parsing /\ state' \in States
      /\ phase' \in ParsePhase /\ reached' \in ParsePhase /\ entry' \in ParsePhase
  BY Moving DEF ParserInv
<1>2. TypeOK'
  BY <1>1, TypePartsPrimed
<1>3. BodyAsDeclared'
  BY <1>1 DEF BodyAsDeclared, Parsing
<1> QED BY <1>1, <1>2, <1>3 DEF ParserInv

\* What a step that ends parsing has to show.
LEMMA Stopped ==
  ASSUME ParserInv, verdict = Parsing, entry' = entry,
         (Accept /\ state \notin LineStates) \/ Reject \/ Abort,
         RestOK', FramingInv', CountInv', BodyAsDeclared'
  PROVE  ParserInv'
<1>1. /\ PhaseInv' /\ ReachedInv' /\ state' = state
      /\ verdict' \in {"Valid", "Invalid", Aborted}
      /\ phase' \in ParsePhase /\ reached' \in ParsePhase /\ entry' \in ParsePhase
  BY Stopping DEF ParserInv
<1>2. TypeOK'
  BY <1>1, TypePartsPrimed DEF ParserInv, TypeOK
<1> QED BY <1>1, <1>2 DEF ParserInv

--------------------------------------------------------------------------------
\* The operations, one after another.
LEMMA FollowKeeps ==
  ASSUME ParserInv, NEW c \in Chars, Follow(c)
  PROVE  ParserInv'
<1>1. PICK a \in Arrows :
        /\ a[1] = state /\ a[2] = c
        /\ Take
        /\ Transit(a[3])
        /\ startLine' = IF phase = Start THEN Past(c) ELSE startLine
        /\ name' = IF a[3] = "header_name" THEN NoName ELSE name
        /\ digits' = IF a[3] = "chunk_length_start" THEN 0 ELSE digits
        /\ chunks' = IF a[3] = "chunk_length_start" THEN chunks + 1 ELSE chunks
        /\ chunks' <= MaxChunks
        /\ UNCHANGED << remaining, message, declared, total >>
  BY DEF Follow
<1>2. /\ state \in LineStates => a[3] \in LineStates \cup {"header_line_start"}
      /\ state \in HeadStates => a[3] \in HeadStates
      /\ state \in BodyStates =>
           << state, a[3] >> \in
             { << "chunk_length", "chunk_length_newline" >>,
               << "chunk_trailing_newline", "chunk_length_start" >>,
               << "chunk_trailing_header_line_start", "chunk_terminating_newline" >> }
  BY <1>1, ArrowsStay
<1>3. verdict = Parsing /\ entry' = entry /\ state' = a[3] /\ verdict' = Parsing
  BY <1>1 DEF Take, Transit
<1>4. state \in States
  BY DEF ParserInv, TypeOK
<1>5. Onward(state, a[3])
  BY <1>2, <1>4 DEF Onward, States, BodyStates, ChunkStates
<1>6. RestOK'
  <2>1. Past(c) \in StartLine
    BY DEF Past, StartLine, ParserInv, TypeOK
  <2> QED BY <1>1, <2>1, Bounds DEF Take, RestOK, ParserInv, TypeOK, message
<1>7. FramingInv'
  BY <1>1, <1>2, <1>3, <1>4 DEF ParserInv, FramingInv, message, States, LineStates, HeadStates,
              BodyStates, ChunkStates, Parsing
<1>8. CountInv'
  BY <1>1, <1>2, <1>3, <1>4 DEF ParserInv, CountInv, LengthRead, BetweenChunks, message, States,
              LineStates, HeadStates, BodyStates, ChunkStates, Parsing
<1> QED BY <1>1, <1>3, <1>5, <1>6, <1>7, <1>8, Moved

LEMMA RefuseKeeps ==
  ASSUME ParserInv, NEW c \in Chars, Refuse(c)
  PROVE  ParserInv'
<1>1. verdict = Parsing /\ entry' = entry /\ state' = state /\ verdict' = "Invalid" /\ Reject
  BY DEF Refuse, Take, Reject
<1>2. RestOK'
  BY Bounds DEF Refuse, Take, RestOK, ParserInv, TypeOK, message, observers
<1>3. FramingInv' /\ CountInv' /\ BodyAsDeclared'
  BY <1>1 DEF Refuse, ParserInv, FramingInv, CountInv, BodyAsDeclared, LengthRead,
              BetweenChunks, message, observers, Parsing
<1> QED BY <1>1, <1>2, <1>3, Stopped

\* The steps within the head, which leave the body alone.
LEMMA HeadKeeps ==
  ASSUME ParserInv, Take, NEW to \in HeadStates, Transit(to), state \in HeadStates,
         RestOK', body' = body, total' = total
  PROVE  ParserInv'
<1>1. verdict = Parsing /\ entry' = entry /\ state' = to /\ verdict' = Parsing
  BY DEF Take, Transit
<1>2. FramingInv' /\ CountInv'
  BY <1>1 DEF ParserInv, FramingInv, CountInv, LengthRead, BetweenChunks, HeadStates, BodyStates,
              ChunkStates, Parsing
<1>3. Onward(state, to)
  BY DEF Onward
<1> QED BY <1>1, <1>2, <1>3, Moved

LEMMA FoldHeaderKeeps ==
  ASSUME ParserInv, NEW c \in Chars, FoldHeader(c)
  PROVE  ParserInv'
<1>1. RestOK'
  BY Bounds DEF FoldHeader, Take, RestOK, ParserInv, TypeOK, message, observers
<1> QED
  BY <1>1, HeadKeeps DEF FoldHeader, HeadStates, message, observers

LEMMA EndNameKeeps ==
  ASSUME ParserInv, EndName
  PROVE  ParserInv'
<1>1. RestOK'
  BY Bounds DEF EndName, Take, RestOK, ParserInv, TypeOK, message, observers
<1> QED
  BY <1>1, HeadKeeps DEF EndName, HeadStates, message, observers

LEMMA EndHeaderKeeps ==
  ASSUME ParserInv, EndHeader
  PROVE  ParserInv'
<1>1. chunked' \in BOOLEAN /\ lengths' \in Seq(Lengths \cup {Junk})
  <2>1. chunked \in BOOLEAN /\ lengths \in Seq(Lengths \cup {Junk})
    BY DEF ParserInv, TypeOK
  <2>2. chunked' \in {chunked, TRUE} \/ chunked' = chunked
    BY DEF EndHeader
  <2>3. lengths' = lengths \/ \E n \in Lengths \cup {Junk} : lengths' = Append(lengths, n)
    BY DEF EndHeader
  <2>4. ASSUME NEW n \in Lengths \cup {Junk}
        PROVE  Append(lengths, n) \in Seq(Lengths \cup {Junk})
    BY <2>1
  <2>5. lengths' \in Seq(Lengths \cup {Junk})
    BY <2>1, <2>3, <2>4
  <2>6. chunked' \in BOOLEAN
    BY <2>1, <2>2
  <2> QED BY <2>5, <2>6
<1>2. headers' \in 0 .. MaxHeaders /\ left' \in 0 .. MaxBuffer /\ name' = NoName
  BY Bounds DEF EndHeader, Take, ParserInv, TypeOK
<1>3. RestOK'
  BY <1>1, <1>2 DEF EndHeader, Take, RestOK, ParserInv, TypeOK, observers
<1> QED
  BY <1>3, HeadKeeps DEF EndHeader, HeadStates, observers

LEMMA EndHeadKeeps ==
  ASSUME ParserInv, EndHead
  PROVE  ParserInv'
<1>1. /\ state = "newline_3" /\ verdict = Parsing /\ entry' = entry /\ Take
      /\ UNCHANGED << name, headers, chunked, lengths, digits, declared, total, chunks, startLine >>
  BY DEF EndHead, Take, observers
<1>2. /\ state \in HeadStates /\ state \notin LineStates /\ state \notin BodyStates
      /\ body = 0 /\ total = 0
  BY <1>1 DEF HeadStates, LineStates, BodyStates, ChunkStates, ParserInv, FramingInv, Parsing
<1>3. ASSUME remaining' \in 0 .. (Modulus - 1), body' = 0
      PROVE  RestOK'
  BY <1>1, <1>3, Bounds DEF Take, RestOK, ParserInv, TypeOK
<1>4. remaining \in 0 .. (Modulus - 1) /\ chunked \in BOOLEAN
  BY DEF ParserInv, TypeOK
<1>5. CASE chunked
  <2>1. Transit("chunk_length_start") /\ body' = 0 /\ remaining' = remaining
    BY <1>5 DEF EndHead
  <2>2. state' = "chunk_length_start" /\ verdict' = Parsing
    BY <2>1 DEF Transit
  <2>3. Onward(state, "chunk_length_start")
    BY <1>2 DEF Onward
  <2>4. FramingInv' /\ CountInv'
    BY <1>1, <1>2, <1>5, <2>1, <2>2 DEF FramingInv, CountInv, LengthRead, BetweenChunks, BodyStates, ChunkStates, Parsing
  <2> QED BY <1>1, <1>3, <1>4, <2>1, <2>3, <2>4, Moved
<1>6. ASSUME ~chunked, Accept \/ Reject \/ Abort, body' = body, remaining' = remaining,
             Accept => (lengths # << >> => Last(lengths) = 0)
      PROVE  ParserInv'
  <2>1. state' = state /\ body' = 0 /\ verdict' \in {"Valid", "Invalid", Aborted}
        /\ (verdict' = "Valid" => Accept)
    BY <1>2, <1>6 DEF Accept, Reject, Abort, Aborted
  <2>2. FramingInv' /\ CountInv' /\ BodyAsDeclared'
    BY <1>1, <1>2, <1>6, <2>1 DEF FramingInv, CountInv, BodyAsDeclared, LengthRead, BetweenChunks, BodyStates, ChunkStates,
             Parsing, Aborted
  <2> QED BY <1>1, <1>2, <1>3, <1>4, <1>6, <2>1, <2>2, Stopped
<1>7. CASE ~chunked /\ lengths = << >>
  BY <1>6, <1>7 DEF EndHead
<1>8. ASSUME ~chunked, lengths # << >>, Last(lengths) > 0, Last(lengths) # Junk, ~Abort
      PROVE  ParserInv'
  <2>1. Transit("fixed_length_entity") /\ body' = 0 /\ remaining' = Last(lengths)
    BY <1>8 DEF EndHead, Reject, Accept
  <2>2. Last(lengths) \in 0 .. (Modulus - 1)
    <3>1. lengths \in Seq(Lengths \cup {Junk}) /\ Len(lengths) \in 1 .. Len(lengths)
      BY <1>8 DEF ParserInv, TypeOK
    <3>2. Last(lengths) \in Lengths \cup {Junk}
      BY <3>1 DEF Last
    <3> QED BY <1>8, <3>2, Bounds
  <2>3. state' = "fixed_length_entity" /\ verdict' = Parsing
    BY <2>1 DEF Transit
  <2>4. Onward(state, "fixed_length_entity")
    BY <1>2 DEF Onward
  <2>5. FramingInv' /\ CountInv'
    BY <1>1, <1>2, <1>8, <2>1, <2>2, <2>3 DEF FramingInv, CountInv, LengthRead, BetweenChunks, BodyStates, ChunkStates, Parsing
  <2> QED BY <1>1, <1>3, <2>1, <2>2, <2>4, <2>5, Moved
<1>9. CASE ~chunked /\ lengths # << >> /\ ~(Last(lengths) > 0 /\ Last(lengths) # Junk)
  BY <1>6, <1>9 DEF EndHead, Junk, Accept, Reject
<1>10. CASE ~chunked /\ lengths # << >> /\ Abort
  <2>1. ~Accept /\ verdict' = Aborted
    BY <1>10 DEF Abort, Accept, Aborted
  <2>2. UNCHANGED << remaining, body >> \/ Transit("fixed_length_entity")
    BY <1>10 DEF EndHead
  <2>3. ~Transit("fixed_length_entity")
    BY <1>10 DEF Abort, Transit, Aborted, Parsing
  <2> QED BY <1>6, <1>10, <2>1, <2>2, <2>3
<1> QED BY <1>5, <1>7, <1>8, <1>9, <1>10

--------------------------------------------------------------------------------
\* What remaining_ holds after one more digit or one byte less.
LEMMA CounterSteps ==
  /\ \A x \in Nat : x % Modulus \in 0 .. (Modulus - 1)
  /\ \A x \in 0 .. (Modulus - 1) : x % Modulus = x
  BY Bounds

LEMMA OneLess ==
  ASSUME NEW x \in 1 .. (Modulus - 1)
  PROVE  (x + Modulus - 1) % Modulus = x - 1 /\ x - 1 \in 0 .. (Modulus - 1)
  BY Bounds

LEMMA NextDigit ==
  ASSUME NEW x \in Nat, NEW d \in Nat
  PROVE  x * Radix + d \in Nat /\ x * Radix + d >= x
  BY Bounds

LEMMA ChunkDigitKeeps ==
  ASSUME ParserInv, NEW d \in 0 .. (Radix - 1), ChunkDigit(d)
  PROVE  ParserInv'
<1>1. /\ verdict = Parsing /\ entry' = entry /\ Transit("chunk_length")
      /\ state \in {"chunk_length_start", "chunk_length"}
      /\ state' = "chunk_length" /\ verdict' = Parsing
      /\ UNCHANGED << name, headers, chunked, lengths, body, total, chunks, startLine >>
  BY DEF ChunkDigit, Take, Transit, message
<1>2. Onward(state, "chunk_length")
  BY <1>1 DEF Onward, BodyStates, ChunkStates
<1>3. /\ remaining \in Nat /\ declared \in Nat /\ d \in Nat /\ d \in 0 .. (Modulus - 1)
      /\ digits \in 0 .. MaxDigits
  BY Bounds DEF ParserInv, TypeOK
<1>4. /\ remaining' \in 0 .. (Modulus - 1) /\ declared' \in Nat
      /\ declared' < Modulus => remaining' = declared'
  <2>1. CASE state = "chunk_length_start"
    BY <1>3, <2>1 DEF ChunkDigit
  <2>2. CASE state = "chunk_length"
    <3>1. remaining' = (remaining * Radix + d) % Modulus /\ declared' = declared * Radix + d
      BY <2>2 DEF ChunkDigit, Accumulated
    <3>2. /\ remaining * Radix + d \in Nat
          /\ declared * Radix + d \in Nat /\ declared * Radix + d >= declared
      BY <1>3, NextDigit
    <3>3. declared < Modulus => remaining = declared
      BY <1>1, <2>2 DEF ParserInv, CountInv, LengthRead, Parsing
    <3>4. remaining' \in 0 .. (Modulus - 1)
      BY <3>1, <3>2, CounterSteps
    <3>5. ASSUME declared' < Modulus PROVE remaining' = declared'
      <4>1. declared < Modulus
        BY <1>3, <3>1, <3>2, <3>5, Bounds
      <4>2. remaining' = declared' % Modulus
        BY <3>1, <3>3, <4>1
      <4> QED BY <3>1, <3>2, <3>5, <4>2, CounterSteps, Bounds
    <3> QED BY <3>1, <3>2, <3>4, <3>5
  <2> QED BY <1>1, <2>1, <2>2
<1>5. digits' \in 0 .. MaxDigits /\ left' \in 0 .. MaxBuffer
  BY <1>3, Bounds DEF ChunkDigit, Take, ParserInv, TypeOK
<1>6. RestOK'
  BY <1>1, <1>4, <1>5 DEF RestOK, ParserInv, TypeOK, ChunkDigit, Take
<1>7. FramingInv' /\ CountInv'
  BY <1>1, <1>4 DEF ParserInv, FramingInv, CountInv, LengthRead, BetweenChunks, BodyStates, ChunkStates, Parsing
<1> QED BY <1>1, <1>2, <1>6, <1>7, Moved

LEMMA EndChunkLengthKeeps ==
  ASSUME ParserInv, EndChunkLength
  PROVE  ParserInv'
<1> DEFINE to == IF remaining > 0 THEN "chunk" ELSE "chunk_trailing_header_line_start"
<1>1. /\ verdict = Parsing /\ entry' = entry /\ Transit(to) /\ state = "chunk_length_newline"
      /\ state' = to /\ verdict' = Parsing /\ total' = total + declared /\ left' = left - 1
      /\ left > 0 /\ isResponse' = isResponse
      /\ UNCHANGED << remaining, name, headers, chunked, lengths, body, digits, declared, chunks,
                      startLine >>
  BY DEF EndChunkLength, Take, Transit, message
<1>2. Onward(state, to)
  BY <1>1 DEF Onward, BodyStates, ChunkStates
<1>3. declared \in Nat /\ total \in Nat /\ body \in Nat /\ remaining \in Nat
  BY Bounds DEF ParserInv, TypeOK
<1>4. RestOK'
  BY <1>1, <1>3, Bounds DEF RestOK, ParserInv, TypeOK
<1>5. /\ declared < Modulus => remaining = declared
      /\ total < Modulus => body = total
  BY <1>1 DEF ParserInv, CountInv, LengthRead, BetweenChunks, ChunkStates, Parsing
<1>6. total' < Modulus => body' + remaining' = total'
  BY <1>1, <1>3, <1>5, Bounds
<1>7. FramingInv'
  BY <1>1 DEF ParserInv, FramingInv, BodyStates, ChunkStates, Parsing
<1>8. CountInv'
  BY <1>1, <1>3, <1>6 DEF CountInv, LengthRead, BetweenChunks, ChunkStates
<1> QED BY <1>1, <1>2, <1>4, <1>7, <1>8, Moved

LEMMA ChunkByteKeeps ==
  ASSUME ParserInv, ChunkByte
  PROVE  ParserInv'
<1>1. /\ verdict = Parsing /\ entry' = entry /\ Transit("chunk") /\ state = "chunk" /\ remaining > 0
      /\ state' = "chunk" /\ verdict' = Parsing
      /\ body' = body + 1 /\ remaining' = remaining - 1 /\ left' = left - 1
      /\ left > 0 /\ isResponse' = isResponse
      /\ UNCHANGED << name, headers, chunked, lengths, digits, declared, total, chunks, startLine >>
  BY DEF ChunkByte, Take, Transit, observers
<1>2. Onward(state, "chunk")
  BY <1>1 DEF Onward, BodyStates, ChunkStates
<1>3. body \in Nat /\ remaining \in 0 .. (Modulus - 1) /\ total \in Nat
  BY DEF ParserInv, TypeOK
<1>4. RestOK'
  BY <1>1, <1>3, Bounds DEF RestOK, ParserInv, TypeOK
<1>5. FramingInv'
  BY <1>1 DEF ParserInv, FramingInv, BodyStates, ChunkStates, Parsing
<1>6. CountInv'
  BY <1>1, <1>3, Bounds DEF ParserInv, CountInv, LengthRead, BetweenChunks, ChunkStates, Parsing
<1> QED BY <1>1, <1>2, <1>4, <1>5, <1>6, Moved

LEMMA EndChunkKeeps ==
  ASSUME ParserInv, EndChunk
  PROVE  ParserInv'
<1>1. /\ verdict = Parsing /\ entry' = entry /\ Transit("chunk_trailing_newline")
      /\ state = "chunk" /\ remaining = 0
      /\ state' = "chunk_trailing_newline" /\ verdict' = Parsing
  BY DEF EndChunk, Take, Transit
<1>2. Onward(state, "chunk_trailing_newline")
  BY <1>1 DEF Onward, BodyStates, ChunkStates
<1>3. RestOK'
  BY Bounds DEF EndChunk, Take, RestOK, ParserInv, TypeOK, message, observers
<1>4. FramingInv' /\ CountInv'
  BY <1>1, Bounds DEF EndChunk, ParserInv, TypeOK, FramingInv, CountInv, LengthRead, BetweenChunks,
              BodyStates, ChunkStates, Parsing, message, observers
<1> QED BY <1>1, <1>2, <1>3, <1>4, Moved

\* What ends a chunked body, well or not, without touching its bytes.
LEMMA ChunksEnd ==
  ASSUME ParserInv, Take, state \in ChunkStates,
         (Accept /\ state = "chunk_terminating_newline") \/ Reject \/ Abort,
         UNCHANGED << remaining, name, message, observers, startLine >>
  PROVE  ParserInv'
<1>1. /\ verdict = Parsing /\ entry' = entry /\ state' = state
      /\ Accept => state \notin LineStates
      /\ verdict' = "Valid" => Accept /\ state = "chunk_terminating_newline"
  BY DEF Take, Accept, Reject, Abort, Aborted, LineStates
<1>2. RestOK'
  BY Bounds DEF Take, RestOK, ParserInv, TypeOK, message, observers
<1>3. chunked /\ state \in BodyStates
  BY <1>1 DEF ParserInv, FramingInv, BodyStates, Parsing
<1>4. FramingInv' /\ CountInv'
  BY <1>1 DEF ParserInv, FramingInv, CountInv, LengthRead, BetweenChunks, message, observers, Parsing
<1>5. BodyAsDeclared'
  BY <1>1, <1>3 DEF ParserInv, CountInv, BetweenChunks, ChunkStates, BodyAsDeclared, message, observers, Parsing
<1> QED BY <1>1, <1>2, <1>4, <1>5, Stopped

LEMMA FixedByteKeeps ==
  ASSUME ParserInv, FixedByte
  PROVE  ParserInv'
<1>1. /\ verdict = Parsing /\ entry' = entry /\ state = "fixed_length_entity"
      /\ body' = body + 1 /\ remaining' = (remaining + Modulus - 1) % Modulus
      /\ left' = left - 1 /\ left > 0 /\ isResponse' = isResponse
      /\ UNCHANGED << name, headers, chunked, lengths, digits, declared, total, chunks, startLine >>
  BY DEF FixedByte, Take, observers
<1>2. /\ remaining \in 1 .. (Modulus - 1) /\ body \in Nat
      /\ body + remaining = Last(lengths) /\ ~chunked /\ lengths # << >>
  BY <1>1, Bounds DEF ParserInv, TypeOK, FramingInv, CountInv, BodyStates, ChunkStates, Parsing
<1>3. remaining' = remaining - 1 /\ remaining' \in 0 .. (Modulus - 1)
  BY <1>1, <1>2, OneLess
<1>4. RestOK'
  BY <1>1, <1>2, <1>3, Bounds DEF RestOK, ParserInv, TypeOK
<1>5. state \in BodyStates /\ state \notin LineStates /\ state \notin ChunkStates
  BY <1>1 DEF BodyStates, ChunkStates, LineStates
<1>6. CASE remaining' = 0
  <2>1. Accept /\ state' = state /\ verdict' = "Valid"
    BY <1>6 DEF FixedByte, Accept
  <2>2. FramingInv' /\ CountInv' /\ BodyAsDeclared'
    BY <1>1, <1>2, <1>3, <1>5, <1>6, <2>1 DEF FramingInv, CountInv, BodyAsDeclared
  <2> QED BY <1>1, <1>4, <1>5, <2>1, <2>2, Stopped
<1>7. CASE remaining' # 0
  <2>1. Transit("fixed_length_entity") /\ state' = state /\ verdict' = Parsing
    BY <1>1, <1>7 DEF FixedByte, Transit
  <2>2. FramingInv' /\ CountInv'
    BY <1>1, <1>2, <1>3, <1>5, <1>7, <2>1 DEF FramingInv, CountInv, LengthRead, BetweenChunks, ChunkStates
  <2>3. Onward(state, "fixed_length_entity")
    BY <1>1, <1>5 DEF Onward
  <2> QED BY <1>1, <1>4, <2>1, <2>2, <2>3, Moved
<1> QED BY <1>6, <1>7

LEMMA ConsumeKeeps ==
  ASSUME ParserInv, NEW c \in Chars, Consume(c)
  PROVE  ParserInv'
<1>1. CASE EndChunks
  BY <1>1, ChunksEnd DEF EndChunks, ChunkStates, message
<1>2. CASE ChunkExtension
  BY <1>2, ChunksEnd DEF ChunkExtension, ChunkStates
<1>3. CASE TrailingHeader
  BY <1>3, ChunksEnd DEF TrailingHeader, ChunkStates
<1>4. CASE BadChunk(c)
  BY <1>4, ChunksEnd DEF BadChunk, ChunkStates
<1> QED
  BY <1>1, <1>2, <1>3, <1>4, FollowKeeps, RefuseKeeps, FoldHeaderKeeps, EndNameKeeps,
     EndHeaderKeeps, EndHeadKeeps, ChunkDigitKeeps, EndChunkLengthKeeps, ChunkByteKeeps,
     EndChunkKeeps, FixedByteKeeps DEF Consume

--------------------------------------------------------------------------------
\* A message, the first or the one after resetForResponse, is begun afresh.
LEMMA InitHolds ==
  ASSUME Init
  PROVE  ParserInv
<1>1. TypeOK
  <2>1. state \in States /\ phase \in ParsePhase /\ reached \in ParsePhase /\ entry \in ParsePhase
    BY DEF Init, States, LineStates, ParsePhase, Start, ReceivedFullMessage
  <2>2. lengths \in Seq(Lengths \cup {Junk})
    BY DEF Init
  <2>3. /\ remaining \in 0 .. (Modulus - 1) /\ headers \in 0 .. MaxHeaders /\ body \in Nat
        /\ left \in 0 .. MaxBuffer /\ digits \in 0 .. MaxDigits /\ declared \in Nat
        /\ total \in Nat /\ chunks \in 0 .. MaxChunks /\ startLine \in StartLine
    BY Bounds DEF Init, StartLine
  <2>4. /\ isResponse \in BOOLEAN /\ chunked \in BOOLEAN /\ name \in Names \cup {NoName}
        /\ verdict \in {Waiting, Parsing, Aborted, "Valid", "Invalid"}
    BY DEF Init
  <2> QED BY <2>1, <2>2, <2>3, <2>4 DEF TypeOK
<1>2. PhaseInv /\ ReachedInv
  BY DEF Init, PhaseInv, ReachedInv, LineStates, HeadStates, BodyStates, ChunkStates, Waiting,
         Start, ReceivedHeaders, ReceivedFullMessage
<1>3. FramingInv /\ CountInv /\ BodyAsDeclared
  BY DEF Init, FramingInv, CountInv, LengthRead, BetweenChunks, BodyStates, ChunkStates,
         BodyAsDeclared, Waiting
<1> QED BY <1>1, <1>2, <1>3 DEF ParserInv

LEMMA ResetKeeps ==
  ASSUME ParserInv, ResetForResponse
  PROVE  ParserInv'
<1>1. TypeOK'
  <2>1. state' \in States /\ phase' \in ParsePhase /\ reached' \in ParsePhase
        /\ entry' \in ParsePhase
    BY DEF ResetForResponse, States, LineStates, ParsePhase, Start, ReceivedFullMessage
  <2>2. lengths' \in Seq(Lengths \cup {Junk})
    BY DEF ResetForResponse
  <2>3. /\ remaining' \in 0 .. (Modulus - 1) /\ headers' \in 0 .. MaxHeaders /\ body' \in Nat
        /\ left' \in 0 .. MaxBuffer /\ digits' \in 0 .. MaxDigits /\ declared' \in Nat
        /\ total' \in Nat /\ chunks' \in 0 .. MaxChunks /\ startLine' \in StartLine
    BY Bounds DEF ResetForResponse, StartLine
  <2>4. /\ isResponse' \in BOOLEAN /\ chunked' \in BOOLEAN /\ name' \in Names \cup {NoName}
        /\ verdict' \in {Waiting, Parsing, Aborted, "Valid", "Invalid"}
    BY DEF ResetForResponse
  <2> QED BY <2>1, <2>2, <2>3, <2>4 DEF TypeOK
<1>2. PhaseInv' /\ ReachedInv'
  BY DEF ResetForResponse, PhaseInv, ReachedInv, LineStates, HeadStates, BodyStates, ChunkStates,
         Waiting, Start, ReceivedHeaders, ReceivedFullMessage
<1>3. FramingInv' /\ CountInv' /\ BodyAsDeclared'
  BY DEF ResetForResponse, FramingInv, CountInv, LengthRead, BetweenChunks, BodyStates,
         ChunkStates, BodyAsDeclared, Waiting
<1> QED BY <1>1, <1>2, <1>3 DEF ParserInv

\* Between buffers nothing moves.
LEMMA BufferKeeps ==
  ASSUME ParserInv, ReadBuffer \/ BufferUsedUp
  PROVE  ParserInv'
<1>1. /\ verdict \in {Waiting, Parsing} /\ verdict' \in {Waiting, Parsing}
      /\ UNCHANGED << parser, isResponse, name, message, observers, startLine >>
      /\ \/ entry' = phase /\ reached' = phase
         \/ entry' = entry /\ reached' = reached
  BY DEF ReadBuffer, BufferUsedUp
<1>2. TypeOK'
  BY <1>1, Bounds DEF ReadBuffer, BufferUsedUp, ParserInv, TypeOK, parser, message, observers
<1>3. PhaseInv' /\ FramingInv' /\ CountInv' /\ BodyAsDeclared'
  BY <1>1 DEF ParserInv, PhaseInv, FramingInv, CountInv, LengthRead, BetweenChunks,
              BodyAsDeclared, parser, message, observers, Waiting, Parsing
<1>4. ReachedInv'
  <2>1. phase \in ParsePhase /\ phase \in {Start, ReceivedMessageLine, ReceivedHeaders}
    BY <1>1 DEF ParserInv, TypeOK, PhaseInv, States, Waiting, Parsing
  <2> QED BY <1>1, <2>1 DEF ParserInv, ReachedInv, parser, Waiting, Parsing, Start,
                            ReceivedMessageLine, ReceivedHeaders
<1> QED BY <1>2, <1>3, <1>4 DEF ParserInv

LEMMA StutterKeeps ==
  ASSUME ParserInv, UNCHANGED vars
  PROVE  ParserInv'
  BY DEF ParserInv, TypeOK, PhaseInv, ReachedInv, FramingInv, CountInv, LengthRead,
         BetweenChunks, BodyAsDeclared, vars, message, observers

\* The inductive invariant.
THEOREM ParserSafe == Spec => []ParserInv
<1>1. Init => ParserInv
  BY InitHolds
<1>2. ParserInv /\ [Next]_vars => ParserInv'
  <2> SUFFICES ASSUME ParserInv, [Next]_vars PROVE ParserInv'
    OBVIOUS
  <2>1. CASE ReadBuffer \/ BufferUsedUp
    BY <2>1, BufferKeeps
  <2>2. ASSUME NEW c \in Chars, Consume(c) PROVE ParserInv'
    BY <2>2, ConsumeKeeps
  <2>3. CASE ResetForResponse
    BY <2>3, ResetKeeps
  <2>4. CASE Ended \/ UNCHANGED vars
    BY <2>4, StutterKeeps DEF Ended
  <2> QED BY <2>1, <2>2, <2>3, <2>4 DEF Next
<1> QED BY <1>1, <1>2, PTL DEF Spec

\* The variables keep their types: in particular remaining_ stays within its
\* width, whatever lengths a message declares.
THEOREM ParserTypes == Spec => []TypeOK
<1>1. ParserInv => TypeOK
  BY DEF ParserInv
<1> QED BY <1>1, ParserSafe, PTL

\* However the network cuts a message, a buffer ends as the read handlers take for
\* granted: in the phases, the verdict and the phase that Transaction is modelled
\* with (parse, the loops of read_client_request and read_remote_response).
THEOREM OutcomesArePromised == Spec => []OutcomeAsPromised
<1>1. ASSUME ParserInv PROVE OutcomeAsPromised
  <2> SUFFICES ASSUME verdict \in {Waiting, "Valid", "Invalid"}
               PROVE  LET o == [ reached |-> reached,
                                 verdict |-> IF verdict = Waiting THEN "Incomplete" ELSE verdict ]
                      IN  o \in ParseOutcomes(entry) /\ phase = PhaseAfter(o)
    BY DEF OutcomeAsPromised
  <2> DEFINE v == IF verdict = Waiting THEN "Incomplete" ELSE verdict
             o == [ reached |-> reached, verdict |-> v ]
  <2>1. reached \in Start .. ReceivedHeaders /\ entry \in ParsePhase
    BY <1>1 DEF ParserInv, TypeOK, ReachedInv, ParsePhase, Start, ReceivedHeaders,
                ReceivedFullMessage
  <2>2. v \in Verdicts /\ (v = "Valid" <=> verdict = "Valid")
    BY DEF Verdicts, Waiting
  <2>3. o \in ParseOutcomes(entry)
    BY <1>1, <2>1, <2>2 DEF ParseOutcomes, ParserInv, ReachedInv
  <2>4. phase = PhaseAfter(o)
    BY <1>1, <2>2 DEF PhaseAfter, ParserInv, PhaseInv, ReachedInv
  <2> QED BY <2>3, <2>4
<1> QED BY <1>1, ParserSafe, PTL

\* remaining_ is never decremented below zero, and what it counts is what is still
\* to come of the body (fixed_length_entity and chunk in consume).
THEOREM BytesAreAccountedFor == Spec => []BytesAccountedFor
<1>1. ParserInv => BytesAccountedFor
  BY DEF ParserInv, CountInv, BytesAccountedFor, Parsing
<1> QED BY <1>1, ParserSafe, PTL

\* A message that parse() calls Valid has the body its Content-Length or its chunks
\* declare, unless a chunk's length or their sum does not fit remaining_: for every
\* width, and for the response after any request.
THEOREM BodiesAreAsDeclared == Spec => []BodyAsDeclared
<1>1. ParserInv => BodyAsDeclared
  BY DEF ParserInv
<1> QED BY <1>1, ParserSafe, PTL

================================================================================

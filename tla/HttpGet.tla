------------------------------- MODULE HttpGet -------------------------------
(***************************************************************************)
(* The TolunnetGet command (wget), src/cmds/TolunnetGet.c, with the URL,   *)
(* header and chunk parsers of src/common/http_url.c: redirects, resuming  *)
(* with CONTINUE, the three ways a body ends, and the exit code.           *)
(*                                                                         *)
(* The resource is its bytes 1 .. ht_size.  The server frames a body by    *)
(* Content-Length, by chunks, or by closing the connection, and may drop   *)
(* the connection at any point.  A chunked body is a stream of tokens: a   *)
(* size line, data bytes, a line end; the parser takes them one at a time, *)
(* which is also what it does when a recv() cuts a token in two.           *)
(***************************************************************************)
EXTENDS Integers, Sequences, FiniteSets

CONSTANTS HtSizes,        \* sizes of the resource
          HtRedirects,    \* redirects followed, 5 in the code
          ChunkMax,       \* the largest chunk size accepted, 0x7FFFFFF
          HtWrap          \* values of an int32_t, 2^32

\* What the constants must satisfy.
HtAssumption == /\ HtSizes \subseteq Nat /\ HtRedirects \in Nat /\ ChunkMax \in Nat
                /\ HtWrap \in Nat \ {0}

VARIABLES ht_size,      \* bytes of the resource
          ht_pc,        \* "start", "request", "headers", "body", "closed", "done"
          ht_url,       \* scheme of the current URL
          redirect_count,
          resume_offset, resp_start, total_written,
          ht_file,      \* bytes of the file, as indices of the resource
          status_code,  \* of the response; 0 when its first line is not HTTP
          framing,      \* "length", "chunked" or "close"
          content_length,
          ht_wire,      \* what the server has still to send
          ht_fin,       \* the end of what it sends: "eof" or "error"
          chunk,        \* TnChunkState: state and chunk_rem
          exit_code

htvars == <<ht_size, ht_pc, ht_url, redirect_count, resume_offset, resp_start, total_written,
            ht_file, status_code, framing, content_length, ht_wire, ht_fin, chunk, exit_code>>
response == <<status_code, framing, content_length, ht_wire, ht_fin, chunk>>
counts   == <<resume_offset, resp_start, total_written>>

\* A number in an int32_t: neither the parser of Content-Length nor the counts
\* look for an overflow.
Int32(n) == LET v == n % HtWrap IN IF 2 * v >= HtWrap THEN v - HtWrap ELSE v

Bytes(a, b) == [i \in 1 .. (IF b >= a THEN b - a + 1 ELSE 0) |-> a + i - 1]
Tok(kind, v) == [kind |-> kind, v |-> v]
Data(bytes) == [i \in DOMAIN bytes |-> Tok("data", bytes[i])]

\* The rest of the resource as chunks of one or two bytes and the last chunk.
Chunks(bytes, k) ==
    LET One(b) == <<Tok("size", Len(b))>> \o Data(b) \o <<Tok("eol", 0)>>
        cut == IF k < Len(bytes) THEN k ELSE Len(bytes)
    IN (IF cut > 0 THEN One(SubSeq(bytes, 1, cut)) ELSE <<>>)
       \o (IF cut < Len(bytes) THEN One(SubSeq(bytes, cut + 1, Len(bytes))) ELSE <<>>)
       \o <<Tok("size", 0)>>

----------------------------------------------------------------------------
ExitsWith(code) == ht_pc' = "done" /\ exit_code' = code

\* CONTINUE looks at the file that is there; it is a part of the resource.
Resume ==
    /\ ht_pc = "start"
    /\ \E cont \in BOOLEAN :
         resume_offset' = IF cont THEN Len(ht_file) ELSE 0
    /\ ht_pc' = "request"
    /\ UNCHANGED <<ht_size, ht_url, redirect_count, resp_start, total_written, ht_file,
                   response, exit_code>>

\* Name, socket and connection; any of them may fail, and https is refused.
Connect ==
    /\ ht_pc = "request"
    /\ \/ redirect_count > HtRedirects /\ ExitsWith(20)
       \/ redirect_count <= HtRedirects /\ ht_url = "http" /\ ht_pc' = "headers"
          /\ UNCHANGED exit_code
       \/ redirect_count <= HtRedirects /\ ExitsWith(20)
    /\ UNCHANGED <<ht_size, ht_url, redirect_count, counts, ht_file, response>>

\* The server's answer to a request without or with a Range, cut anywhere.
\* Only a close-framed body has no end of its own: there EOF is its end.
HttpAnswers(code, first) ==
    \E frame \in {"length", "chunked", "close"}, k \in 1 .. 2 :
      LET bytes == Bytes(first, ht_size)
          body == IF frame = "chunked" THEN Chunks(bytes, k) ELSE Data(bytes)
      IN /\ status_code' = code /\ framing' = frame
         /\ content_length' = IF frame = "length" THEN Int32(Len(bytes)) ELSE 0
         /\ \E cut \in 0 .. Len(body) :
              /\ ht_wire' = SubSeq(body, 1, cut)
              /\ ht_fin' \in IF frame = "close" /\ cut < Len(body)
                             THEN {"error"} ELSE {"eof", "error"}
         /\ chunk' = [state |-> "SIZE", rem |-> 0]

\* A chunk size the parser refuses, or an answer that is not HTTP.
OddAnswer ==
    \/ /\ status_code' = 200 /\ framing' = "chunked" /\ content_length' = 0
       /\ ht_wire' = <<Tok("size", ChunkMax + 1)>>
       /\ ht_fin' = "eof" /\ chunk' = [state |-> "SIZE", rem |-> 0]
    \/ /\ status_code' = 0 /\ framing' = "close" /\ content_length' = 0
       /\ ht_wire' = <<Tok("data", 0)>>
       /\ ht_fin' = "eof" /\ chunk' = [state |-> "SIZE", rem |-> 0]

\* An answer below 400 that does not carry the resource: 100 and what follows it,
\* 204, or 304, which may give the length of the body it does not have.
OtherAnswer(code) ==
    \E frame \in {"length", "close"}, n \in 0 .. 1 :
      /\ status_code' = code /\ framing' = frame
      /\ content_length' = IF frame = "length" THEN Int32(ht_size) ELSE 0
      /\ ht_wire' = [i \in 1 .. n |-> Tok("data", 0)]
      /\ ht_fin' \in {"eof", "error"} /\ chunk' = [state |-> "SIZE", rem |-> 0]

\* The two Open calls.  MODE_READWRITE is tried for a 206 only; a file that
\* cannot be opened so is opened as a new one.
OpenOutput(code) ==
    \/ /\ code = 206 /\ resume_offset > 0
       /\ resp_start' = resume_offset /\ total_written' = resume_offset
       /\ ht_pc' = "body" /\ UNCHANGED <<ht_file, resume_offset, exit_code>>
    \/ /\ ht_file' = <<>> /\ total_written' = 0
       /\ ht_pc' = "body" /\ UNCHANGED <<resume_offset, resp_start, exit_code>>
    \/ ExitsWith(20) /\ UNCHANGED <<ht_file, counts>>

\* tn_http_resolve_redirect and the URL parser: a Location that is missing or
\* does not parse ends the command, an https one at the next request.
Redirected ==
    \/ ExitsWith(20) /\ UNCHANGED <<ht_url, redirect_count>>
    \/ /\ ht_url' \in {"http", "https"} /\ redirect_count' = redirect_count + 1
       /\ ht_pc' = "request" /\ UNCHANGED exit_code

Headers ==
    /\ ht_pc = "headers"
    /\ \/ \* no end of the headers in 2047 bytes, or a status from 400 on
          ExitsWith(20) /\ UNCHANGED <<ht_url, redirect_count, counts, ht_file, response>>
       \/ Redirected /\ UNCHANGED <<counts, ht_file, response>>
       \/ /\ \/ HttpAnswers(200, 1) /\ OpenOutput(200)
             \/ /\ resume_offset > 0 /\ resume_offset < ht_size
                /\ HttpAnswers(206, resume_offset + 1) /\ OpenOutput(206)
             \/ OddAnswer /\ OpenOutput(200)
             \/ \E code \in {100, 204, 304} : OtherAnswer(code) /\ OpenOutput(code)
          /\ UNCHANGED <<ht_url, redirect_count>>
    /\ UNCHANGED ht_size

----------------------------------------------------------------------------
\* One token through tn_chunk_feed: what it writes and the state after it.
Chunk(state, rem) == [state |-> state, rem |-> rem]
tn_chunk_feed(c, t) ==
    CASE c.state = "SIZE" /\ t.kind = "size" ->
           IF t.v > ChunkMax THEN Chunk("ERROR", 0)
           ELSE IF t.v = 0 THEN Chunk("DONE", 0) ELSE Chunk("DATA", t.v)
      [] c.state = "DATA" -> IF c.rem = 1 THEN Chunk("CRLF", 0) ELSE Chunk("DATA", c.rem - 1)
      [] c.state = "CRLF" -> IF t.kind = "eol" THEN Chunk("SIZE", 0) ELSE c
      [] OTHER -> c

Writes(t) == framing # "chunked" \/ chunk.state = "DATA"

\* A length that counts the resumed bytes too.
DoneWithResumed ==
    \/ framing = "chunked" /\ chunk.state = "DONE"
    \/ framing = "length" /\ content_length > 0 /\ Int32(total_written) >= content_length

\* The body is complete before EOF.
BodyDone ==
    \/ framing = "chunked" /\ chunk.state = "DONE"
    \/ /\ framing = "length" /\ content_length > 0
       /\ Int32(total_written - resp_start) >= content_length

\* get_feed_body with one token; Write() may be short, a bad chunk ends it.  What
\* one recv() brings is written to its end, also past the end of the body.
Feed ==
    /\ ht_pc = "body" /\ ht_wire # <<>>
    /\ LET t == Head(ht_wire)
           c == IF framing = "chunked" THEN tn_chunk_feed(chunk, t) ELSE chunk
       IN /\ ht_wire' = Tail(ht_wire) /\ chunk' = c
          /\ \/ c.state = "ERROR" /\ ExitsWith(20) /\ UNCHANGED <<ht_file, total_written>>
             \/ /\ c.state # "ERROR" /\ Writes(t)
                /\ ht_file' = Append(ht_file, t.v) /\ total_written' = total_written + 1
                /\ UNCHANGED <<ht_pc, exit_code>>
             \/ c.state # "ERROR" /\ Writes(t) /\ ExitsWith(20)
                /\ UNCHANGED <<ht_file, total_written>>
             \/ c.state # "ERROR" /\ ~Writes(t)
                /\ UNCHANGED <<ht_file, total_written, ht_pc, exit_code>>
    /\ UNCHANGED <<ht_size, ht_url, redirect_count, resume_offset, resp_start, status_code,
                   framing, content_length, ht_fin>>

\* EOF is complete only when nothing else marks the end.
EofOk == framing # "chunked" /\ content_length <= 0

\* The body's own end, recv() returning 0, an error, or Ctrl-C.
BodyEnds ==
    /\ ht_pc = "body"
    /\ \/ BodyDone /\ ExitsWith(0)
       \/ ~BodyDone /\ ht_wire = <<>> /\ ht_fin = "eof" /\ ExitsWith(IF EofOk THEN 0 ELSE 20)
       \/ ~BodyDone /\ ht_wire = <<>> /\ ht_fin = "error" /\ ExitsWith(20)
       \/ ~BodyDone /\ ExitsWith(10)
    /\ UNCHANGED <<ht_size, ht_url, redirect_count, counts, ht_file, response>>

HtInit ==
    /\ ht_size \in HtSizes /\ ht_pc = "start" /\ ht_url = "http" /\ redirect_count = 0
    /\ resume_offset = 0 /\ resp_start = 0 /\ total_written = 0
    /\ \E k \in 0 .. ht_size : 2 * k < HtWrap /\ ht_file = Bytes(1, k)
    /\ status_code = 0 /\ framing = "close" /\ content_length = 0
    /\ ht_wire = <<>> /\ ht_fin = "eof" /\ chunk = [state |-> "SIZE", rem |-> 0]
    /\ exit_code = 0

HtNext == Resume \/ Connect \/ Headers \/ Feed \/ BodyEnds

----------------------------------------------------------------------------
HtTypeOK ==
    /\ ht_pc \in {"start", "request", "headers", "body", "done"} /\ ht_size \in HtSizes
    /\ ht_url \in {"http", "https"} /\ redirect_count \in 0 .. HtRedirects + 1
    /\ resume_offset \in 0 .. ht_size /\ total_written \in Nat /\ exit_code \in {0, 10, 20}
    /\ chunk.state \in {"SIZE", "DATA", "CRLF", "DONE", "ERROR"} /\ chunk.rem \in 0 .. ChunkMax

\* The first byte in a file that is not truncated, and the length of the answer.
FirstByte == IF status_code = 206 /\ resp_start = 0 THEN resume_offset + 1 ELSE 1
AnswerLen == ht_size - (IF status_code = 206 THEN resume_offset ELSE 0)

\* What RC 0 tells of the file.  When the answer carries the resource and its
\* Content-Length is read for what it is, the file is complete: however the body
\* is framed, wherever recv() cuts it, and whatever ends the connection early
\* ("never report success").  A file reopened as a new one is complete from the
\* resumed byte on only.  A Content-Length past the int32_t is read as another
\* number: as a smaller one it ends the body early, never before that number of
\* bytes, and as a negative one it ends it with the connection.  Any other answer
\* below 400, and one that is not HTTP, leaves nothing of the resource in the file.
SuccessMeansWhole ==
    ht_pc = "done" /\ exit_code = 0 =>
      /\ status_code \in {200, 206} =>
           IF framing # "length" \/ content_length = AnswerLen
           THEN ht_file = Bytes(FirstByte, ht_size)
           ELSE /\ \E k \in 0 .. ht_size : ht_file = Bytes(FirstByte, k)
                /\ content_length > 0 => Len(ht_file) - resp_start >= content_length
      /\ status_code \notin {200, 206} => \A i \in DOMAIN ht_file : ht_file[i] = 0
=============================================================================

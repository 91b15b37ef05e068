------------------------------- MODULE Writers -------------------------------
(***************************************************************************)
(* The chain of writers of a Response (response.go, middleware/compress,   *)
(* log): middleware put writers in front of net/http's, the handler writes *)
(* and flushes through them, finalize closes them.                         *)
(*                                                                         *)
(* The body is a sequence of tokens: <<c>> is a chunk c of the handler,    *)
(* <<e, t>> is the token t compressed by e, where t may be <<"sync">>,     *)
(* what a flush of e adds, or <<"end">>, its footer. Compression takes     *)
(* tokens in and lets them out when it likes.                              *)
(***************************************************************************)
EXTENDS Integers, Sequences, FiniteSetsExt

CONSTANTS
    Encoders,           \* Middleware.Encoders, names
    Resettable,         \* the encoders whose Reset takes a writer alone
    Flushable,          \* the encoders that can flush
    Requests,           \* [accept, upgrade]: headers; accept is a set of [value, q]
    Orders,             \* sequences of middleware, "log" and "compress", as executed
    Chunks              \* what each call of the handler would write; it bounds them

ASSUME EncodersAssumption == Encoders \in Seq(STRING \ {""}) /\ Encoders # <<>>
ASSUME RequestsAssumption ==
    Requests \subseteq [accept : SUBSET [value : STRING, q : STRING], upgrade : BOOLEAN]
ASSUME OrdersAssumption == Orders \subseteq Seq({"log", "compress"})
ASSUME ChunksAssumption == Chunks \in Seq(STRING \ {"sync", "end"})

VARIABLES
    request,            \* headers of the request; asked: accept as it was received
    todo,               \* middleware not executed yet
    r,                  \* the Response, its chain and what net/http sent
    written,            \* what the handler has written
    calls,              \* calls of the handler
    did                 \* the last step

writersVars == <<request, todo, r, written, calls, did>>

\* chain: first the writer that the handler writes to. header: what is to be sent.
\* sent: the header as it was when WriteHeader was called, early when the handler did
\* that. wire: the body.
Fresh == [chain |-> <<>>, header |-> [encoding |-> "", vary |-> FALSE, length |-> FALSE, type |-> ""],
          sent |-> <<>>, wire |-> <<>>, status |-> 0, empty |-> TRUE, wroteHeader |-> FALSE,
          entries |-> <<>>, early |-> FALSE]

LogLink == [is |-> "log", encoder |-> "", pending |-> <<>>, empty |-> TRUE, length |-> 0]
CompressLink(e) == [LogLink EXCEPT !.is = "compress", !.encoder = e]

-----------------------------------------------------------------------------
(* Which encoder. *)

\* ParseMultiValuesHeader: the priority of a value in tenths, 10 without q; a q that
\* the regular expression refuses, such as "q=1", counts as 0.
Priority(h) == IF h.q = "" THEN 10 ELSE IF h.q = "q=0.5" THEN 5 ELSE 0

\* getEncoder: of the highest priority that settles it, the first encoder it names,
\* else the first of all for "*".
Chosen(accept) ==
    LET named(p) == {i \in DOMAIN Encoders : \E h \in accept : Priority(h) = p /\ h.value = Encoders[i]}
        any(p)   == \E h \in accept : Priority(h) = p /\ h.value = "*"
        settled  == {p \in {Priority(h) : h \in accept} : named(p) # {} \/ any(p)}
        p        == Max(settled)
    IN  IF settled = {} THEN {}
        ELSE {Encoders[IF named(p) # {} THEN Min(named(p)) ELSE 1]}

\* Mutant: the header stays for the next middleware.
CompressAgain ==
    /\ todo # <<>> /\ Head(todo) = "compress"
    /\ todo' = Tail(todo)
    /\ r' = [r EXCEPT !.chain = [i \in 1..Cardinality(Chosen(request.accept)) |->
                                    CompressLink(CHOOSE e \in Chosen(request.accept) : TRUE)] \o @]
    /\ did' = "wrap"
    /\ UNCHANGED <<request, written, calls>>

\* Middleware.Handle of compress.
Compress ==
    LET encoder == IF request.upgrade THEN {} ELSE Chosen(request.accept)
    IN  /\ todo # <<>> /\ Head(todo) = "compress"
        /\ todo' = Tail(todo)
        /\ \/ encoder = {} /\ UNCHANGED <<request, r>>
           \/ \E e \in encoder :
                 /\ request' = [request EXCEPT !.accept = {}]
                 /\ r' = [r EXCEPT !.chain = <<CompressLink(e)>> \o @]
        /\ did' = "wrap"
        /\ UNCHANGED <<written, calls>>

\* AccessMiddleware.Handle.
Log ==
    /\ todo # <<>> /\ Head(todo) = "log"
    /\ todo' = Tail(todo)
    /\ r' = [r EXCEPT !.chain = <<LogLink>> \o @]
    /\ did' = "wrap"
    /\ UNCHANGED <<request, written, calls>>

-----------------------------------------------------------------------------
(* Through the chain. *)

Encoded(e, tokens) == [i \in DOMAIN tokens |-> <<e, tokens[i]>>]

\* What a link passes on of the tokens written to it, before it flushes or closes in
\* turn, and what it keeps. An encoder nothing was written to is reset to write its
\* footer to nowhere.
Through(link, op, spill, tokens) ==
    LET all == link.pending \o tokens
        flushes == op = "flush" /\ link.encoder \in Flushable
        tail == IF op = "close" THEN <<<<"end">>>> ELSE IF flushes THEN <<<<"sync">>>> ELSE <<>>
    IN  IF link.is = "log" THEN [out |-> tokens, pending |-> <<>>]
        ELSE IF op = "close" /\ link.empty /\ link.encoder \in Resettable
             THEN [out |-> <<>>, pending |-> <<>>]
        ELSE IF op = "close" \/ flushes \/ spill
             THEN [out |-> Encoded(link.encoder, all \o tail), pending |-> <<>>]
        ELSE [out |-> <<>>, pending |-> all]

\* Mutant: what arrives as the response is closed is not counted.
CountedBeforeClose(link, op, tokens) == IF op = "close" THEN link.length ELSE link.length + Len(tokens)

\* Writer.Write of log, until the child is closed.
Counted(link, op, tokens) == link.length + Len(tokens)

\* Write, Flush or Close of the first writer. Each does the same to its child, after
\* what it has written to it.
Pass(s, op, spill, tokens) ==
    LET arriving[i \in 1..(Len(s.chain) + 1)] ==
            IF i = 1 THEN tokens ELSE Through(s.chain[i - 1], op, spill, arriving[i - 1]).out
        after(i) == [s.chain[i] EXCEPT !.pending = Through(s.chain[i], op, spill, arriving[i]).pending,
                                       !.length = Counted(s.chain[i], op, arriving[i])]
    IN  [s EXCEPT !.chain = [i \in DOMAIN s.chain |-> after(i)],
                  !.wire = @ \o arriving[Len(s.chain) + 1]]

-----------------------------------------------------------------------------
(* Response. *)

WriteHeader(s, status) ==
    IF s.wroteHeader THEN s
    ELSE [s EXCEPT !.status = status, !.wroteHeader = TRUE,
                   !.sent = <<[header |-> s.header, status |-> status]>>]

\* compressWriter.PreWrite, whoever calls it; the writer below is asked first.
Prepared(s) ==
    LET encoders == {i \in DOMAIN s.chain : s.chain[i].is = "compress"}
    IN  [s EXCEPT !.chain = [i \in DOMAIN s.chain |-> [s.chain[i] EXCEPT !.empty = FALSE]],
                  !.header = IF encoders = {} THEN @
                             ELSE [encoding |-> s.chain[Min(encoders)].encoder, vary |-> TRUE,
                                   length |-> FALSE,
                                   type |-> IF @.type = "" THEN "detected" ELSE @.type]]

\* Response.PreWrite.
PreWrite(s) ==
    LET t == [(IF s.empty THEN Prepared(s) ELSE s) EXCEPT !.empty = FALSE]
    IN  WriteHeader(t, IF t.status = 0 THEN 200 ELSE t.status)

Handling == todo = <<>> /\ did # "closed" /\ calls < Len(Chunks)

Write(nothing) ==
    LET tokens == IF nothing THEN <<>> ELSE <<<<Chunks[calls + 1]>>>>
    IN  /\ Handling
        /\ \E spill \in BOOLEAN : r' = Pass(PreWrite(r), "write", spill, tokens)
        /\ written' = written \o tokens
        /\ calls' = calls + 1
        /\ did' = "write"
        /\ UNCHANGED <<request, todo>>

\* Response.Flush, compressWriter.Flush, CommonWriter.Flush.
Flush ==
    /\ Handling
    /\ r' = Pass(IF r.wroteHeader THEN r ELSE PreWrite(r), "flush", FALSE, <<>>)
    /\ calls' = calls + 1
    /\ did' = "flush"
    /\ UNCHANGED <<request, todo, written>>

Status(status) ==
    /\ Handling
    /\ r' = IF r.status = 0 THEN [r EXCEPT !.status = status] ELSE r
    /\ calls' = calls + 1
    /\ did' = "status"
    /\ UNCHANGED <<request, todo, written>>

\* writeFile announces the length and the type of what it copies.
SetLength ==
    /\ Handling
    /\ ~r.wroteHeader
    /\ r' = [r EXCEPT !.header.length = TRUE, !.header.type = "set"]
    /\ calls' = calls + 1
    /\ did' = "header"
    /\ UNCHANGED <<request, todo, written>>

\* The handler, or a function of net/http it gives the response to.
HandlerWritesHeader(status) ==
    /\ Handling
    /\ r' = [WriteHeader(r, status) EXCEPT !.early = @ \/ ~r.wroteHeader]
    /\ calls' = calls + 1
    /\ did' = "header"
    /\ UNCHANGED <<request, todo, written>>

\* Router.finalize; a status handler may give an empty response a body.
Finalize ==
    /\ todo = <<>> /\ did # "closed"
    /\ \E page \in {<<>>, <<<<"page">>>>} :
         /\ page # <<>> => r.empty /\ r.status # 0
         /\ LET a == IF r.empty /\ r.status = 0 THEN [r EXCEPT !.status = 204] ELSE r
                b == IF page = <<>> THEN a ELSE Pass(PreWrite(a), "write", FALSE, page)
                c == Pass(WriteHeader(b, b.status), "close", FALSE, <<>>)
                logs == {i \in DOMAIN c.chain : c.chain[i].is = "log"}
            IN  r' = [c EXCEPT !.entries = [i \in logs |-> [status |-> c.status,
                                                            length |-> c.chain[i].length]]]
         /\ written' = written \o page
    /\ did' = "closed"
    /\ UNCHANGED <<request, todo, calls>>

WritersInit ==
    /\ \E q \in Requests : request = [accept |-> q.accept, upgrade |-> q.upgrade, asked |-> q.accept]
    /\ todo \in Orders
    /\ r = Fresh
    /\ written = <<>>
    /\ calls = 0
    /\ did = "wrap"

WritersNext ==
    \/ Compress \/ Log \/ Flush \/ SetLength \/ Finalize
    \/ \E nothing \in BOOLEAN : Write(nothing)
    \/ \E status \in {200, 404} : Status(status) \/ HandlerWritesHeader(status)

WritersSpec == WritersInit /\ [][WritersNext]_writersVars

-----------------------------------------------------------------------------

Compressing == {i \in DOMAIN r.chain : r.chain[i].is = "compress"}
Marks == {<<"sync">>, <<"end">>}
Sent == r.sent[1].header
Plain(tokens) ==
    LET kept[n \in 0..Len(tokens)] ==
            IF n = 0 THEN <<>>
            ELSE IF tokens[n] \in Marks THEN kept[n - 1] ELSE Append(kept[n - 1], tokens[n])
    IN  kept[Len(tokens)]
Content == IF Sent.encoding = "" THEN r.wire ELSE [i \in DOMAIN r.wire |-> r.wire[i][2]]

\* An encoder that cannot be reset writes its footer though the response is empty,
\* contrary to compress.go:70.
StrayFooter == r.empty /\ \E i \in Compressing : r.chain[i].encoder \notin Resettable

\* A handler that calls WriteHeader itself before it writes sends the headers before
\* PreWrite can change them: the body is compressed and not announced as such.
HeaderFirst == r.early /\ Compressing # {}

\* What the client gets is what the handler wrote, whatever was buffered, flushed and
\* chained: uncompressed without a Content-Encoding; else complete in the one encoding
\* that the headers say, which the client asked for, and the headers were sent with
\* that encoding in them, Vary, no length of the plain body and no type guessed from
\* compressed bytes ("alter the response headers [...] before they are written",
\* response.go:28; compress.go:22). After Flush nothing that was written is still held
\* back, if the encoder can flush at all (response.go:196).
BodyDecodable ==
    /\ did = "closed" /\ ~StrayFooter /\ ~HeaderFirst =>
         /\ Plain(Content) = written
         /\ Sent.encoding # "" =>
              /\ \A i \in DOMAIN r.wire : r.wire[i][1] = Sent.encoding
              /\ \A i \in DOMAIN Content : Content[i] = <<"end">> <=> i = Len(Content)
              /\ Content # <<>>
              /\ \E h \in request.asked : h.value \in {Sent.encoding, "*"}
              /\ ~request.upgrade
              /\ Sent.vary /\ ~Sent.length /\ Sent.type # ""
         /\ Sent.encoding = "" => \A i \in DOMAIN r.wire : r.wire[i] \notin Marks
    /\ did = "flush" /\ ~HeaderFirst /\ (\A i \in Compressing : r.chain[i].encoder \in Flushable) =>
         Plain(Content) = written

\* Each access log has one entry, with the status that was sent and the length of what
\* passed it: of the compressed body, footer included, when the log middleware is
\* before compress, of the plain one when it is after.
EverythingLogged ==
    did = "closed" =>
        LET logs == {i \in DOMAIN r.chain : r.chain[i].is = "log"}
            compressed(i) == \E j \in 1..(i - 1) : r.chain[j].is = "compress"
        IN  /\ DOMAIN r.entries = logs
            /\ \A i \in logs :
                 /\ r.entries[i].status = r.sent[1].status
                 /\ r.entries[i].length = Len(IF compressed(i) THEN r.wire ELSE written)
=============================================================================

----------------------- MODULE RequestLifecycleProofs -----------------------
(***************************************************************************)
(* Theorems about RequestLifecycle, for any requests, objects, statuses,   *)
(* panics and lengths of handlers.                                         *)
(***************************************************************************)
EXTENDS RequestLifecycle, TLAPS

\* Applications send the codes of final headers only. A code net/http refuses or
\* takes for an informational one leaves the header to net/http.
FinalOnly == \A s \in Statuses : s = 101 \/ s >= 200

\* The codes that may be sent, and those a Response may hold.
Lines == 0..999
Sendable == {s \in Lines : FinalOnly => s = 101 \/ s >= 200}
Codes == Sendable \cup {0}

Responses == [status : Codes, empty : BOOLEAN, wroteHeader : BOOLEAN,
              hijacked : BOOLEAN, err : BOOLEAN]
Chunks == {"app", "details", "generic"}
Bodies == Seq(Chunks)
Nets == [wire : Lines, hijacked : BOOLEAN, broken : BOOLEAN, body : Bodies]
Exchanges == [resp : Responses, net : Nets, panic : BOOLEAN, failed : BOOLEAN]

\* The codes the framework itself sends.
LEMMA CodeFacts ==
    0 \in Lines /\ 200 \in Lines /\ 308 \in Lines /\ 500 \in Codes /\ 500 \in Sendable
  BY DEF Lines, Sendable, Codes

\* A flag of an exchange set leaves the rest of it.
LEMMA NetFlagged ==
    ASSUME NEW n \in Nets, NEW b \in BOOLEAN
    PROVE  /\ [n EXCEPT !.hijacked = b] \in Nets
           /\ [n EXCEPT !.broken = b] \in Nets
  BY DEF Nets

\* What every call of the Response API preserves: the Response knows of the hijack,
\* of the body and of the header.
OneDoc(body) == \A i \in 2..Len(body) : body[i] = "app"

Headed(x) ==
    ~x.net.hijacked =>
        IF x.resp.wroteHeader THEN x.net.wire = x.resp.status /\ x.resp.status # 0
                              ELSE x.net.wire = 0

Good(x) ==
    /\ x \in Exchanges
    /\ x.resp.hijacked = x.net.hijacked
    /\ OneDoc(x.net.body)
    /\ x.resp.empty => x.net.body = <<>>
    /\ ~x.resp.wroteHeader => x.resp.empty
    /\ FinalOnly => Headed(x)

\* What they leave alone.
Keeps(x, y) ==
    /\ y.resp.hijacked = x.resp.hijacked
    /\ y.resp.err = x.resp.err
    /\ y.net.broken = x.net.broken

-----------------------------------------------------------------------------
(* The operators *)

\* What net/http's WriteHeader does to an exchange.
HeaderPassed(x, s, y) ==
    /\ y \in Exchanges /\ Keeps(x, y)
    /\ y.resp = x.resp /\ y.net.body = x.net.body
    /\ y.net.hijacked = x.net.hijacked /\ y.failed = x.failed
    /\ x.net.hijacked \/ x.net.wire # 0 => y = x
    /\ ~x.net.hijacked /\ x.net.wire = 0 /\ (s = 101 \/ s >= 200)
          => y.net.wire = s /\ y.panic = x.panic

LEMMA NetWriteHeaderGood ==
    ASSUME NEW x \in Exchanges, NEW s \in Lines
    PROVE  HeaderPassed(x, s, NetWriteHeader(x, s))
  <1> DEFINE n == [x.net EXCEPT !.wire = s]
             sent == [x EXCEPT !.net.wire = s]
             bad == [x EXCEPT !.panic = TRUE]
  <1>0. x.net \in Nets
    BY DEF Exchanges
  <1>1. /\ n \in Nets /\ n.wire = s /\ n.hijacked = x.net.hijacked
        /\ n.broken = x.net.broken /\ n.body = x.net.body
    BY <1>0 DEF Nets
  <1>2. sent = [x EXCEPT !.net = n]
    BY DEF Exchanges, Nets
  <1> HIDE DEF n
  <1>3. /\ sent \in Exchanges /\ sent.net = n /\ sent.resp = x.resp
        /\ sent.panic = x.panic /\ sent.failed = x.failed
    BY <1>1, <1>2 DEF Exchanges
  <1>4. bad \in Exchanges /\ bad.resp = x.resp /\ bad.net = x.net /\ bad.failed = x.failed
    BY DEF Exchanges
  <1> HIDE DEF sent, bad
  <1>5. /\ (s = 101 \/ s >= 200) => ~(s < 100) /\ ~Informational(s)
        /\ NetWriteHeader(x, s) = IF x.net.hijacked \/ x.net.wire # 0 THEN x
                                  ELSE IF s < 100 THEN bad
                                  ELSE IF Informational(s) THEN x ELSE sent
    BY DEF NetWriteHeader, Informational, sent, bad, Lines
  <1> QED BY <1>1, <1>3, <1>4, <1>5 DEF HeaderPassed, Keeps

LEMMA StatusGood ==
    ASSUME NEW x, Good(x), NEW s \in Codes
    PROVE  LET y == Status(x, s)
           IN  /\ Good(y) /\ Keeps(x, y)
               /\ y = IF x.resp.status = 0 THEN [x EXCEPT !.resp = [x.resp EXCEPT !.status = s]] ELSE x
  BY DEF Status, Good, Exchanges, Responses, Keeps, Headed

\* What Response.WriteHeader does: the status is s, unless the header was written.
Written(x, s, y) ==
    /\ Good(y) /\ Keeps(x, y)
    /\ y.resp.empty = x.resp.empty /\ y.resp.wroteHeader /\ y.failed = x.failed
    /\ y.net.body = x.net.body
    /\ y.resp.status = IF x.resp.wroteHeader THEN x.resp.status ELSE s
    /\ FinalOnly => y.panic = x.panic

LEMMA WriteHeaderGood ==
    ASSUME NEW x \in Exchanges, NEW s \in Sendable,
           x.resp.hijacked = x.net.hijacked, OneDoc(x.net.body), x.resp.empty => x.net.body = <<>>,
           FinalOnly => Headed(x)
    PROVE  Written(x, s, WriteHeader(x, s))
  <1>1. CASE x.resp.wroteHeader
    BY <1>1 DEF WriteHeader, Written, Good, Keeps
  <1>2. CASE ~x.resp.wroteHeader
    <2> DEFINE z == [x EXCEPT !.resp.status = s, !.resp.wroteHeader = TRUE]
               y == NetWriteHeader(z, s)
    <2>1. /\ z \in Exchanges
          /\ z = [x EXCEPT !.resp = [x.resp EXCEPT !.status = s, !.wroteHeader = TRUE]]
      BY DEF Exchanges, Responses, Codes
    <2>2. /\ z.net = x.net /\ z.panic = x.panic /\ z.failed = x.failed
          /\ z.resp.status = s /\ z.resp.wroteHeader /\ z.resp.empty = x.resp.empty
          /\ z.resp.hijacked = x.resp.hijacked /\ z.resp.err = x.resp.err
      BY <2>1 DEF Exchanges, Responses
    <2>3. WriteHeader(x, s) = y
      BY <1>2 DEF WriteHeader
    <2> HIDE DEF z
    <2>4. s \in Lines /\ (FinalOnly => (s = 101 \/ s >= 200) /\ s # 0)
      BY DEF Sendable, Lines
    <2>5. HeaderPassed(z, s, y)
      <3>1. z \in Exchanges
        BY <2>1
      <3>2. s \in Lines
        BY <2>4
      <3> QED BY ONLY <3>1, <3>2, NetWriteHeaderGood
    <2> HIDE DEF y
    <2>6. Keeps(x, y)
      BY <2>2, <2>5 DEF Keeps, HeaderPassed
    <2>7. FinalOnly => Headed(y) /\ y.panic = x.panic
      <3> SUFFICES ASSUME FinalOnly PROVE Headed(y) /\ y.panic = x.panic
        OBVIOUS
      <3>1. CASE x.net.hijacked
        BY <3>1, <2>2, <2>5 DEF Headed, HeaderPassed
      <3>2. CASE ~x.net.hijacked
        BY <3>2, <1>2, <2>2, <2>4, <2>5 DEF Headed, HeaderPassed
      <3> QED BY <3>1, <3>2
    <2>8. Good(y)
      BY <2>2, <2>5, <2>7 DEF Good, HeaderPassed
    <2> QED BY <1>2, <2>2, <2>3, <2>5, <2>6, <2>7, <2>8 DEF Written, HeaderPassed
  <1> QED BY <1>1, <1>2
LEMMA PreWriteGood ==
    ASSUME NEW x, Good(x)
    PROVE  LET y == PreWrite(x)
           IN  /\ Good(y) /\ Keeps(x, y)
               /\ ~y.resp.empty /\ y.resp.wroteHeader
               /\ y.net.body = x.net.body /\ y.failed = x.failed
               /\ y.resp.status = IF x.resp.wroteHeader THEN x.resp.status
                                  ELSE IF x.resp.status = 0 THEN 200 ELSE x.resp.status
               /\ FinalOnly => y.panic = x.panic
  <1> DEFINE z == [x EXCEPT !.resp.empty = FALSE]
             s == IF z.resp.status = 0 THEN 200 ELSE z.resp.status
             y == WriteHeader(z, s)
  <1>1. x \in Exchanges /\ x.resp \in Responses
    BY DEF Good, Exchanges
  <1>2. /\ z \in Exchanges
        /\ z.net = x.net /\ z.panic = x.panic /\ z.failed = x.failed
        /\ z.resp.status = x.resp.status /\ z.resp.wroteHeader = x.resp.wroteHeader
        /\ z.resp.empty = FALSE
        /\ z.resp.hijacked = x.resp.hijacked /\ z.resp.err = x.resp.err
    BY <1>1 DEF Exchanges, Responses
  <1> HIDE DEF z
  <1>3. s \in Sendable
    BY <1>1, <1>2 DEF Responses, Codes, Sendable, Lines
  <1>4. Written(z, s, y)
    BY <1>2, <1>3, WriteHeaderGood DEF Good, Headed
  <1>5. PreWrite(x) = y
    BY DEF PreWrite, z
  <1> HIDE DEF y
  <1> QED BY <1>2, <1>4, <1>5 DEF Written, Keeps

LEMMA BodyReplaced ==
    ASSUME NEW n \in Nets, NEW b \in Bodies
    PROVE  LET m == [n EXCEPT !.body = b]
           IN  /\ m \in Nets /\ m.wire = n.wire /\ m.hijacked = n.hijacked
               /\ m.broken = n.broken /\ m.body = b
  BY DEF Nets

LEMMA NetWriteGood ==
    ASSUME NEW x, Good(x), x.resp.wroteHeader, ~x.resp.empty,
           NEW chunk \in Chunks, chunk = "app" \/ x.net.body = <<>>
    PROVE  LET y == NetWrite(x, chunk)
           IN  /\ Good(y) /\ Keeps(x, y)
               /\ y.resp = x.resp
               /\ FinalOnly => y.panic = x.panic
               /\ FinalOnly /\ ~x.failed /\ y.failed
                     => y.net.hijacked \/ y.net.broken \/ Bodyless(y.net.wire)
  <1> DEFINE z == NetWriteHeader(x, 200)
             n == [z.net EXCEPT !.body = Append(@, chunk)]
             ok == [z EXCEPT !.net.body = Append(@, chunk)]
             bad == [z EXCEPT !.failed = TRUE]
  <1>1. x \in Exchanges
    BY DEF Good
  <1>2. HeaderPassed(x, 200, z)
    BY <1>1, CodeFacts, NetWriteHeaderGood
  <1>3. NetWrite(x, chunk) = IF z.net.hijacked \/ z.net.broken \/ Bodyless(z.net.wire) THEN bad ELSE ok
    BY DEF NetWrite
  <1> HIDE DEF z
  <1>4. z \in Exchanges /\ z.net \in Nets
    BY <1>2 DEF HeaderPassed, Exchanges
  <1>5. /\ n \in Nets /\ n.wire = z.net.wire /\ n.hijacked = z.net.hijacked
        /\ n.broken = z.net.broken /\ n.body = Append(z.net.body, chunk)
        /\ ok = [z EXCEPT !.net = n]
    <2> DEFINE b == Append(z.net.body, chunk)
    <2>1. b \in Bodies
      BY <1>4 DEF Nets, Bodies
    <2>2. ok = [z EXCEPT !.net = n]
      BY <1>4 DEF Exchanges, Nets
    <2>3. n = [z.net EXCEPT !.body = b]
      OBVIOUS
    <2> HIDE DEF b, n, ok
    <2>4. /\ n \in Nets /\ n.wire = z.net.wire /\ n.hijacked = z.net.hijacked
          /\ n.broken = z.net.broken /\ n.body = b
      BY <1>4, <2>1, <2>3, BodyReplaced
    <2> QED BY <2>2, <2>4 DEF b
  <1>6. OneDoc(n.body)
    <2>1. z.net.body \in Seq(Chunks) /\ OneDoc(z.net.body) /\ (chunk = "app" \/ z.net.body = <<>>)
      BY <1>2, <1>4 DEF HeaderPassed, Nets, Bodies, Good
    <2> QED BY <1>5, <2>1 DEF OneDoc
  <1> HIDE DEF n
  <1>7. /\ ok \in Exchanges /\ ok.net = n /\ ok.resp = z.resp /\ ok.panic = z.panic /\ ok.failed = z.failed
        /\ bad \in Exchanges /\ bad.net = z.net /\ bad.resp = z.resp /\ bad.panic = z.panic
    BY <1>4, <1>5 DEF Exchanges
  <1> HIDE DEF ok, bad
  <1>8. FinalOnly => z.panic = x.panic /\ Headed(ok) /\ Headed(bad)
    BY <1>2, <1>5, <1>7 DEF HeaderPassed, Good, Headed
  <1>9. /\ Good(ok) /\ Keeps(x, ok) /\ ok.resp = x.resp /\ ok.failed = x.failed
        /\ Good(bad) /\ Keeps(x, bad) /\ bad.resp = x.resp
    <2>1. Keeps(x, z) /\ z.resp = x.resp /\ z.failed = x.failed /\ z.net.hijacked = x.net.hijacked
          /\ z.net.body = x.net.body /\ Good(x)
      BY <1>2 DEF HeaderPassed
    <2>2. Keeps(x, ok) /\ Keeps(x, bad)
      BY <2>1, <1>5, <1>7 DEF Keeps
    <2>3. Good(ok)
      BY <2>1, <1>5, <1>6, <1>7, <1>8 DEF Good
    <2>4. Good(bad)
      BY <2>1, <1>7, <1>8 DEF Good
    <2> QED BY <2>1, <2>2, <2>3, <2>4, <1>7
  <1> QED BY <1>3, <1>7, <1>8, <1>9

\* What a call that writes to the body does: after it there is a header, with the
\* status s unless there was one before; only the connection and the status make it fail.
BodyWritten(x, s, y) ==
    /\ Good(y) /\ Keeps(x, y)
    /\ ~y.resp.empty /\ y.resp.wroteHeader
    /\ FinalOnly => y.resp.status = IF x.resp.wroteHeader THEN x.resp.status ELSE s
    /\ FinalOnly /\ ~x.panic /\ ~x.failed /\ (y.panic \/ y.failed)
          => y.net.hijacked \/ y.net.broken \/ Bodyless(y.net.wire)

Chosen(x) == IF x.resp.status = 0 THEN 200 ELSE x.resp.status

LEMMA WriteGood ==
    ASSUME NEW x, Good(x), NEW chunk \in Chunks, chunk = "app" \/ x.resp.empty
    PROVE  BodyWritten(x, Chosen(x), Write(x, chunk))
  <1> DEFINE y == PreWrite(x)
             w == NetWrite(y, chunk)
  <1>1. /\ Good(y) /\ Keeps(x, y)
        /\ ~y.resp.empty /\ y.resp.wroteHeader
        /\ y.net.body = x.net.body /\ y.failed = x.failed
        /\ y.resp.status = IF x.resp.wroteHeader THEN x.resp.status ELSE Chosen(x)
        /\ FinalOnly => y.panic = x.panic
    BY PreWriteGood DEF Chosen
  <1>2. Write(x, chunk) = IF y.panic THEN y ELSE w
    BY DEF Write
  <1> HIDE DEF y
  <1>3. chunk = "app" \/ y.net.body = <<>>
    BY <1>1 DEF Good
  <1>4. /\ Good(w) /\ Keeps(y, w)
        /\ w.resp = y.resp
        /\ FinalOnly => w.panic = y.panic
        /\ FinalOnly /\ ~y.failed /\ w.failed
              => w.net.hijacked \/ w.net.broken \/ Bodyless(w.net.wire)
    BY <1>1, <1>3, NetWriteGood
  <1> HIDE DEF w
  <1> QED BY <1>1, <1>2, <1>4 DEF BodyWritten, Keeps
LEMMA FlushGood ==
    ASSUME NEW x, Good(x)
    PROVE  LET y == Flush(x) IN Good(y) /\ Keeps(x, y) /\ (FinalOnly => y.panic = x.panic)
  <1> DEFINE y == IF x.resp.wroteHeader THEN x ELSE PreWrite(x)
             z == NetWriteHeader(y, 200)
  <1>1. Good(y) /\ Keeps(x, y) /\ y.resp.wroteHeader /\ (FinalOnly => y.panic = x.panic)
    BY PreWriteGood DEF Keeps
  <1>2. Flush(x) = IF y.panic THEN y ELSE z
    BY DEF Flush
  <1> HIDE DEF y
  <1>3. HeaderPassed(y, 200, z)
    BY <1>1, NetWriteHeaderGood DEF Good, Lines
  <1> HIDE DEF z
  <1>4. FinalOnly => z = y
    BY <1>1, <1>3 DEF HeaderPassed, Good, Headed
  <1>5. Good(z) /\ Keeps(x, z)
    BY <1>1, <1>3, <1>4 DEF HeaderPassed, Good, Keeps
  <1> QED BY <1>1, <1>2, <1>4, <1>5

LEMMA Failed ==
    ASSUME NEW x, NEW s, NEW y, BodyWritten(x, s, y)
    PROVE  LET z == [y EXCEPT !.panic = y.panic \/ y.failed, !.failed = FALSE]
           IN  BodyWritten(x, s, z) /\ ~z.failed
  <1> DEFINE p == y.panic \/ y.failed
             z == [y EXCEPT !.panic = y.panic \/ y.failed, !.failed = FALSE]
  <1>1. y \in Exchanges /\ p \in BOOLEAN
    BY DEF BodyWritten, Good
  <1>2. z = [y EXCEPT !.panic = p, !.failed = FALSE]
    OBVIOUS
  <1> HIDE DEF p, z
  <1>3. z \in Exchanges /\ z.net = y.net /\ z.resp = y.resp /\ (z.panic <=> p) /\ ~z.failed
    BY <1>1, <1>2 DEF Exchanges
  <1>4. z.panic <=> y.panic \/ y.failed
    BY <1>3 DEF p
  <1>5. BodyWritten(x, s, z) /\ ~z.failed
    BY <1>3, <1>4 DEF BodyWritten, Good, Keeps, Headed
  <1> QED BY <1>5 DEF z

LEMMA FileGood ==
    ASSUME NEW x, Good(x)
    PROVE  BodyWritten(x, Chosen(x), File(x)) /\ ~File(x).failed
  <1> DEFINE y == Write(x, "app")
  <1>1. BodyWritten(x, Chosen(x), y)
    BY WriteGood DEF Chunks
  <1>2. File(x) = [y EXCEPT !.panic = y.panic \/ y.failed, !.failed = FALSE]
    BY DEF File
  <1> HIDE DEF y
  <1>3. LET w == [y EXCEPT !.panic = y.panic \/ y.failed, !.failed = FALSE]
        IN  BodyWritten(x, Chosen(x), w) /\ ~w.failed
    BY <1>1, Failed
  <1> QED BY <1>2, <1>3

LEMMA StatusForced ==
    ASSUME NEW x, Good(x), ~x.resp.wroteHeader, NEW s \in Codes
    PROVE  LET y == [x EXCEPT !.resp.status = s]
           IN  /\ Good(y) /\ Keeps(x, y)
               /\ y.net = x.net /\ y.panic = x.panic /\ y.failed = x.failed
               /\ y.resp.status = s /\ ~y.resp.wroteHeader /\ y.resp.empty = x.resp.empty
  <1> DEFINE y == [x EXCEPT !.resp.status = s]
  <1>1. x \in Exchanges /\ x.resp \in Responses
    BY DEF Good, Exchanges
  <1>2. /\ y \in Exchanges
        /\ y.net = x.net /\ y.panic = x.panic /\ y.failed = x.failed
        /\ y.resp.status = s /\ y.resp.wroteHeader = x.resp.wroteHeader /\ y.resp.empty = x.resp.empty
        /\ y.resp.hijacked = x.resp.hijacked /\ y.resp.err = x.resp.err
    BY <1>1 DEF Exchanges, Responses
  <1> HIDE DEF y
  <1>3. Good(y) /\ Keeps(x, y)
    BY <1>2 DEF Good, Keeps, Headed
  <1> QED BY <1>2, <1>3 DEF y

LEMMA JSONGood ==
    ASSUME NEW x, Good(x), NEW s \in Codes, FinalOnly => x.resp.wroteHeader \/ s # 0,
           NEW chunk \in Chunks, chunk = "app" \/ x.resp.empty
    PROVE  BodyWritten(x, s, JSON(x, s, chunk)) /\ ~JSON(x, s, chunk).failed
  <1> DEFINE f == [x EXCEPT !.resp.status = s]
             z == IF x.resp.wroteHeader THEN x ELSE f
             y == Write(z, chunk)
  <1>1. /\ Good(z) /\ Keeps(x, z) /\ z.net = x.net /\ z.panic = x.panic /\ z.failed = x.failed
        /\ z.resp.empty = x.resp.empty /\ (z.resp.wroteHeader <=> x.resp.wroteHeader)
        /\ z.resp.status = IF x.resp.wroteHeader THEN x.resp.status ELSE s
    <2>1. CASE x.resp.wroteHeader
      BY <2>1 DEF Keeps
    <2>2. CASE ~x.resp.wroteHeader
      <3>1. /\ Good(f) /\ Keeps(x, f)
            /\ f.net = x.net /\ f.panic = x.panic /\ f.failed = x.failed
            /\ f.resp.status = s /\ ~f.resp.wroteHeader /\ f.resp.empty = x.resp.empty
        BY <2>2, StatusForced
      <3>2. z = f
        BY <2>2
      <3> HIDE DEF f, z
      <3> QED BY <2>2, <3>1, <3>2
    <2> QED BY <2>1, <2>2
  <1>2. JSON(x, s, chunk) = [y EXCEPT !.panic = y.panic \/ y.failed, !.failed = FALSE]
    BY DEF JSON
  <1> HIDE DEF z
  <1>3. BodyWritten(z, Chosen(z), y)
    BY <1>1, WriteGood
  <1> HIDE DEF y
  <1>4. BodyWritten(x, s, y)
    BY <1>1, <1>3 DEF BodyWritten, Chosen, Keeps
  <1>5. LET w == [y EXCEPT !.panic = y.panic \/ y.failed, !.failed = FALSE]
        IN  BodyWritten(x, s, w) /\ ~w.failed
    BY <1>4, Failed
  <1> QED BY <1>2, <1>5
\* A panic that leaves a status handler was one about the connection.
Explained(y) == y.net.hijacked \/ y.net.broken \/ (debug /\ Bodyless(y.net.wire))

\* What Response.error does.
ErrorAnswered(x, hasErr, y) ==
    /\ Good(y)
    /\ y.resp.hijacked = x.resp.hijacked /\ y.net.broken = x.net.broken /\ y.resp.err = hasErr
    /\ x.resp.wroteHeader => y.resp.wroteHeader
    /\ ~x.resp.empty => ~y.resp.empty
    /\ ~x.failed => ~y.failed
    /\ FinalOnly => y.resp.status = IF x.resp.status = 0 THEN 500 ELSE x.resp.status
    /\ FinalOnly /\ ~x.panic /\ ~x.failed /\ y.panic => Explained(y)

LEMMA RespErrorGood ==
    ASSUME NEW x, Good(x), NEW hasErr \in BOOLEAN
    PROVE  ErrorAnswered(x, hasErr, RespError(x, hasErr))
  <1> DEFINE y == [x EXCEPT !.resp.err = hasErr]
             s == IF y.resp.status = 0 THEN 500 ELSE y.resp.status
             j == JSON(y, s, "details")
             t == Status(y, 500)
  <1>1. x \in Exchanges /\ x.resp \in Responses
    BY DEF Good, Exchanges
  <1>2. /\ y \in Exchanges
        /\ y.net = x.net /\ y.panic = x.panic /\ y.failed = x.failed
        /\ y.resp.status = x.resp.status /\ y.resp.wroteHeader = x.resp.wroteHeader
        /\ y.resp.empty = x.resp.empty /\ y.resp.hijacked = x.resp.hijacked /\ y.resp.err = hasErr
    BY <1>1 DEF Exchanges, Responses
  <1>3. RespError(x, hasErr) = IF debug /\ y.resp.empty /\ ~y.resp.hijacked THEN j ELSE t
    BY DEF RespError
  <1>4. y.resp.status \in Codes
    BY <1>1, <1>2 DEF Responses
  <1> HIDE DEF y
  <1>5. Good(y)
    BY <1>2 DEF Good, Headed
  <1>6. s \in Codes /\ s # 0
    BY <1>4, CodeFacts
  <1>7. CASE debug /\ y.resp.empty /\ ~y.resp.hijacked
    <2>1. BodyWritten(y, s, j) /\ ~j.failed
      BY <1>5, <1>6, <1>7, JSONGood DEF Chunks
    <2>2. j.net.hijacked = j.resp.hijacked /\ ~y.net.hijacked
      BY <1>5, <1>7, <2>1 DEF BodyWritten, Good
    <2>3. FinalOnly /\ y.resp.wroteHeader => y.resp.status # 0
      BY <1>5, <2>2 DEF Good, Headed
    <2> HIDE DEF j
    <2> QED BY <1>2, <1>3, <1>7, <2>1, <2>2, <2>3 DEF BodyWritten, ErrorAnswered, Keeps, Explained
  <1>8. CASE ~(debug /\ y.resp.empty /\ ~y.resp.hijacked)
    <2>1. Good(t) /\ Keeps(y, t)
          /\ t = IF y.resp.status = 0 THEN [y EXCEPT !.resp = [y.resp EXCEPT !.status = 500]] ELSE y
      BY <1>5, StatusGood DEF Codes, Sendable, Lines
    <2>2. /\ t.panic = y.panic /\ t.failed = y.failed /\ t.resp.wroteHeader = y.resp.wroteHeader
          /\ t.resp.empty = y.resp.empty
          /\ t.resp.status = IF y.resp.status = 0 THEN 500 ELSE y.resp.status
      BY <1>2, <2>1 DEF Exchanges, Responses
    <2> HIDE DEF t
    <2> QED BY <1>2, <1>3, <1>8, <2>1, <2>2 DEF ErrorAnswered, Keeps
  <1> QED BY <1>7, <1>8

\* What a status handler does: it leaves a status, the one there was if it was sent.
Handled(x, y) ==
    /\ Good(y) /\ Keeps(x, y)
    /\ ~x.failed => ~y.failed
    /\ FinalOnly /\ ~x.panic /\ ~x.failed /\ y.panic => Explained(y)

LEMMA PanicHandlerGood ==
    ASSUME NEW x, Good(x)
    PROVE  LET y == PanicHandler(x)
           IN  /\ Handled(x, y)
               /\ FinalOnly => y.resp.status # 0
               /\ FinalOnly /\ x.resp.status # 0 /\ (x.resp.status = 500 \/ x.resp.wroteHeader)
                     => y.resp.status = x.resp.status
  <1> DEFINE y == RespError(x, x.resp.err)
             j == JSON(y, 500, "generic")
             g == ~y.panic /\ y.resp.empty /\ ~y.resp.hijacked /\ (y.resp.status = 500 \/ ~y.resp.wroteHeader)
  <1>1. x.resp.err \in BOOLEAN
    BY DEF Good, Exchanges, Responses
  <1>2. ErrorAnswered(x, x.resp.err, y)
    BY <1>1, RespErrorGood
  <1>3. PanicHandler(x) = IF g THEN j ELSE y
    BY DEF PanicHandler
  <1> HIDE DEF y
  <1>4. CASE ~g
    BY <1>2, <1>3, <1>4 DEF ErrorAnswered, Handled, Keeps
  <1>5. CASE g
    <2>1. BodyWritten(y, 500, j) /\ ~j.failed
      BY <1>2, <1>5, JSONGood DEF ErrorAnswered, Codes, Sendable, Lines, Chunks
    <2> HIDE DEF j
    <2>2. j.net.hijacked = j.resp.hijacked /\ j.resp.hijacked = y.resp.hijacked
      BY <2>1 DEF BodyWritten, Good, Keeps
    <2>3. FinalOnly => j.resp.status = 500 /\ j.net.wire = 500
      BY <1>5, <2>1, <2>2 DEF BodyWritten, Good, Headed
    <2>4. ~Bodyless(500)
      BY DEF Bodyless
    <2>5. FinalOnly /\ ~x.panic /\ ~x.failed /\ j.panic => Explained(j)
      BY <1>2, <1>5, <2>1, <2>3, <2>4 DEF BodyWritten, ErrorAnswered, Explained
    <2> QED BY <1>2, <1>3, <1>5, <2>1, <2>3, <2>5 DEF BodyWritten, ErrorAnswered, Handled, Keeps
  <1> QED BY <1>4, <1>5

LEMMA StatusHandlerGood ==
    ASSUME NEW x, Good(x), NEW s, s = 500 \/ (s = x.resp.status /\ x.resp.empty)
    PROVE  LET y == StatusHandler(x, s)
           IN  /\ Handled(x, y)
               /\ FinalOnly /\ x.resp.status # 0 => y.resp.status # 0
               /\ FinalOnly /\ x.resp.status # 0 /\ (s = x.resp.status \/ x.resp.wroteHeader)
                     => y.resp.status = x.resp.status
  <1>1. CASE s = 500
    BY <1>1, PanicHandlerGood DEF StatusHandler
  <1>2. CASE s # 500 /\ s \in ErrorStatuses
    <2> DEFINE j == JSON(x, x.resp.status, "generic")
    <2>1. x.resp.status \in Codes /\ x.resp.status # 0 /\ ~Bodyless(x.resp.status)
      <3>1. x.resp.status \in Codes
        BY DEF Good, Exchanges, Responses
      <3>2. x.resp.status \in ErrorStatuses
        BY <1>2
      <3> QED BY <3>1, <3>2 DEF ErrorStatuses, Bodyless
    <2>2. BodyWritten(x, x.resp.status, j) /\ ~j.failed
      BY <1>2, <2>1, JSONGood DEF Chunks
    <2>3. StatusHandler(x, s) = j
      BY <1>2 DEF StatusHandler
    <2> HIDE DEF j
    <2>4. FinalOnly => j.resp.status = x.resp.status /\ (j.net.hijacked \/ j.net.wire = x.resp.status)
      BY <2>2 DEF BodyWritten, Good, Headed
    <2>5. FinalOnly /\ ~x.panic /\ ~x.failed /\ j.panic => Explained(j)
      BY <2>1, <2>2, <2>4 DEF BodyWritten, Explained
    <2> QED BY <2>1, <2>2, <2>3, <2>4, <2>5 DEF BodyWritten, Handled
  <1>3. CASE s # 500 /\ s \notin ErrorStatuses
    BY <1>3 DEF StatusHandler, Handled, Keeps
  <1> QED BY <1>1, <1>2, <1>3
LEMMA RunStatusHandlerGood ==
    ASSUME NEW x, Good(x)
    PROVE  LET y == RunStatusHandler(x)
           IN  /\ Handled(x, y)
               /\ FinalOnly /\ ~x.net.hijacked => y.resp.status # 0
               /\ FinalOnly /\ ~x.net.hijacked /\ x.resp.status # 0 => y.resp.status = x.resp.status
  <1>1. FinalOnly /\ ~x.net.hijacked /\ ~x.resp.empty => x.resp.wroteHeader /\ x.resp.status # 0
    BY DEF Good, Headed
  <1>2. FinalOnly /\ ~x.net.hijacked /\ x.resp.wroteHeader => x.resp.status # 0
    BY DEF Good, Headed
  <1>3. CASE x.resp.empty /\ x.resp.status = 0
    <2> DEFINE t == Status(x, 204)
    <2>1. Good(t) /\ Keeps(x, t) /\ t = [x EXCEPT !.resp = [x.resp EXCEPT !.status = 204]]
      BY <1>3, StatusGood DEF Codes, Sendable, Lines
    <2>2. t.panic = x.panic /\ t.failed = x.failed /\ t.resp.status = 204
      BY <2>1 DEF Good, Exchanges, Responses
    <2>3. RunStatusHandler(x) = t
      BY <1>3 DEF RunStatusHandler
    <2> HIDE DEF t
    <2> QED BY <1>3, <2>1, <2>2, <2>3 DEF Handled
  <1>4. CASE x.resp.empty /\ x.resp.status # 0 /\ ~(x.resp.err /\ x.resp.wroteHeader)
    BY <1>4, StatusHandlerGood DEF RunStatusHandler
  <1>5. CASE x.resp.empty /\ x.resp.status # 0 /\ x.resp.err /\ x.resp.wroteHeader
    BY <1>5, StatusHandlerGood DEF RunStatusHandler
  <1>6. CASE ~x.resp.empty /\ x.resp.err
    <2>1. RunStatusHandler(x) = StatusHandler(x, 500)
      BY <1>6 DEF RunStatusHandler
    <2>2. LET y == StatusHandler(x, 500)
          IN  /\ Handled(x, y)
              /\ FinalOnly /\ x.resp.status # 0 => y.resp.status # 0
              /\ FinalOnly /\ x.resp.status # 0 /\ (500 = x.resp.status \/ x.resp.wroteHeader)
                     => y.resp.status = x.resp.status
      BY StatusHandlerGood
    <2> QED BY <1>1, <1>6, <2>1, <2>2
  <1>7. CASE ~x.resp.empty /\ ~x.resp.err
    BY <1>1, <1>7 DEF RunStatusHandler, Handled, Keeps
  <1> QED BY <1>3, <1>4, <1>5, <1>6, <1>7

\* What finalization does: a request that was not hijacked gets a header, with the
\* status that was chosen.
LEMMA FinalizedGood ==
    ASSUME NEW x, Good(x), ~x.panic, ~x.failed
    PROVE  LET y == Finalized(x)
           IN  /\ Good(y) /\ Keeps(x, y)
               /\ FinalOnly /\ y.panic => Explained(y)
               /\ FinalOnly /\ ~y.panic /\ ~y.net.hijacked =>
                     /\ y.net.wire = y.resp.status /\ y.net.wire # 0
                     /\ x.resp.status # 0 => y.resp.status = x.resp.status
  <1> DEFINE z == RunStatusHandler(x)
             w == WriteHeader(z, z.resp.status)
  <1>1. /\ Handled(x, z)
        /\ FinalOnly /\ ~x.net.hijacked => z.resp.status # 0
        /\ FinalOnly /\ ~x.net.hijacked /\ x.resp.status # 0 => z.resp.status = x.resp.status
    BY RunStatusHandlerGood
  <1>2. Finalized(x) = IF z.panic \/ z.resp.wroteHeader \/ z.resp.hijacked THEN z ELSE w
    BY DEF Finalized, FinalHeader
  <1> HIDE DEF z
  <1>3. z.net.hijacked = x.net.hijacked
    BY <1>1 DEF Handled, Good, Keeps
  <1>4. CASE z.panic \/ z.resp.wroteHeader \/ z.resp.hijacked
    BY <1>1, <1>2, <1>3, <1>4 DEF Handled, Good, Headed
  <1>5. CASE ~(z.panic \/ z.resp.wroteHeader \/ z.resp.hijacked)
    <2>1. z.resp.status \in Sendable
      <3>1. z.resp.status \in Codes /\ (FinalOnly => z.resp.status # 0)
        BY <1>1, <1>3, <1>5 DEF Handled, Good, Exchanges, Responses
      <3> QED BY <3>1, CodeFacts DEF Codes, Sendable
    <2>2. Written(z, z.resp.status, w)
      BY <1>1, <2>1, WriteHeaderGood DEF Handled, Good
    <2> HIDE DEF w
    <2>3. w.net.hijacked = x.net.hijacked
      BY <1>3, <2>2, <1>1 DEF Written, Good, Keeps, Handled
    <2> QED BY <1>1, <1>2, <1>3, <1>5, <2>2, <2>3 DEF Handled, Written, Good, Keeps, Headed
  <1> QED BY <1>4, <1>5

LEMMA RecoveredGood ==
    ASSUME NEW x, Good(x)
    PROVE  LET y == Recovered(x)
           IN  /\ Good(y) /\ y.net = x.net /\ y.resp.hijacked = x.resp.hijacked /\ y.resp.err
               /\ y.resp.wroteHeader = x.resp.wroteHeader
               /\ ~x.resp.wroteHeader => y.resp.status = 500
  <1> DEFINE s == IF x.resp.wroteHeader THEN x.resp.status ELSE 500
             p == [x.resp EXCEPT !.err = TRUE, !.status = s]
             y == Recovered(x)
  <1>1. x \in Exchanges /\ x.resp \in Responses /\ s \in Codes
    <2>1. x \in Exchanges /\ x.resp \in Responses
      BY DEF Good, Exchanges
    <2>2. x.resp.status \in Codes
      BY <2>1 DEF Responses
    <2> QED BY <2>1, <2>2, CodeFacts
  <1>2. y = [x EXCEPT !.panic = FALSE, !.resp.err = TRUE, !.resp.status = s]
    BY DEF Recovered
  <1>3. s = IF x.resp.wroteHeader THEN x.resp.status ELSE 500
    OBVIOUS
  <1> HIDE DEF s, y
  <1>4. y = [x EXCEPT !.panic = FALSE, !.resp = p]
    BY <1>1, <1>2 DEF Exchanges, Responses
  <1>5. /\ p \in Responses /\ p.hijacked = x.resp.hijacked /\ p.err /\ p.empty = x.resp.empty
        /\ p.wroteHeader = x.resp.wroteHeader /\ p.status = s
    BY <1>1 DEF Responses
  <1> HIDE DEF p
  <1>6. y \in Exchanges /\ y.net = x.net /\ y.resp = p
    BY <1>1, <1>4, <1>5 DEF Exchanges
  <1>7. Good(y)
    BY <1>3, <1>5, <1>6 DEF Good, Headed
  <1> QED BY <1>3, <1>5, <1>6, <1>7 DEF y

LEMMA HijackGood ==
    ASSUME NEW x, Good(x)
    PROVE  LET y == Hijack(x)
           IN  /\ Good(y) /\ y.resp.hijacked /\ y.resp.err = x.resp.err
               /\ y.panic = x.panic
  <1> DEFINE p == [x.resp EXCEPT !.hijacked = TRUE]
             n == [x.net EXCEPT !.hijacked = TRUE]
             y == Hijack(x)
  <1>1. x \in Exchanges /\ x.resp \in Responses /\ x.net \in Nets
    BY DEF Good, Exchanges
  <1>2. y = [x EXCEPT !.resp = p, !.net = n]
    BY <1>1 DEF Hijack, Exchanges, Responses, Nets
  <1>3. /\ p \in Responses /\ p.hijacked /\ p.err = x.resp.err /\ p.empty = x.resp.empty
        /\ p.wroteHeader = x.resp.wroteHeader
    BY <1>1 DEF Responses
  <1>4. n \in Nets /\ n.hijacked /\ n.body = x.net.body
    <2>1. n \in Nets
      BY <1>1, NetFlagged
    <2>2. n.hijacked /\ n.body = x.net.body
      BY <1>1 DEF Nets
    <2> QED BY <2>1, <2>2
  <1> HIDE DEF p, n, y
  <1>5. y \in Exchanges /\ y.net = n /\ y.resp = p /\ y.panic = x.panic
    BY <1>1, <1>2, <1>3, <1>4 DEF Exchanges
  <1>6. Good(y)
    BY <1>3, <1>4, <1>5 DEF Good, Headed
  <1> QED BY <1>3, <1>5, <1>6 DEF y
-----------------------------------------------------------------------------
(* The invariant *)

Exchange(p, n) == [resp |-> p, net |-> n, panic |-> FALSE, failed |-> FALSE]

Before == {"outer", "cors", "parse", "validate", "handler"}
After == {"cors", "parse", "validate", "handler", "finalize"}
InUse(r) == Live(r) \/ r \in retained

TypeInv ==
    /\ debug \in BOOLEAN
    /\ stage \in [Requests -> Stages]
    /\ obj \in [Requests -> Objects \cup {NoObject}]
    /\ resp \in [Objects -> Responses]
    /\ net \in [Requests -> Nets]
    /\ pool \subseteq Objects /\ unused \subseteq Objects /\ retained \subseteq Requests
    /\ parseError \in [Requests -> BOOLEAN]
    /\ raised \in [Requests -> BOOLEAN]
    /\ cleanPanic \in [Requests -> BOOLEAN]
    /\ early \in [Requests -> BOOLEAN]

\* A goroutine that keeps a request keeps a hijacked one, which finalize will not
\* put into the pool.
UseInv ==
    /\ \A r, u \in Requests : InUse(r) /\ InUse(u) /\ obj[r] = obj[u] => r = u
    /\ \A r \in Requests : InUse(r) => obj[r] \in Objects /\ obj[r] \notin pool \cup unused
    /\ \A r \in retained :
          /\ stage[r] \in {"finalize", "done", "aborted"}
          /\ stage[r] = "finalize" => resp[obj[r]].hijacked

LiveInv ==
    \A r \in Requests : Live(r) =>
        /\ Good(Exchange(resp[obj[r]], net[r]))
        /\ resp[obj[r]].err => raised[r]

IdleInv ==
    \A r \in Requests : stage[r] = "idle" =>
        /\ net[r].wire = 0 /\ ~net[r].hijacked /\ net[r].body = <<>>
        /\ ~parseError[r] /\ ~raised[r] /\ ~cleanPanic[r] /\ ~early[r]

DocInv == \A r \in Requests : OneDoc(net[r].body)

Core == TypeInv /\ UseInv /\ LiveInv /\ IdleInv /\ DocInv

LEMMA InitCore == Init => Core
  <1> SUFFICES ASSUME Init PROVE Core
    OBVIOUS
  <1>1. [NewResponse EXCEPT !.empty = FALSE] \in Responses
    BY DEF NewResponse, Responses, Codes
  <1>2. [wire |-> 0, hijacked |-> FALSE, broken |-> FALSE, body |-> <<>>] \in Nets
    BY CodeFacts DEF Nets, Bodies
  <1>3. TypeInv
    BY <1>1, <1>2 DEF Init, TypeInv, Stages
  <1>4. \A r \in Requests : stage[r] = "idle" /\ r \notin retained
    BY DEF Init
  <1>5. UseInv /\ LiveInv
    BY <1>4 DEF Init, UseInv, LiveInv, InUse, Live
  <1>6. IdleInv /\ DocInv
    BY DEF Init, IdleInv, DocInv, OneDoc
  <1> QED BY <1>3, <1>5, <1>6 DEF Core

\* A step of r under the recovery middleware: whatever it is, the exchange it leaves
\* is a good one, and an error in it was raised by r.
Advance(r, to, y) ==
    /\ stage[r] \in Before /\ to \in After
    /\ Good(y)
    /\ y.resp.err => raised'[r]
    /\ stage' = [stage EXCEPT ![r] = to]
    /\ Become(r, y)
    /\ raised' \in {raised, [raised EXCEPT ![r] = TRUE]}
    /\ \E b \in BOOLEAN : cleanPanic' = [cleanPanic EXCEPT ![r] = b]
    /\ \E b \in BOOLEAN : parseError' = [parseError EXCEPT ![r] = b]
    /\ \E b \in BOOLEAN : early' = [early EXCEPT ![r] = b]
    /\ \/ retained' = retained
       \/ retained' = retained \cup {r} /\ to = "finalize" /\ y.resp.hijacked
    /\ UNCHANGED <<debug, poolVars>>

LEMMA Settled ==
    ASSUME NEW x, Good(x)
    PROVE  Good(Exchange(x.resp, x.net))
  <1>1. /\ Exchange(x.resp, x.net) \in Exchanges
        /\ Exchange(x.resp, x.net).resp = x.resp /\ Exchange(x.resp, x.net).net = x.net
    BY DEF Good, Exchanges, Exchange
  <1> QED BY <1>1 DEF Good, Headed

LEMMA AdvanceCore ==
    ASSUME Core, NEW r \in Requests, NEW to, NEW y, Advance(r, to, y)
    PROVE  Core'
  <1> USE DEF Core
  <1>1. Live(r) /\ obj[r] \in Objects /\ to \in Stages /\ r \notin retained
    BY DEF Advance, UseInv, InUse, Live, Before, After, Stages
  <1>2. y.resp \in Responses /\ y.net \in Nets /\ OneDoc(y.net.body)
    BY DEF Advance, Good, Exchanges
  <1>3. /\ resp' = [resp EXCEPT ![obj[r]] = y.resp] /\ net' = [net EXCEPT ![r] = y.net]
        /\ obj' = obj /\ pool' = pool /\ unused' = unused /\ debug' = debug
        /\ resp'[obj[r]] = y.resp /\ net'[r] = y.net /\ stage'[r] = to
    BY <1>1 DEF Advance, Become, TypeInv, poolVars
  <1>4. TypeInv'
    <2>1. resp' \in [Objects -> Responses] /\ net' \in [Requests -> Nets]
      BY <1>1, <1>2, <1>3 DEF TypeInv
    <2>2. stage' \in [Requests -> Stages] /\ raised' \in [Requests -> BOOLEAN]
      BY <1>1 DEF Advance, TypeInv
    <2>3. cleanPanic' \in [Requests -> BOOLEAN]
      BY DEF Advance, TypeInv
    <2>4. parseError' \in [Requests -> BOOLEAN] /\ early' \in [Requests -> BOOLEAN]
      BY DEF Advance, TypeInv
    <2>5. retained' \subseteq Requests
      BY DEF Advance, TypeInv
    <2>6. obj' \in [Requests -> Objects \cup {NoObject}] /\ pool' \subseteq Objects
      BY <1>3 DEF TypeInv
    <2>7. debug' \in BOOLEAN /\ unused' \subseteq Objects
      BY <1>3 DEF TypeInv
    <2> QED BY <2>1, <2>2, <2>3, <2>4, <2>5, <2>6, <2>7 DEF TypeInv
  <1>5. \A u \in Requests \ {r} :
           /\ stage'[u] = stage[u] /\ net'[u] = net[u] /\ (u \in retained' <=> u \in retained)
           /\ parseError'[u] = parseError[u] /\ cleanPanic'[u] = cleanPanic[u] /\ early'[u] = early[u]
           /\ raised'[u] = raised[u]
    BY <1>3 DEF Advance, TypeInv
  <1>6. \A u \in Requests \ {r} : InUse(u) => resp'[obj[u]] = resp[obj[u]]
    BY <1>1, <1>3 DEF UseInv, InUse, TypeInv
  <1>7. \A u \in Requests : InUse(u)' => InUse(u)
    BY <1>1, <1>5 DEF InUse, Live
  <1>8. UseInv'
    <2>1. \A u, v \in Requests : InUse(u)' /\ InUse(v)' /\ obj'[u] = obj'[v] => u = v
      BY <1>3, <1>7 DEF UseInv
    <2>2. \A u \in Requests : InUse(u)' => obj'[u] \in Objects /\ obj'[u] \notin pool' \cup unused'
      BY <1>3, <1>7 DEF UseInv
    <2>3. ASSUME NEW u \in retained'
          PROVE  /\ stage'[u] \in {"finalize", "done", "aborted"}
                 /\ stage'[u] = "finalize" => resp'[obj'[u]].hijacked
      <3>1. CASE u = r
        BY <1>1, <1>3, <2>3, <3>1 DEF Advance
      <3>2. CASE u # r
        BY <1>1, <1>3, <1>4, <1>5, <1>6, <2>3, <3>2 DEF UseInv, InUse, TypeInv
      <3> QED BY <3>1, <3>2
    <2> QED BY <2>1, <2>2, <2>3 DEF UseInv
  <1>9. LiveInv'
    <2> SUFFICES ASSUME NEW u \in Requests, Live(u)'
                 PROVE  /\ Good(Exchange(resp'[obj'[u]], net'[u]))
                        /\ resp'[obj'[u]].err => raised'[u]
      BY DEF LiveInv
    <2>1. CASE u = r
      BY <1>3, <2>1, Settled DEF Advance
    <2>2. CASE u # r
      BY <1>3, <1>5, <1>6, <2>2 DEF LiveInv, InUse, Live
    <2> QED BY <2>1, <2>2
  <1>10. IdleInv'
    <2>1. stage'[r] # "idle"
      BY <1>3 DEF Advance, After
    <2> QED BY <1>5, <2>1 DEF IdleInv
  <1>11. DocInv'
    BY <1>2, <1>3, <1>5 DEF DocInv
  <1> QED BY <1>4, <1>8, <1>9, <1>10, <1>11
-----------------------------------------------------------------------------
(* Every step preserves Core *)

LEMMA CurrentGood ==
    ASSUME Core, NEW r \in Requests, Live(r)
    PROVE  LET x == Current(r)
           IN  /\ x = Exchange(resp[obj[r]], net[r])
               /\ Good(x) /\ x.resp = resp[obj[r]] /\ x.net = net[r] /\ ~x.panic /\ ~x.failed
               /\ x.resp.err => raised[r]
  BY DEF Core, LiveInv, Current, Exchange

\* The exchange after a call x under the recovery middleware, and the stage.
Recovery(x) == IF x.panic THEN Recovered(x) ELSE x
NextStage(x, to) == IF x.panic THEN "finalize" ELSE to

\* A call that Perform can run: its error, if any, was raised before.
Ready(r, x) == Good(x) /\ (x.resp.err => raised[r])

\* What Perform does.
Performed(r, from, to, x) ==
    /\ stage[r] = from /\ stage' = [stage EXCEPT ![r] = NextStage(x, to)]
    /\ Become(r, Recovery(x)) /\ Good(Recovery(x))
    /\ Recovery(x).resp.err => raised'[r]
    /\ raised' = IF x.panic THEN [raised EXCEPT ![r] = TRUE] ELSE raised
    /\ cleanPanic' = IF x.panic THEN [cleanPanic EXCEPT ![r] = x.net.wire = 0 /\ ~x.net.hijacked]
                     ELSE cleanPanic
    /\ NextStage(x, to) \in After
    /\ \E b \in BOOLEAN : cleanPanic' = [cleanPanic EXCEPT ![r] = b]

LEMMA PerformEffect ==
    ASSUME Core, NEW r \in Requests, NEW from \in Before, NEW to \in After,
           NEW x, Ready(r, x), Perform(r, from, to, x)
    PROVE  Performed(r, from, to, x)
  <1>1. Good(Recovered(x))
    BY RecoveredGood DEF Ready
  <1>2. raised \in [Requests -> BOOLEAN] /\ cleanPanic \in [Requests -> BOOLEAN]
    BY DEF Core, TypeInv
  <1>3. cleanPanic = [cleanPanic EXCEPT ![r] = cleanPanic[r]] /\ cleanPanic[r] \in BOOLEAN
    BY <1>2
  <1>4. CASE x.panic
    BY <1>1, <1>2, <1>4 DEF Perform, Goto, Recovery, NextStage, After, Performed
  <1>5. CASE ~x.panic
    BY <1>3, <1>5 DEF Perform, Goto, Recovery, NextStage, Performed, Ready
  <1> QED BY <1>4, <1>5

FlagsChanged(r) ==
    /\ \E b \in BOOLEAN : parseError' = [parseError EXCEPT ![r] = b]
    /\ \E b \in BOOLEAN : early' = [early EXCEPT ![r] = b]

\* A call that leaves alone what Perform does not change is an Advance.
LEMMA PerformAdvances ==
    ASSUME Core, NEW r \in Requests, NEW from \in Before, NEW to \in After,
           NEW x, Ready(r, x), Perform(r, from, to, x),
           FlagsChanged(r), retained' = retained, UNCHANGED <<debug, poolVars>>
    PROVE  \E t, y : Advance(r, t, y)
  <1>1. Performed(r, from, to, x)
    BY PerformEffect
  <1>2. raised' \in {raised, [raised EXCEPT ![r] = TRUE]}
    BY <1>1 DEF Performed
  <1>3. Advance(r, NextStage(x, to), Recovery(x))
    BY <1>1, <1>2 DEF Advance, Performed, FlagsChanged
  <1> QED BY <1>3

LEMMA FlagsKept ==
    ASSUME Core, NEW r \in Requests,
           parseError' = parseError \/ parseError' = [parseError EXCEPT ![r] = TRUE],
           early' = early \/ early' = [early EXCEPT ![r] = TRUE]
    PROVE  FlagsChanged(r)
  <1>1. parseError = [parseError EXCEPT ![r] = parseError[r]] /\ parseError[r] \in BOOLEAN
    BY DEF Core, TypeInv
  <1>2. early = [early EXCEPT ![r] = early[r]] /\ early[r] \in BOOLEAN
    BY DEF Core, TypeInv
  <1>3. \E b \in BOOLEAN : parseError' = [parseError EXCEPT ![r] = b]
    BY <1>1
  <1>4. \E b \in BOOLEAN : early' = [early EXCEPT ![r] = b]
    BY <1>2
  <1> QED BY <1>3, <1>4 DEF FlagsChanged

\* Status keeps all but the status of an exchange.
LEMMA StatusKeeps ==
    ASSUME NEW x, Good(x), NEW s \in Codes
    PROVE  /\ Good(Status(x, s)) /\ Status(x, s).resp.err = x.resp.err
           /\ Status(x, s).net = x.net /\ Status(x, s).panic = x.panic
           /\ Status(x, s).resp.wroteHeader = x.resp.wroteHeader
           /\ Status(x, s).resp.hijacked = x.resp.hijacked
           /\ Status(x, s).resp.status = IF x.resp.status = 0 THEN s ELSE x.resp.status
  BY StatusGood DEF Status, Good, Keeps, Exchanges, Responses

LEMMA StatusReady ==
    ASSUME NEW r, NEW x, Ready(r, x), NEW s \in Codes
    PROVE  /\ Ready(r, Status(x, s)) /\ Status(x, s).panic = x.panic /\ Status(x, s).net = x.net
           /\ Status(x, s).resp.status = IF x.resp.status = 0 THEN s ELSE x.resp.status
  BY StatusKeeps DEF Ready

LEMMA StatusesAreCodes ==
    /\ \A s \in FinalStatuses : s \in Codes /\ (FinalOnly => s # 0)
    /\ \A s \in Statuses : s \in Sendable
    /\ {101, 204, 308, 400, 413, 422, 500} \subseteq Codes /\ 204 \in Sendable
  BY StatusesAssumption DEF FinalStatuses, Codes, Sendable, Lines, FinalOnly

\* Whatever r's step before finalization, its current exchange is a good one.
LEMMA CurrentReady ==
    ASSUME Core, NEW r \in Requests, stage[r] \in Before
    PROVE  Ready(r, Current(r)) /\ ~Current(r).panic /\ ~Current(r).failed
  BY CurrentGood DEF Before, Live, Ready

LEMMA OuterAdvances ==
    ASSUME Core, NEW r \in Requests, OuterMiddleware(r)
    PROVE  \E t, y : Advance(r, t, y)
  <1> DEFINE x == Current(r)
  <1>1. stage[r] = "outer" /\ retained' = retained /\ UNCHANGED <<debug, poolVars>>
    BY DEF OuterMiddleware, Perform
  <1>2. Ready(r, x)
    BY <1>1, CurrentReady DEF Before
  <1>3. FlagsChanged(r)
    BY FlagsKept DEF OuterMiddleware
  <1>4. \E y : Ready(r, y) /\ Perform(r, "outer", "cors", y)
    BY <1>2, StatusReady, StatusesAreCodes DEF OuterMiddleware
  <1>5. "outer" \in Before /\ "cors" \in After
    BY DEF Before, After
  <1> QED BY <1>1, <1>3, <1>4, <1>5, PerformAdvances

LEMMA CorsAdvances ==
    ASSUME Core, NEW r \in Requests, Cors(r)
    PROVE  \E t, y : Advance(r, t, y)
  <1> DEFINE x == Current(r)
  <1>1. stage[r] = "cors" /\ retained' = retained /\ UNCHANGED <<debug, poolVars>>
    BY DEF Cors, Perform
  <1>2. Ready(r, x)
    BY <1>1, CurrentReady DEF Before
  <1>3. FlagsChanged(r)
    BY FlagsKept DEF Cors
  <1>4. Ready(r, WriteHeader(x, 204))
    <2>1. Written(x, 204, WriteHeader(x, 204))
      BY <1>2, StatusesAreCodes, WriteHeaderGood DEF Ready, Good
    <2> QED BY <1>2, <2>1 DEF Ready, Written, Keeps
  <1>5. \E y : \E to \in {"parse", "finalize"} : Ready(r, y) /\ Perform(r, "cors", to, y)
    BY <1>2, <1>4, StatusReady, StatusesAreCodes DEF Cors
  <1>6. "cors" \in Before /\ {"parse", "finalize"} \subseteq After
    BY DEF Before, After
  <1> QED BY <1>1, <1>3, <1>5, <1>6, PerformAdvances

LEMMA ParseAdvances ==
    ASSUME Core, NEW r \in Requests, Parse(r)
    PROVE  \E t, y : Advance(r, t, y)
  <1> DEFINE x == Current(r)
  <1>1. stage[r] = "parse" /\ retained' = retained /\ UNCHANGED <<debug, poolVars>>
    BY DEF Parse, Perform
  <1>2. Ready(r, x)
    BY <1>1, CurrentReady DEF Before
  <1>3. FlagsChanged(r)
    BY FlagsKept DEF Parse
  <1>4. Ready(r, Status(x, 400)) /\ Ready(r, Status(x, 413))
    BY <1>2, StatusReady, StatusesAreCodes
  <1>5. \E y : \E to \in {"validate", "finalize"} : Ready(r, y) /\ Perform(r, "parse", to, y)
    BY <1>2, <1>4 DEF Parse
  <1>6. "parse" \in Before /\ {"validate", "finalize"} \subseteq After
    BY DEF Before, After
  <1> QED BY <1>1, <1>3, <1>5, <1>6, PerformAdvances

\* Error called in a step that keeps cleanPanic.
LEMMA ErrorAdvances ==
    ASSUME Core, NEW r \in Requests, stage[r] \in Before, NEW h \in BOOLEAN, NEW to \in After,
           stage' = [stage EXCEPT ![r] = to], Become(r, Recovery(RespError(Current(r), h))),
           raised' = [raised EXCEPT ![r] = TRUE], cleanPanic' = cleanPanic,
           FlagsChanged(r), retained' = retained, UNCHANGED <<debug, poolVars>>
    PROVE  \E t, y : Advance(r, t, y)
  <1> DEFINE e == RespError(Current(r), h)
  <1>1. Good(Current(r))
    BY CurrentReady DEF Ready
  <1>2. Good(e)
    BY <1>1, RespErrorGood DEF ErrorAnswered
  <1> HIDE DEF e
  <1>3. Good(Recovery(e))
    BY <1>2, RecoveredGood DEF Recovery
  <1>4. raised'[r]
    BY DEF Core, TypeInv
  <1>5. \E b \in BOOLEAN : cleanPanic' = [cleanPanic EXCEPT ![r] = b]
    <2>1. cleanPanic = [cleanPanic EXCEPT ![r] = cleanPanic[r]] /\ cleanPanic[r] \in BOOLEAN
      BY DEF Core, TypeInv
    <2> QED BY <2>1
  <1>6. Advance(r, to, Recovery(e))
    BY <1>3, <1>4, <1>5 DEF Advance, FlagsChanged, e
  <1> QED BY <1>6

LEMMA ValidateAdvances ==
    ASSUME Core, NEW r \in Requests, Validate(r)
    PROVE  \E t, y : Advance(r, t, y)
  <1> DEFINE x == Current(r)
  <1>1. stage[r] = "validate" /\ retained' = retained /\ UNCHANGED <<debug, poolVars>>
    BY DEF Validate, Perform, Goto
  <1>2. Ready(r, x)
    BY <1>1, CurrentReady DEF Before
  <1>3. FlagsChanged(r)
    BY FlagsKept DEF Validate
  <1>4. "validate" \in Before /\ {"handler", "finalize"} \subseteq After
    BY DEF Before, After
  <1>5. CASE Perform(r, "validate", "handler", x)
    BY <1>1, <1>2, <1>3, <1>4, <1>5, PerformAdvances
  <1>6. CASE Perform(r, "validate", "finalize", Status(x, 422))
    <2>1. Ready(r, Status(x, 422))
      BY <1>2, StatusReady, StatusesAreCodes
    <2> QED BY <1>1, <1>3, <1>4, <1>6, <2>1, PerformAdvances
  <1>7. CASE /\ Goto(r, "validate", "finalize")
             /\ Become(r, Recovery(RespError(x, TRUE)))
             /\ raised' = [raised EXCEPT ![r] = TRUE]
             /\ UNCHANGED cleanPanic
    BY <1>1, <1>3, <1>4, <1>7, ErrorAdvances DEF Goto
  <1> QED BY <1>5, <1>6, <1>7 DEF Validate, Recovery
LEMMA WrittenReady ==
    ASSUME NEW r, NEW x, Ready(r, x), NEW s, NEW y, BodyWritten(x, s, y)
    PROVE  Ready(r, y)
  BY DEF BodyWritten, Ready, Keeps

LEMMA Ignored ==
    ASSUME NEW x, Good(x), NEW p \in BOOLEAN
    PROVE  /\ Good([x EXCEPT !.failed = FALSE]) /\ [x EXCEPT !.failed = FALSE].resp = x.resp
           /\ [x EXCEPT !.failed = FALSE].net = x.net /\ [x EXCEPT !.failed = FALSE].panic = x.panic
           /\ Good([x EXCEPT !.panic = p]) /\ [x EXCEPT !.panic = p].resp = x.resp
           /\ [x EXCEPT !.panic = p].net = x.net /\ ([x EXCEPT !.panic = p].panic <=> p)
  <1> DEFINE y == [x EXCEPT !.failed = FALSE]
             z == [x EXCEPT !.panic = p]
  <1>1. y \in Exchanges /\ y.resp = x.resp /\ y.net = x.net /\ y.panic = x.panic
    BY DEF Good, Exchanges
  <1>2. z \in Exchanges /\ z.resp = x.resp /\ z.net = x.net /\ (z.panic <=> p)
    BY DEF Good, Exchanges
  <1> HIDE DEF y, z
  <1>3. Good(y) /\ Good(z)
    BY <1>1, <1>2 DEF Good, Headed
  <1> QED BY <1>1, <1>2, <1>3 DEF y, z

\* Every call of the API leaves a good exchange, and the error that was there.
LEMMA CallReady ==
    ASSUME Core, NEW r \in Requests, stage[r] = "handler", Call(r)
    PROVE  \E y : Ready(r, y) /\ Perform(r, "handler", "handler", y)
  <1> DEFINE x == Current(r)
             w == Write(x, "app")
  <1>1. Ready(r, x) /\ Good(x)
    BY CurrentReady DEF Before, Ready
  <1> HIDE DEF x
  <1>2. ASSUME NEW s \in FinalStatuses PROVE Ready(r, Status(x, s)) /\ Ready(r, JSON(x, s, "app"))
    <2>1. s \in Codes /\ (FinalOnly => s # 0)
      BY StatusesAreCodes
    <2>2. BodyWritten(x, s, JSON(x, s, "app"))
      BY <1>1, <2>1, JSONGood DEF Chunks
    <2> QED BY <1>1, <2>1, <2>2, StatusReady, WrittenReady
  <1>3. ASSUME NEW s \in Statuses PROVE Ready(r, WriteHeader(x, s))
    <2>1. Written(x, s, WriteHeader(x, s))
      BY <1>1, StatusesAreCodes, WriteHeaderGood DEF Good
    <2> QED BY <1>1, <2>1 DEF Ready, Written, Keeps
  <1>4. Ready(r, [w EXCEPT !.failed = FALSE])
    <2>1. BodyWritten(x, Chosen(x), w)
      BY <1>1, WriteGood DEF Chunks
    <2>2. Ready(r, w)
      BY <1>1, <2>1, WrittenReady
    <2> QED BY <2>2, Ignored DEF Ready
  <1>5. Ready(r, File(x))
    BY <1>1, FileGood, WrittenReady
  <1>6. Ready(r, Flush(x))
    BY <1>1, FlushGood DEF Ready, Keeps
  <1> QED BY <1>2, <1>3, <1>4, <1>5, <1>6 DEF Call, x

LEMMA HandlerAdvances ==
    ASSUME Core, NEW r \in Requests, HandlerCalls(r) \/ HandlerError(r) \/ HandlerHijacks(r)
    PROVE  \E t, y : Advance(r, t, y)
  <1> DEFINE x == Current(r)
  <1>1. stage[r] = "handler" /\ retained' = retained /\ UNCHANGED <<debug, poolVars>>
    BY DEF HandlerCalls, Call, HandlerError, HandlerHijacks, Perform, Goto
  <1>2. Ready(r, x)
    BY <1>1, CurrentReady DEF Before
  <1>3. FlagsChanged(r)
    BY FlagsKept DEF HandlerCalls, HandlerError, HandlerHijacks
  <1>4. "handler" \in Before /\ {"handler", "finalize"} \subseteq After
    BY DEF Before, After
  <1>5. CASE HandlerCalls(r)
    <2>1. \E y : Ready(r, y) /\ Perform(r, "handler", "handler", y)
      BY <1>1, <1>5, CallReady DEF HandlerCalls
    <2> QED BY <1>1, <1>3, <1>4, <2>1, PerformAdvances
  <1>6. CASE HandlerError(r)
    <2>1. PICK h \in BOOLEAN :
             LET e == RespError(Current(r), h)
             IN  /\ Goto(r, "handler", IF e.panic THEN "finalize" ELSE "handler")
                 /\ Become(r, IF e.panic THEN Recovered(e) ELSE e)
      BY <1>6 DEF HandlerError
    <2>2. PICK to \in After : stage' = [stage EXCEPT ![r] = to]
      BY <1>4, <2>1 DEF Goto
    <2>3. Become(r, Recovery(RespError(Current(r), h)))
      BY <2>1 DEF Recovery
    <2>4. raised' = [raised EXCEPT ![r] = TRUE] /\ cleanPanic' = cleanPanic
      BY <1>6 DEF HandlerError
    <2> QED BY <1>1, <1>3, <1>4, <2>2, <2>3, <2>4, ErrorAdvances
  <1>7. CASE HandlerHijacks(r)
    <2>1. Ready(r, Hijack(x))
      BY <1>2, HijackGood DEF Ready
    <2>2. Perform(r, "handler", "handler", Hijack(x))
      BY <1>7 DEF HandlerHijacks
    <2> QED BY <1>1, <1>3, <1>4, <2>1, <2>2, PerformAdvances
  <1> QED BY <1>5, <1>6, <1>7

LEMMA UpgradeAdvances ==
    ASSUME Core, NEW r \in Requests, Upgrade(r)
    PROVE  \E t, y : Advance(r, t, y)
  <1> DEFINE h == Hijack(Current(r))
             x == Status(h, 101)
  <1>1. stage[r] = "handler" /\ retained' = retained \cup {r} /\ UNCHANGED <<debug, poolVars>>
    BY DEF Upgrade, Perform
  <1>2. Ready(r, Current(r)) /\ ~Current(r).panic
    BY <1>1, CurrentReady DEF Before
  <1>3. Ready(r, h) /\ ~h.panic /\ h.resp.hijacked
    BY <1>2, HijackGood DEF Ready
  <1> HIDE DEF h
  <1>4. Ready(r, x) /\ ~x.panic /\ x.resp.hijacked
    <2>1. 101 \in Codes
      BY StatusesAreCodes
    <2>2. Ready(r, x)
      BY <1>3, <2>1, StatusReady
    <2>3. x.panic = h.panic /\ x.resp.hijacked = h.resp.hijacked
      BY <1>3, <2>1, StatusKeeps DEF Ready
    <2> QED BY <1>3, <2>2, <2>3
  <1>5. FlagsChanged(r)
    BY FlagsKept DEF Upgrade
  <1>6. Perform(r, "handler", "finalize", x)
    BY DEF Upgrade, h
  <1> HIDE DEF x
  <1>7. Performed(r, "handler", "finalize", x)
    BY <1>4, <1>6, PerformEffect DEF Before, After
  <1>8. Recovery(x) = x /\ NextStage(x, "finalize") = "finalize" /\ raised' = raised
    BY <1>4, <1>7 DEF Recovery, NextStage, Performed
  <1>9. Advance(r, "finalize", x)
    BY <1>1, <1>4, <1>5, <1>7, <1>8 DEF Advance, Performed, FlagsChanged, Before
  <1> QED BY <1>9

LEMMA ReturnAdvances ==
    ASSUME Core, NEW r \in Requests, HandlerReturns(r)
    PROVE  \E t, y : Advance(r, t, y)
  <1> DEFINE x == Current(r)
  <1>1. stage[r] = "handler" /\ retained' = retained /\ UNCHANGED <<debug, poolVars, resp, net, raised>>
    BY DEF HandlerReturns, Goto, histVars
  <1>2. Ready(r, x) /\ x.resp = resp[obj[r]] /\ x.net = net[r]
    BY <1>1, CurrentReady, CurrentGood DEF Before, Live
  <1>3. FlagsChanged(r)
    BY FlagsKept DEF HandlerReturns, histVars
  <1>4. resp = [resp EXCEPT ![obj[r]] = resp[obj[r]]] /\ net = [net EXCEPT ![r] = net[r]]
    BY DEF Core, TypeInv
  <1>5. Become(r, x)
    BY <1>1, <1>2, <1>4 DEF Become
  <1>6. \E b \in BOOLEAN : cleanPanic' = [cleanPanic EXCEPT ![r] = b]
    <2>1. cleanPanic = [cleanPanic EXCEPT ![r] = cleanPanic[r]] /\ cleanPanic[r] \in BOOLEAN
      BY DEF Core, TypeInv
    <2> QED BY <2>1 DEF HandlerReturns, histVars
  <1>7. stage' = [stage EXCEPT ![r] = "finalize"]
    BY DEF HandlerReturns, Goto
  <1> HIDE DEF x
  <1>8. Advance(r, "finalize", x)
    BY <1>1, <1>2, <1>3, <1>5, <1>6, <1>7 DEF Advance, FlagsChanged, Ready, Before, After
  <1> QED BY <1>8

LEMMA ErrorPanicAdvances ==
    ASSUME Core, NEW r \in Requests,
           Perform(r, "handler", "finalize", [Current(r) EXCEPT !.panic = TRUE]),
           UNCHANGED <<debug, poolVars, retained, ops, parseError, early>>
    PROVE  \E t, y : Advance(r, t, y)
  <1> DEFINE x == [Current(r) EXCEPT !.panic = TRUE]
  <1>1. stage[r] = "handler"
    BY DEF Perform
  <1>2. Ready(r, Current(r))
    BY <1>1, CurrentReady DEF Before
  <1>3. Ready(r, x)
    BY <1>2, Ignored DEF Ready
  <1> HIDE DEF x
  <1>4. FlagsChanged(r)
    BY FlagsKept
  <1> QED BY <1>3, <1>4, PerformAdvances DEF Before, After, x
(* The steps that are no Advance: the first, the last and those from outside. *)

LEMMA RedirectCore ==
    ASSUME Core, NEW r \in Requests, Redirect(r)
    PROVE  Core'
  <1> USE DEF Core
  <1>1. /\ stage[r] = "idle" /\ stage' = [stage EXCEPT ![r] = "done"]
        /\ net' = [net EXCEPT ![r].wire = 308]
        /\ UNCHANGED <<debug, obj, pool, unused, resp, retained, parseError, raised, cleanPanic, early>>
    BY DEF Redirect, Goto, poolVars, histVars
  <1>2. r \notin retained
    BY <1>1 DEF UseInv
  <1>3. net'[r] \in Nets /\ net'[r].body = net[r].body /\ \A u \in Requests \ {r} : net'[u] = net[u]
    <2>1. net[r] \in Nets /\ net \in [Requests -> Nets]
      BY DEF TypeInv
    <2>2. net'[r] = [net[r] EXCEPT !.wire = 308] /\ \A u \in Requests \ {r} : net'[u] = net[u]
      BY <1>1, <2>1
    <2>3. net'[r] \in Nets /\ net'[r].body = net[r].body
      BY <2>1, <2>2, CodeFacts DEF Nets
    <2> QED BY <2>2, <2>3
  <1>4. net' \in [Requests -> Nets]
    BY <1>1, <1>3 DEF TypeInv
  <1>5. stage' \in [Requests -> Stages] /\ stage'[r] = "done" /\ \A u \in Requests \ {r} : stage'[u] = stage[u]
    BY <1>1 DEF TypeInv, Stages
  <1>6. TypeInv'
    BY <1>1, <1>4, <1>5 DEF TypeInv
  <1>7. \A u \in Requests : InUse(u)' => InUse(u) /\ u # r
    BY <1>1, <1>2, <1>5 DEF InUse, Live
  <1>8. UseInv'
    BY <1>1, <1>2, <1>5, <1>6, <1>7 DEF UseInv, TypeInv
  <1>9. LiveInv'
    BY <1>1, <1>3, <1>5 DEF LiveInv, Live
  <1>10. IdleInv' /\ DocInv'
    BY <1>1, <1>3, <1>5 DEF IdleInv, DocInv, OneDoc
  <1> QED BY <1>6, <1>8, <1>9, <1>10

LEMMA NewGood ==
    ASSUME NEW n \in Nets, n.wire = 0, ~n.hijacked, n.body = <<>>
    PROVE  Good(Exchange(NewResponse, n)) /\ ~NewResponse.err
  <1> DEFINE x == Exchange(NewResponse, n)
  <1>1. /\ NewResponse \in Responses /\ ~NewResponse.wroteHeader /\ NewResponse.empty
        /\ ~NewResponse.hijacked /\ ~NewResponse.err
    BY DEF NewResponse, Responses, Codes
  <1>2. x \in Exchanges /\ x.resp = NewResponse /\ x.net = n
    BY <1>1 DEF Exchange, Exchanges
  <1>3. NewResponse.hijacked \in BOOLEAN /\ n.hijacked \in BOOLEAN
    BY <1>1 DEF Responses, Nets
  <1>4. OneDoc(n.body)
    BY DEF OneDoc
  <1> HIDE DEF x
  <1>5. Good(x)
    BY <1>1, <1>2, <1>3, <1>4 DEF Good, Headed
  <1> QED BY <1>1, <1>5 DEF x

LEMMA ArriveCore ==
    ASSUME Core, NEW r \in Requests, Arrive(r)
    PROVE  Core'
  <1> USE DEF Core
  <1>1. PICK o \in pool \cup unused :
           /\ obj' = [obj EXCEPT ![r] = o] /\ pool' = pool \ {o} /\ unused' = unused \ {o}
           /\ resp' = [resp EXCEPT ![o] = NewResponse]
    BY DEF Arrive
  <1>2. /\ stage[r] = "idle" /\ stage' = [stage EXCEPT ![r] = "outer"]
        /\ UNCHANGED <<debug, net, retained, parseError, raised, cleanPanic, early>>
    BY DEF Arrive, Goto, histVars
  <1>3. o \in Objects /\ r \notin retained
    BY <1>2 DEF UseInv, TypeInv
  <1>4. NewResponse \in Responses
    BY DEF NewResponse, Responses, Codes
  <1>5. /\ stage'[r] = "outer" /\ \A u \in Requests \ {r} : stage'[u] = stage[u]
        /\ stage' \in [Requests -> Stages]
    BY <1>2 DEF TypeInv, Stages
  <1>6. obj'[r] = o /\ \A u \in Requests \ {r} : obj'[u] = obj[u]
    BY <1>1 DEF TypeInv
  <1>7. resp'[o] = NewResponse /\ \A p \in Objects \ {o} : resp'[p] = resp[p]
    BY <1>1, <1>3 DEF TypeInv
  <1>8. TypeInv'
    BY <1>1, <1>2, <1>3, <1>4, <1>5 DEF TypeInv
  <1>9. \A u \in Requests : InUse(u)' => u = r \/ (u # r /\ InUse(u) /\ obj[u] # o)
    BY <1>2, <1>5 DEF InUse, Live, UseInv
  <1>10. UseInv'
    <2>1. \A u, v \in Requests : InUse(u)' /\ InUse(v)' /\ obj'[u] = obj'[v] => u = v
      BY <1>6, <1>9 DEF UseInv
    <2>2. \A u \in Requests : InUse(u)' => obj'[u] \in Objects /\ obj'[u] \notin pool' \cup unused'
      BY <1>1, <1>3, <1>6, <1>9 DEF UseInv
    <2>3. \A u \in retained' : u \in Requests /\ u # r /\ InUse(u) /\ obj[u] # o /\ obj[u] \in Objects
      BY <1>2, <1>3, <1>9 DEF UseInv, InUse, TypeInv
    <2>4. \A u \in retained' :
             /\ stage'[u] \in {"finalize", "done", "aborted"}
             /\ stage'[u] = "finalize" => resp'[obj'[u]].hijacked
      BY <1>2, <1>5, <1>6, <1>7, <2>3 DEF UseInv
    <2> QED BY <2>1, <2>2, <2>4 DEF UseInv
  <1>11. LiveInv'
    <2> SUFFICES ASSUME NEW u \in Requests, Live(u)'
                 PROVE  /\ Good(Exchange(resp'[obj'[u]], net'[u]))
                        /\ resp'[obj'[u]].err => raised'[u]
      BY DEF LiveInv
    <2>1. CASE u = r
      <3>1. net[r].wire = 0 /\ ~net[r].hijacked /\ net[r].body = <<>> /\ net[r] \in Nets
        BY <1>2 DEF IdleInv, TypeInv
      <3>2. Good(Exchange(NewResponse, net[r])) /\ ~NewResponse.err
        BY <3>1, NewGood
      <3> QED BY <1>2, <1>6, <1>7, <2>1, <3>2
    <2>2. CASE u # r
      <3>1. Live(u) /\ obj'[u] = obj[u] /\ obj[u] \in Objects /\ obj[u] # o
        BY <1>5, <1>6, <1>9, <2>2 DEF InUse, Live, UseInv
      <3>2. resp'[obj'[u]] = resp[obj[u]]
        BY <1>7, <3>1
      <3> QED BY <1>2, <3>1, <3>2 DEF LiveInv
    <2> QED BY <2>1, <2>2
  <1>12. IdleInv' /\ DocInv'
    BY <1>2, <1>5 DEF IdleInv, DocInv
  <1> QED BY <1>8, <1>10, <1>11, <1>12

LEMMA UpgradeEndsCore ==
    ASSUME Core, NEW r \in Requests, UpgradeEnds(r)
    PROVE  Core'
  <1> USE DEF Core
  <1>1. /\ retained' = retained \ {r}
        /\ UNCHANGED <<debug, stage, obj, pool, unused, resp, net, parseError, raised, cleanPanic, early>>
    BY DEF UpgradeEnds, poolVars, histVars
  <1>2. \A u \in Requests : InUse(u)' => InUse(u)
    BY <1>1 DEF InUse, Live
  <1>3. TypeInv'
    BY <1>1 DEF TypeInv
  <1>4. UseInv'
    BY <1>1, <1>2 DEF UseInv
  <1>5. LiveInv' /\ IdleInv' /\ DocInv'
    BY <1>1 DEF LiveInv, IdleInv, DocInv, Live
  <1> QED BY <1>3, <1>4, <1>5

LEMMA ClientLeavesCore ==
    ASSUME Core, NEW r \in Requests, ClientLeaves(r)
    PROVE  Core'
  <1> USE DEF Core
  <1> DEFINE n == [net[r] EXCEPT !.broken = TRUE]
  <1>1. /\ net' = [net EXCEPT ![r] = n] /\ Live(r)
        /\ UNCHANGED <<debug, stage, obj, pool, unused, resp, retained, parseError, raised, cleanPanic, early>>
    BY DEF ClientLeaves, poolVars, histVars
  <1>2. net[r] \in Nets
    BY DEF TypeInv
  <1>3. n \in Nets /\ n.wire = net[r].wire /\ n.hijacked = net[r].hijacked /\ n.body = net[r].body
    <2>1. n \in Nets
      BY <1>2, NetFlagged
    <2>2. n.wire = net[r].wire /\ n.hijacked = net[r].hijacked /\ n.body = net[r].body
      BY <1>2 DEF Nets
    <2> QED BY <2>1, <2>2
  <1> HIDE DEF n
  <1>4. net'[r] = n /\ net' \in [Requests -> Nets] /\ \A u \in Requests \ {r} : net'[u] = net[u]
    BY <1>1, <1>3 DEF TypeInv
  <1>5. TypeInv'
    BY <1>1, <1>4 DEF TypeInv
  <1>6. \A u \in Requests : (InUse(u)' <=> InUse(u)) /\ (Live(u)' <=> Live(u))
    BY <1>1 DEF InUse, Live
  <1>7. UseInv'
    BY <1>1, <1>6 DEF UseInv
  <1>8. LiveInv'
    <2> DEFINE p == resp[obj[r]]
    <2>1. Good(Exchange(p, net[r])) /\ (p.err => raised[r])
      BY <1>1 DEF LiveInv
    <2>2. Exchange(p, n) \in Exchanges /\ Exchange(p, n).resp = p /\ Exchange(p, n).net = n
      BY <1>3, <2>1 DEF Good, Exchange, Exchanges
    <2>3. Exchange(p, net[r]).resp = p /\ Exchange(p, net[r]).net = net[r]
      BY DEF Exchange
    <2>4. Good(Exchange(p, n))
      BY <1>3, <2>1, <2>2, <2>3 DEF Good, Headed
    <2> QED BY <1>1, <1>4, <1>6, <2>1, <2>4 DEF LiveInv
  <1>9. IdleInv' /\ DocInv'
    BY <1>1, <1>3, <1>4 DEF IdleInv, DocInv
  <1> QED BY <1>5, <1>7, <1>8, <1>9
LEMMA FinalizeCore ==
    ASSUME Core, NEW r \in Requests, Finalize(r)
    PROVE  Core'
  <1> USE DEF Core
  <1> DEFINE y == Finalized(Current(r))
             put == ~(y.panic \/ y.resp.hijacked)
             to == IF y.panic THEN "aborted" ELSE "done"
  <1>1. stage[r] = "finalize" /\ Live(r)
    BY DEF Finalize, Goto, Live
  <1>2. /\ stage' = [stage EXCEPT ![r] = to] /\ Become(r, y)
        /\ pool' = IF put THEN pool \cup {obj[r]} ELSE pool
        /\ obj' = [obj EXCEPT ![r] = IF put /\ r \notin retained THEN NoObject ELSE @]
        /\ UNCHANGED <<debug, unused, retained, parseError, raised, cleanPanic, early>>
    BY DEF Finalize, Goto, histVars
  <1>3. Good(y) /\ y.resp.hijacked = resp[obj[r]].hijacked
    BY <1>1, CurrentGood, FinalizedGood DEF Keeps
  <1>4. obj[r] \in Objects /\ y.resp \in Responses /\ y.net \in Nets /\ OneDoc(y.net.body)
    BY <1>1, <1>3 DEF UseInv, InUse, Good, Exchanges
  <1>5. r \in retained => ~put
    BY <1>1, <1>3 DEF UseInv
  <1>6. to \in {"aborted", "done"}
    OBVIOUS
  <1> HIDE DEF y, put, to
  <1>7. /\ resp' = [resp EXCEPT ![obj[r]] = y.resp] /\ net' = [net EXCEPT ![r] = y.net]
        /\ net'[r] = y.net /\ \A u \in Requests \ {r} : net'[u] = net[u]
    BY <1>2 DEF Become, TypeInv
  <1>8. /\ stage' \in [Requests -> Stages] /\ stage'[r] = to
        /\ \A u \in Requests \ {r} : stage'[u] = stage[u]
    BY <1>2, <1>6 DEF TypeInv, Stages
  <1>9. /\ obj' \in [Requests -> Objects \cup {NoObject}]
        /\ \A u \in Requests \ {r} : obj'[u] = obj[u]
        /\ r \in retained => obj'[r] = obj[r]
    BY <1>2, <1>5 DEF TypeInv
  <1>10. TypeInv'
    <2>1. resp' \in [Objects -> Responses] /\ net' \in [Requests -> Nets]
      BY <1>4, <1>7 DEF TypeInv
    <2>2. pool' \subseteq Objects /\ unused' \subseteq Objects
      BY <1>2, <1>4 DEF TypeInv
    <2> QED BY <1>2, <1>8, <1>9, <2>1, <2>2 DEF TypeInv
  <1>11. ~Live(r)' /\ \A u \in Requests \ {r} : (Live(u)' <=> Live(u)) /\ (InUse(u)' <=> InUse(u))
    BY <1>2, <1>6, <1>8 DEF Live, InUse
  <1>12. \A u \in Requests : InUse(u)' => InUse(u) /\ obj'[u] = obj[u] /\ (u = r => ~put)
    BY <1>1, <1>2, <1>5, <1>9, <1>11 DEF InUse
  <1>13. \A u \in Requests \ {r} : InUse(u) => obj[u] # obj[r] /\ resp'[obj[u]] = resp[obj[u]]
    BY <1>1, <1>4, <1>7 DEF UseInv, InUse, TypeInv
  <1>14. UseInv'
    <2>1. \A u, v \in Requests : InUse(u)' /\ InUse(v)' /\ obj'[u] = obj'[v] => u = v
      BY <1>12 DEF UseInv
    <2>2. \A u \in Requests : InUse(u)' => obj'[u] \in Objects /\ obj'[u] \notin pool' \cup unused'
      BY <1>2, <1>12, <1>13 DEF UseInv
    <2>3. ASSUME NEW u \in retained'
          PROVE  /\ stage'[u] \in {"finalize", "done", "aborted"}
                 /\ stage'[u] = "finalize" => resp'[obj'[u]].hijacked
      <3>1. u \in retained /\ u \in Requests
        BY <1>2 DEF TypeInv
      <3>2. CASE u = r
        BY <1>6, <1>8, <3>2
      <3>3. CASE u # r
        BY <1>8, <1>9, <1>13, <3>1, <3>3 DEF UseInv, InUse
      <3> QED BY <3>2, <3>3
    <2> QED BY <2>1, <2>2, <2>3 DEF UseInv
  <1>15. LiveInv'
    <2> SUFFICES ASSUME NEW u \in Requests, Live(u)'
                 PROVE  /\ Good(Exchange(resp'[obj'[u]], net'[u]))
                        /\ resp'[obj'[u]].err => raised'[u]
      BY DEF LiveInv
    <2>1. u # r /\ Live(u) /\ InUse(u)
      BY <1>11 DEF InUse
    <2> QED BY <1>2, <1>7, <1>9, <1>13, <2>1 DEF LiveInv
  <1>16. IdleInv' /\ DocInv'
    BY <1>2, <1>4, <1>6, <1>7, <1>8 DEF IdleInv, DocInv
  <1> QED BY <1>10, <1>14, <1>15, <1>16

\* The panic nothing recovers from.
LEMMA EscapeCore ==
    ASSUME Core, NEW r \in Requests, Goto(r, "handler", "escaped"),
           raised' = [raised EXCEPT ![r] = TRUE],
           UNCHANGED <<debug, poolVars, resp, net, retained, parseError, cleanPanic, early>>
    PROVE  Core'
  <1> USE DEF Core
  <1>1. /\ stage' \in [Requests -> Stages] /\ stage'[r] = "escaped" /\ stage[r] = "handler"
        /\ \A u \in Requests \ {r} : stage'[u] = stage[u] /\ raised'[u] = raised[u]
    BY DEF Goto, TypeInv, Stages
  <1>2. obj' = obj /\ pool' = pool /\ unused' = unused
    BY DEF poolVars
  <1>3. TypeInv'
    BY <1>1, <1>2 DEF TypeInv
  <1>4. r \notin retained
    BY <1>1 DEF UseInv
  <1>5. \A u \in Requests : InUse(u)' => InUse(u) /\ u # r
    BY <1>1, <1>4 DEF InUse, Live
  <1>6. UseInv'
    BY <1>1, <1>2, <1>3, <1>4, <1>5 DEF UseInv, TypeInv
  <1>7. LiveInv'
    BY <1>1, <1>2 DEF LiveInv, Live
  <1>8. IdleInv' /\ DocInv'
    BY <1>1 DEF IdleInv, DocInv
  <1> QED BY <1>3, <1>6, <1>7, <1>8

LEMMA NextCore == Core /\ [Next]_vars => Core'
  <1> SUFFICES ASSUME Core, [Next]_vars PROVE Core'
    OBVIOUS
  <1>1. ASSUME NEW r \in Requests, \E t, y : Advance(r, t, y) PROVE Core'
    BY <1>1, AdvanceCore
  <1>2. ASSUME NEW r \in Requests, OuterMiddleware(r) \/ Cors(r) \/ Parse(r) \/ Validate(r) PROVE Core'
    BY <1>1, <1>2, OuterAdvances, CorsAdvances, ParseAdvances, ValidateAdvances
  <1>3. ASSUME NEW r \in Requests, HandlerCalls(r) \/ HandlerError(r) \/ HandlerHijacks(r) PROVE Core'
    BY <1>1, <1>3, HandlerAdvances
  <1>4. ASSUME NEW r \in Requests, Upgrade(r) \/ HandlerReturns(r) PROVE Core'
    BY <1>1, <1>4, UpgradeAdvances, ReturnAdvances
  <1>5. ASSUME NEW r \in Requests, HandlerPanics(r) PROVE Core'
    <2>1. CASE Perform(r, "handler", "finalize", [Current(r) EXCEPT !.panic = TRUE])
      BY <1>1, <1>5, <2>1, ErrorPanicAdvances DEF HandlerPanics
    <2>2. CASE /\ Goto(r, "handler", "escaped")
               /\ raised' = [raised EXCEPT ![r] = TRUE]
               /\ UNCHANGED <<resp, net, cleanPanic>>
      BY <1>5, <2>2, EscapeCore DEF HandlerPanics
    <2> QED BY <1>5, <2>1, <2>2 DEF HandlerPanics
  <1>6. ASSUME NEW r \in Requests, Redirect(r) \/ Arrive(r) PROVE Core'
    BY <1>6, RedirectCore, ArriveCore
  <1>7. ASSUME NEW r \in Requests, UpgradeEnds(r) \/ Finalize(r) \/ ClientLeaves(r) PROVE Core'
    BY <1>7, UpgradeEndsCore, FinalizeCore, ClientLeavesCore
  <1>8. CASE UNCHANGED vars
    BY <1>8 DEF vars, Core, TypeInv, UseInv, LiveInv, IdleInv, DocInv, InUse, Live
  <1> QED BY <1>2, <1>3, <1>4, <1>5, <1>6, <1>7, <1>8 DEF Next

LEMMA CoreHolds == Spec => []Core
  <1> QED BY InitCore, NextCore, PTL DEF Spec
-----------------------------------------------------------------------------
(* What holds of any handler *)

\* An object of the pool serves one user at a time, however many requests and
\* objects there are (Router.requestHandler, Router.finalize).
THEOREM PoolSafetyHolds == Spec => []PoolSafety
  <1>1. Core => PoolSafety
    BY DEF Core, UseInv, TypeInv, InUse, PoolSafety
  <1> QED BY <1>1, CoreHolds, PTL

\* The error and the hijacked flag of a Response are those of the request it serves
\* (Response.reset).
THEOREM OwnStateHolds == Spec => []OwnState
  <1>1. Core => OwnState
    BY DEF Core, LiveInv, OwnState, Good, Exchange
  <1> QED BY <1>1, CoreHolds, PTL

\* The framework appends no error body to a body the handler began (response.error,
\* PanicStatusHandler).
THEOREM OneDocumentHolds == Spec => []OneDocument
  <1>1. Core => OneDocument
    BY DEF Core, DocInv, OneDoc, OneDocument
  <1> QED BY <1>1, CoreHolds, PTL

-----------------------------------------------------------------------------
(* What holds of handlers that send final codes only *)

\* How the framework's middleware leave a request r: no panic nor error before
\* validation, no status but theirs, and 400 chosen for a body that did not parse.
\* A panic before the header leaves 500 chosen.
EarlyInv(r) ==
    /\ stage[r] \in {"idle", "outer"} => ~early[r]
    /\ stage[r] \in {"idle", "outer", "cors", "parse"} => ~raised[r] /\ ~parseError[r]
    /\ stage[r] \in Before \cup {"idle"} => ~cleanPanic[r]
    /\ stage[r] \in {"outer", "cors", "parse"} =>
          /\ ~resp[obj[r]].wroteHeader /\ ~net[r].hijacked
          /\ ~early[r] => resp[obj[r]].status = 0

ParseInv(r) ==
    parseError[r] /\ ~early[r] =>
        /\ stage[r] \in {"finalize", "done", "aborted"}
        /\ stage[r] = "finalize" => ~net[r].hijacked /\ resp[obj[r]].status = 400
        /\ stage[r] = "done" => net[r].wire = 400

PanicInv(r) ==
    cleanPanic[r] =>
        /\ stage[r] \in {"finalize", "done", "aborted"}
        /\ stage[r] = "finalize" => ~net[r].hijacked /\ resp[obj[r]].status = 500
        /\ stage[r] = "done" => net[r].wire = 500

AbortInv(r) == stage[r] = "aborted" => Explained(Exchange(resp[obj[r]], net[r]))

Flow(r) == EarlyInv(r) /\ ParseInv(r) /\ PanicInv(r) /\ AbortInv(r)

LEMMA InitFlow ==
    ASSUME Init, NEW r \in Requests
    PROVE  Flow(r)
  BY DEF Init, Flow, EarlyInv, ParseInv, PanicInv, AbortInv, Before

\* What a step of another request leaves alone.
Same(u) ==
    /\ stage'[u] = stage[u] /\ net'[u] = net[u] /\ debug' = debug
    /\ early'[u] = early[u] /\ raised'[u] = raised[u]
    /\ parseError'[u] = parseError[u] /\ cleanPanic'[u] = cleanPanic[u]
    /\ Live(u) => resp'[obj'[u]] = resp[obj[u]]

LEMMA SameFlow ==
    ASSUME NEW u \in Requests, Flow(u), Same(u)
    PROVE  Flow(u)'
  <1>1. EarlyInv(u)'
    BY DEF Flow, Same, EarlyInv, Live, Before
  <1>2. ParseInv(u)' /\ PanicInv(u)'
    BY DEF Flow, Same, ParseInv, PanicInv, Live
  <1>3. AbortInv(u)'
    BY DEF Flow, Same, AbortInv, Explained, Exchange
  <1> QED BY <1>1, <1>2, <1>3 DEF Flow

LEMMA AdvanceSame ==
    ASSUME Core, NEW r \in Requests, \E t, y : Advance(r, t, y), NEW u \in Requests \ {r}
    PROVE  Same(u)
  <1>1. PICK t, y : Advance(r, t, y)
    OBVIOUS
  <1>2. Live(r)
    BY <1>1 DEF Advance, Before, Live
  <1>3. Live(u) => obj[u] \in Objects /\ obj[u] # obj[r]
    BY <1>2 DEF Core, UseInv, InUse
  <1>4. resp' = [resp EXCEPT ![obj[r]] = y.resp] /\ net' = [net EXCEPT ![r] = y.net]
    BY <1>1 DEF Advance, Become
  <1>5. /\ stage'[u] = stage[u] /\ net'[u] = net[u] /\ debug' = debug /\ obj' = obj
        /\ early'[u] = early[u] /\ raised'[u] = raised[u]
        /\ parseError'[u] = parseError[u] /\ cleanPanic'[u] = cleanPanic[u]
    BY <1>1, <1>4 DEF Advance, Core, TypeInv, poolVars
  <1> QED BY <1>3, <1>4, <1>5 DEF Same, Core, TypeInv

\* r after a call under the recovery middleware.
LEMMA PerformedHere ==
    ASSUME Core, NEW r \in Requests, NEW from \in Before, NEW to, NEW x,
           Performed(r, from, to, x), obj' = obj
    PROVE  /\ stage'[r] = NextStage(x, to)
           /\ resp'[obj'[r]] = Recovery(x).resp /\ net'[r] = Recovery(x).net
           /\ ~x.panic => raised'[r] = raised[r] /\ cleanPanic'[r] = cleanPanic[r]
           /\ x.panic => (cleanPanic'[r] <=> x.net.wire = 0 /\ ~x.net.hijacked)
  <1>1. stage[r] = from /\ obj[r] \in Objects
    BY DEF Performed, Core, UseInv, InUse, Live, Before
  <1> QED BY <1>1 DEF Performed, Become, Core, TypeInv

\* Once validation is reached a call can only spoil PanicInv, and does not: before
\* the header is sent the recovery middleware can choose 500.
LEMMA PerformFlow ==
    ASSUME FinalOnly, Core, NEW r \in Requests, Flow(r),
           NEW from \in {"validate", "handler"}, NEW to \in {"handler", "finalize"},
           NEW x, Ready(r, x), Perform(r, from, to, x), obj' = obj,
           parseError' = parseError, early' = early
    PROVE  Flow(r)'
  <1>1. from \in Before /\ to \in After
    BY DEF Before, After
  <1>2. Performed(r, from, to, x) /\ stage[r] = from
    BY <1>1, PerformEffect DEF Performed
  <1>3. /\ stage'[r] = NextStage(x, to)
        /\ resp'[obj'[r]] = Recovery(x).resp /\ net'[r] = Recovery(x).net
        /\ ~x.panic => raised'[r] = raised[r] /\ cleanPanic'[r] = cleanPanic[r]
        /\ x.panic => (cleanPanic'[r] <=> x.net.wire = 0 /\ ~x.net.hijacked)
    BY <1>1, <1>2, PerformedHere
  <1>4. stage'[r] \in {"handler", "finalize"} /\ (x.panic => stage'[r] = "finalize")
    BY <1>3 DEF NextStage
  <1>5. ~cleanPanic[r] /\ ~(parseError[r] /\ ~early[r])
    BY <1>2 DEF Flow, EarlyInv, ParseInv, Before
  <1>6. cleanPanic'[r] => stage'[r] = "finalize" /\ ~net'[r].hijacked /\ resp'[obj'[r]].status = 500
    <2> SUFFICES ASSUME cleanPanic'[r]
                 PROVE  stage'[r] = "finalize" /\ ~net'[r].hijacked /\ resp'[obj'[r]].status = 500
      OBVIOUS
    <2>1. x.panic /\ x.net.wire = 0 /\ ~x.net.hijacked
      BY <1>3, <1>5
    <2>2. ~x.resp.wroteHeader
      BY <2>1 DEF Ready, Good, Headed
    <2>3. Recovered(x).net = x.net /\ Recovered(x).resp.status = 500
      BY <2>2, RecoveredGood DEF Ready
    <2> QED BY <1>3, <1>4, <2>1, <2>3 DEF Recovery
  <1>7. PanicInv(r)' /\ ParseInv(r)' /\ AbortInv(r)'
    BY <1>4, <1>5, <1>6 DEF PanicInv, ParseInv, AbortInv
  <1>8. EarlyInv(r)'
    BY <1>4, <1>6 DEF EarlyInv, Before
  <1> QED BY <1>7, <1>8 DEF Flow

\* Steps after validation that leave the flags of PanicInv and ParseInv alone.
LEMMA QuietFlow ==
    ASSUME NEW r \in Requests, Flow(r), stage[r] \in {"validate", "handler"},
           stage'[r] \in {"handler", "finalize", "escaped"},
           cleanPanic' = cleanPanic, parseError' = parseError, early' = early
    PROVE  Flow(r)'
  <1>1. ~cleanPanic[r] /\ ~(parseError[r] /\ ~early[r])
    BY DEF Flow, EarlyInv, ParseInv, Before
  <1> QED BY <1>1 DEF Flow, EarlyInv, ParseInv, PanicInv, AbortInv, Before
LEMMA OuterFlow ==
    ASSUME FinalOnly, Core, NEW r \in Requests, Flow(r), OuterMiddleware(r)
    PROVE  Flow(r)'
  <1> DEFINE x == Current(r)
  <1>1. stage[r] = "outer" /\ Live(r) /\ obj' = obj /\ parseError' = parseError
    BY DEF OuterMiddleware, Perform, Live, poolVars
  <1>2. Ready(r, x) /\ ~x.panic /\ x.resp = resp[obj[r]] /\ x.net = net[r]
    BY <1>1, CurrentReady, CurrentGood DEF Before
  <1>3. /\ ~early[r] /\ ~raised[r] /\ ~parseError[r] /\ ~cleanPanic[r]
        /\ ~x.resp.wroteHeader /\ ~x.net.hijacked /\ x.resp.status = 0
    BY <1>1, <1>2 DEF Flow, EarlyInv, Before
  <1> HIDE DEF x
  <1>4. ASSUME NEW y, Ready(r, y), Perform(r, "outer", "cors", y), ~y.panic,
               ~y.resp.wroteHeader, ~y.net.hijacked, early'[r] \/ y.resp.status = 0
        PROVE  Flow(r)'
    <2>1. Performed(r, "outer", "cors", y)
      BY <1>4, PerformEffect DEF Before, After
    <2>2. /\ stage'[r] = "cors" /\ resp'[obj'[r]] = y.resp /\ net'[r] = y.net
          /\ raised'[r] = raised[r] /\ cleanPanic'[r] = cleanPanic[r]
      BY <1>1, <1>4, <2>1, PerformedHere DEF Before, NextStage, Recovery
    <2> QED BY <1>1, <1>3, <1>4, <2>2 DEF Flow, EarlyInv, ParseInv, PanicInv, AbortInv, Before
  <1>5. CASE Perform(r, "outer", "cors", x) /\ UNCHANGED early
    BY <1>2, <1>3, <1>4, <1>5
  <1>6. ASSUME NEW s \in FinalStatuses, Perform(r, "outer", "cors", Status(x, s)),
               early' = [early EXCEPT ![r] = TRUE]
        PROVE  Flow(r)'
    <2>1. s \in Codes
      BY StatusesAreCodes
    <2>2. /\ Ready(r, Status(x, s)) /\ ~Status(x, s).panic /\ ~Status(x, s).resp.wroteHeader
          /\ ~Status(x, s).net.hijacked
      BY <1>2, <1>3, <2>1, StatusReady, StatusKeeps DEF Ready
    <2>3. early'[r]
      BY <1>6 DEF Core, TypeInv
    <2> QED BY <1>4, <1>6, <2>2, <2>3
  <1> QED BY <1>5, <1>6 DEF OuterMiddleware, x

\* CORS answers without an error; the request that goes on is as it was.
LEMMA CorsFlow ==
    ASSUME FinalOnly, Core, NEW r \in Requests, Flow(r), Cors(r)
    PROVE  Flow(r)'
  <1> DEFINE x == Current(r)
  <1>1. stage[r] = "cors" /\ Live(r) /\ obj' = obj /\ parseError' = parseError /\ early' = early
    BY DEF Cors, Perform, Live, poolVars
  <1>2. Ready(r, x) /\ ~x.panic /\ x.resp = resp[obj[r]] /\ x.net = net[r]
    BY <1>1, CurrentReady, CurrentGood DEF Before
  <1>3. /\ ~raised[r] /\ ~parseError[r] /\ ~cleanPanic[r]
        /\ ~x.resp.wroteHeader /\ ~x.net.hijacked /\ (~early[r] => x.resp.status = 0)
    BY <1>1, <1>2 DEF Flow, EarlyInv, Before
  <1> HIDE DEF x
  <1>4. CASE Perform(r, "cors", "parse", x)
    <2>1. Performed(r, "cors", "parse", x)
      BY <1>2, <1>4, PerformEffect DEF Before, After
    <2>2. /\ stage'[r] = "parse" /\ resp'[obj'[r]] = x.resp /\ net'[r] = x.net
          /\ raised'[r] = raised[r] /\ cleanPanic'[r] = cleanPanic[r]
      BY <1>1, <1>2, <2>1, PerformedHere DEF Before, NextStage, Recovery
    <2> QED BY <1>1, <1>3, <2>2 DEF Flow, EarlyInv, ParseInv, PanicInv, AbortInv, Before
  <1>5. ASSUME NEW y, Ready(r, y), ~y.panic, Perform(r, "cors", "finalize", y)
        PROVE  Flow(r)'
    <2>1. Performed(r, "cors", "finalize", y)
      BY <1>5, PerformEffect DEF Before, After
    <2>2. stage'[r] = "finalize" /\ raised'[r] = raised[r] /\ cleanPanic'[r] = cleanPanic[r]
      BY <1>1, <1>5, <2>1, PerformedHere DEF Before, NextStage
    <2> QED BY <1>1, <1>3, <2>2 DEF Flow, EarlyInv, ParseInv, PanicInv, AbortInv, Before
  <1>6. Ready(r, Status(x, 400)) /\ ~Status(x, 400).panic
    <2>1. 400 \in Codes
      BY StatusesAreCodes
    <2> QED BY <1>2, <2>1, StatusReady
  <1>7. Ready(r, WriteHeader(x, 204)) /\ ~WriteHeader(x, 204).panic
    <2>1. Written(x, 204, WriteHeader(x, 204))
      BY <1>2, StatusesAreCodes, WriteHeaderGood DEF Ready, Good
    <2> QED BY <1>2, <2>1 DEF Ready, Written, Keeps
  <1> QED BY <1>4, <1>5, <1>6, <1>7 DEF Cors, x

\* A body that does not parse leaves 400 chosen, and goes on only with another status,
\* which a middleware before had set.
LEMMA ParseFlow ==
    ASSUME FinalOnly, Core, NEW r \in Requests, Flow(r), Parse(r)
    PROVE  Flow(r)'
  <1> DEFINE x == Current(r)
             z == Status(x, 400)
  <1>1. stage[r] = "parse" /\ Live(r) /\ obj' = obj /\ early' = early
    BY DEF Parse, Perform, Live, poolVars
  <1>2. Ready(r, x) /\ ~x.panic /\ x.resp = resp[obj[r]] /\ x.net = net[r]
    BY <1>1, CurrentReady, CurrentGood DEF Before
  <1>3. /\ ~raised[r] /\ ~parseError[r] /\ ~cleanPanic[r]
        /\ ~x.net.hijacked /\ (~early[r] => x.resp.status = 0)
    BY <1>1, <1>2 DEF Flow, EarlyInv, Before
  <1> HIDE DEF x
  <1>4. ASSUME NEW y, Ready(r, y), ~y.panic, NEW to \in {"validate", "finalize"}, Perform(r, "parse", to, y)
        PROVE  /\ stage'[r] = to /\ resp'[obj'[r]] = y.resp /\ net'[r] = y.net
               /\ raised'[r] = raised[r] /\ cleanPanic'[r] = cleanPanic[r]
    <2>1. Performed(r, "parse", to, y)
      BY <1>4, PerformEffect DEF Before, After
    <2> QED BY <1>1, <1>4, <2>1, PerformedHere DEF Before, NextStage, Recovery
  <1>5. ASSUME NEW y, Ready(r, y), ~y.panic, NEW to \in {"validate", "finalize"}, Perform(r, "parse", to, y),
               UNCHANGED parseError
        PROVE  Flow(r)'
    BY <1>1, <1>3, <1>4, <1>5 DEF Flow, EarlyInv, ParseInv, PanicInv, AbortInv, Before
  <1>6. /\ Ready(r, z) /\ ~z.panic /\ ~z.net.hijacked
        /\ ~early[r] => z.resp.status = 400
    <2>1. 400 \in Codes
      BY StatusesAreCodes
    <2>2. Ready(r, z) /\ z.panic = x.panic /\ z.net = x.net
      BY <1>2, <2>1, StatusReady
    <2>3. z.resp.status = IF x.resp.status = 0 THEN 400 ELSE x.resp.status
      BY <1>2, <2>1, StatusReady
    <2> HIDE DEF z
    <2> QED BY <1>2, <1>3, <2>2, <2>3
  <1>7. Ready(r, Status(x, 413)) /\ ~Status(x, 413).panic
    <2>1. 413 \in Codes
      BY StatusesAreCodes
    <2> QED BY <1>2, <2>1, StatusReady
  <1> HIDE DEF z
  <1>8. CASE Perform(r, "parse", IF z.resp.status = 400 THEN "finalize" ELSE "validate", z)
    <2>1. PICK to \in {"validate", "finalize"} :
             Perform(r, "parse", to, z) /\ (z.resp.status = 400 => to = "finalize")
      BY <1>8
    <2>2. /\ stage'[r] = to /\ resp'[obj'[r]] = z.resp /\ net'[r] = z.net
          /\ raised'[r] = raised[r] /\ cleanPanic'[r] = cleanPanic[r]
      BY <1>4, <1>6, <2>1
    <2> QED BY <1>1, <1>3, <1>6, <2>1, <2>2 DEF Flow, EarlyInv, ParseInv, PanicInv, AbortInv, Before
  <1>9. CASE Perform(r, "parse", "finalize", z)
    <2>2. /\ stage'[r] = "finalize" /\ resp'[obj'[r]] = z.resp /\ net'[r] = z.net
          /\ raised'[r] = raised[r] /\ cleanPanic'[r] = cleanPanic[r]
      BY <1>4, <1>6, <1>9
    <2> QED BY <1>1, <1>3, <1>6, <2>2 DEF Flow, EarlyInv, ParseInv, PanicInv, AbortInv, Before
  <1>10. CASE \E to \in {"validate", "finalize"} : Perform(r, "parse", to, x) /\ UNCHANGED parseError
    BY <1>2, <1>5, <1>10
  <1>11. CASE Perform(r, "parse", "finalize", Status(x, 413)) /\ UNCHANGED parseError
    BY <1>5, <1>7, <1>11
  <1> QED BY <1>8, <1>9, <1>10, <1>11 DEF Parse, x, z

LEMMA ValidateFlow ==
    ASSUME FinalOnly, Core, NEW r \in Requests, Flow(r), Validate(r)
    PROVE  Flow(r)'
  <1> DEFINE x == Current(r)
  <1>1. /\ stage[r] = "validate" /\ obj' = obj /\ parseError' = parseError /\ early' = early
        /\ stage \in [Requests -> Stages]
    BY DEF Validate, Perform, Goto, poolVars, Core, TypeInv
  <1>2. Ready(r, x)
    BY <1>1, CurrentReady DEF Before
  <1>3. Ready(r, Status(x, 422))
    BY <1>2, StatusReady, StatusesAreCodes
  <1>4. CASE Perform(r, "validate", "handler", x)
    BY <1>1, <1>2, <1>4, PerformFlow
  <1>5. CASE Perform(r, "validate", "finalize", Status(x, 422))
    BY <1>1, <1>3, <1>5, PerformFlow
  <1>6. CASE Goto(r, "validate", "finalize") /\ UNCHANGED cleanPanic
    BY <1>1, <1>6, QuietFlow DEF Goto
  <1> QED BY <1>4, <1>5, <1>6 DEF Validate

LEMMA HandlerFlow ==
    ASSUME FinalOnly, Core, NEW r \in Requests, Flow(r),
           \/ HandlerCalls(r) \/ HandlerError(r) \/ HandlerHijacks(r) \/ Upgrade(r)
           \/ HandlerReturns(r) \/ HandlerPanics(r)
    PROVE  Flow(r)'
  <1>1. /\ stage[r] = "handler" /\ obj' = obj /\ parseError' = parseError /\ early' = early
        /\ stage \in [Requests -> Stages]
    BY DEF HandlerCalls, Call, HandlerError, HandlerHijacks, Upgrade, HandlerReturns, HandlerPanics,
           Perform, Goto, poolVars, histVars, Core, TypeInv
  <1>2. Ready(r, Current(r))
    BY <1>1, CurrentReady DEF Before
  <1>3. Ready(r, Hijack(Current(r)))
    BY <1>2, HijackGood DEF Ready
  <1>4. CASE HandlerCalls(r)
    BY <1>1, <1>4, CallReady, PerformFlow DEF HandlerCalls
  <1>5. CASE HandlerError(r)
    <2>1. stage'[r] \in {"handler", "finalize"} /\ cleanPanic' = cleanPanic
      BY <1>1, <1>5 DEF HandlerError, Goto
    <2> QED BY <1>1, <2>1, QuietFlow
  <1>6. CASE HandlerHijacks(r)
    BY <1>1, <1>3, <1>6, PerformFlow DEF HandlerHijacks
  <1>7. CASE Upgrade(r)
    <2>1. Ready(r, Status(Hijack(Current(r)), 101))
      BY <1>3, StatusReady, StatusesAreCodes
    <2> QED BY <1>1, <1>7, <2>1, PerformFlow DEF Upgrade
  <1>8. CASE HandlerReturns(r)
    <2>1. stage'[r] = "finalize" /\ cleanPanic' = cleanPanic
      BY <1>1, <1>8 DEF HandlerReturns, Goto, histVars
    <2> QED BY <1>1, <2>1, QuietFlow
  <1>9. CASE Perform(r, "handler", "finalize", [Current(r) EXCEPT !.panic = TRUE])
    <2>1. Ready(r, [Current(r) EXCEPT !.panic = TRUE])
      BY <1>2, Ignored DEF Ready
    <2> QED BY <1>1, <1>9, <2>1, PerformFlow
  <1>10. CASE Goto(r, "handler", "escaped") /\ UNCHANGED cleanPanic
    BY <1>1, <1>10, QuietFlow DEF Goto
  <1>11. CASE HandlerPanics(r)
    BY <1>9, <1>10, <1>11 DEF HandlerPanics
  <1> QED BY <1>4, <1>5, <1>6, <1>7, <1>8, <1>11
\* The status that was chosen is sent; a panic concerns the connection.
LEMMA FinalizeEffect ==
    ASSUME FinalOnly, Core, NEW r \in Requests, Finalize(r)
    PROVE  /\ stage[r] = "finalize" /\ stage'[r] \in {"done", "aborted"}
           /\ net'[r].hijacked = net[r].hijacked
           /\ stage'[r] = "aborted" => AbortInv(r)'
           /\ stage'[r] = "done" /\ ~net'[r].hijacked =>
                 /\ net'[r].wire = resp'[obj[r]].status /\ net'[r].wire # 0
                 /\ resp[obj[r]].status # 0 => net'[r].wire = resp[obj[r]].status
           /\ UNCHANGED <<debug, parseError, early, raised, cleanPanic, retained, unused>>
  <1> DEFINE x == Current(r)
             y == Finalized(x)
             to == IF y.panic THEN "aborted" ELSE "done"
             put == ~(y.panic \/ y.resp.hijacked)
  <1>1. /\ stage[r] = "finalize" /\ stage' = [stage EXCEPT ![r] = to] /\ Become(r, y)
        /\ obj' = [obj EXCEPT ![r] = IF put /\ r \notin retained THEN NoObject ELSE @]
        /\ UNCHANGED <<debug, parseError, early, raised, cleanPanic, retained, unused>>
    BY DEF Finalize, Goto, histVars
  <1>2. Live(r) /\ obj[r] \in Objects
    BY <1>1 DEF Live, Core, UseInv, InUse
  <1>3. Good(x) /\ x.resp = resp[obj[r]] /\ x.net = net[r] /\ ~x.panic /\ ~x.failed
    BY <1>2, CurrentGood
  <1> HIDE DEF x
  <1>4. /\ Good(y) /\ Keeps(x, y)
        /\ y.panic => Explained(y)
        /\ ~y.panic /\ ~y.net.hijacked =>
              /\ y.net.wire = y.resp.status /\ y.net.wire # 0
              /\ x.resp.status # 0 => y.resp.status = x.resp.status
    BY <1>3, FinalizedGood
  <1>5. put => ~y.panic
    OBVIOUS
  <1>6. to = "aborted" => y.panic
    OBVIOUS
  <1>7. to \in {"done", "aborted"} /\ (to = "done" => ~y.panic)
    OBVIOUS
  <1> HIDE DEF y, to, put
  <1>8. /\ stage'[r] = to /\ net'[r] = y.net /\ resp'[obj[r]] = y.resp
        /\ y.panic => obj'[r] = obj[r]
    BY <1>1, <1>2, <1>5 DEF Become, Core, TypeInv
  <1>9. y.net.hijacked = x.net.hijacked
    BY <1>3, <1>4 DEF Good, Keeps
  <1>10. stage'[r] = "aborted" => AbortInv(r)'
    BY <1>1, <1>4, <1>6, <1>8 DEF AbortInv, Explained, Exchange
  <1> QED BY <1>1, <1>3, <1>4, <1>7, <1>8, <1>9, <1>10

LEMMA FinalizeFlow ==
    ASSUME FinalOnly, Core, NEW r \in Requests, Flow(r), Finalize(r)
    PROVE  Flow(r)'
  <1>1. /\ stage[r] = "finalize" /\ stage'[r] \in {"done", "aborted"}
        /\ net'[r].hijacked = net[r].hijacked
        /\ stage'[r] = "aborted" => AbortInv(r)'
        /\ stage'[r] = "done" /\ ~net'[r].hijacked =>
              (resp[obj[r]].status # 0 => net'[r].wire = resp[obj[r]].status)
        /\ UNCHANGED <<parseError, early, raised, cleanPanic>>
    BY FinalizeEffect
  <1>2. EarlyInv(r)'
    BY <1>1 DEF EarlyInv, Before
  <1>3. ParseInv(r)' /\ PanicInv(r)'
    BY <1>1 DEF Flow, ParseInv, PanicInv
  <1>4. AbortInv(r)'
    BY <1>1 DEF AbortInv
  <1> QED BY <1>2, <1>3, <1>4 DEF Flow

LEMMA OutsideFlow ==
    ASSUME Core, NEW r \in Requests, Flow(r), Redirect(r) \/ Arrive(r) \/ UpgradeEnds(r) \/ ClientLeaves(r)
    PROVE  Flow(r)'
  <1>1. CASE Redirect(r)
    <2>1. /\ stage[r] = "idle" /\ stage'[r] = "done"
          /\ UNCHANGED <<parseError, early, raised, cleanPanic>>
      BY <1>1 DEF Redirect, Goto, histVars, Core, TypeInv
    <2> QED BY <2>1 DEF Flow, EarlyInv, ParseInv, PanicInv, AbortInv, Before
  <1>2. CASE Arrive(r)
    <2>1. PICK o \in pool \cup unused : obj' = [obj EXCEPT ![r] = o] /\ resp' = [resp EXCEPT ![o] = NewResponse]
      BY <1>2 DEF Arrive
    <2>2. /\ stage[r] = "idle" /\ stage'[r] = "outer" /\ net' = net
          /\ UNCHANGED <<parseError, early, raised, cleanPanic>>
      BY <1>2 DEF Arrive, Goto, histVars, Core, TypeInv
    <2>3. resp'[obj'[r]] = NewResponse /\ ~net[r].hijacked
      BY <2>1, <2>2 DEF Core, TypeInv, IdleInv
    <2> QED BY <2>2, <2>3 DEF Flow, EarlyInv, ParseInv, PanicInv, AbortInv, Before, NewResponse
  <1>3. CASE UpgradeEnds(r)
    <2>1. Same(r)
      BY <1>3 DEF UpgradeEnds, Same, poolVars, histVars
    <2> QED BY <2>1, SameFlow
  <1>4. CASE ClientLeaves(r)
    <2>1. /\ Live(r) /\ net[r] \in Nets /\ net' = [net EXCEPT ![r] = [net[r] EXCEPT !.broken = TRUE]]
          /\ UNCHANGED <<debug, stage, obj, resp, parseError, early, raised, cleanPanic>>
      BY <1>4 DEF ClientLeaves, poolVars, histVars, Core, TypeInv
    <2>2. net'[r].hijacked = net[r].hijacked /\ net'[r].wire = net[r].wire
      BY <2>1 DEF Core, TypeInv, Nets
    <2> QED BY <2>1, <2>2 DEF Flow, EarlyInv, ParseInv, PanicInv, AbortInv, Live
  <1> QED BY <1>1, <1>2, <1>3, <1>4

LEMMA OutsideSame ==
    ASSUME Core, NEW r \in Requests, NEW u \in Requests \ {r},
           \/ Redirect(r) \/ Arrive(r) \/ UpgradeEnds(r) \/ ClientLeaves(r) \/ Finalize(r)
           \/ Goto(r, "handler", "escaped") /\ HandlerPanics(r) /\ resp' = resp /\ net' = net /\ cleanPanic' = cleanPanic
    PROVE  Same(u)
  <1> USE DEF Core
  <1>1. CASE Redirect(r)
    BY <1>1 DEF Redirect, Goto, Same, TypeInv, poolVars, histVars
  <1>2. CASE Arrive(r)
    <2>1. PICK o \in pool \cup unused : obj' = [obj EXCEPT ![r] = o] /\ resp' = [resp EXCEPT ![o] = NewResponse]
      BY <1>2 DEF Arrive
    <2>2. Live(u) => obj[u] # o /\ obj[u] \in Objects
      BY DEF UseInv, InUse
    <2>3. Live(u) => resp'[obj'[u]] = resp[obj[u]]
      BY <2>1, <2>2 DEF TypeInv
    <2> QED BY <1>2, <2>3 DEF Arrive, Goto, Same, TypeInv, histVars
  <1>3. CASE UpgradeEnds(r)
    BY <1>3 DEF UpgradeEnds, Same, poolVars, histVars
  <1>4. CASE ClientLeaves(r)
    BY <1>4 DEF ClientLeaves, Same, TypeInv, poolVars, histVars
  <1>5. CASE Finalize(r)
    <2>1. Live(r)
      BY <1>5 DEF Finalize, Goto, Live
    <2>2. Live(u) => obj[u] # obj[r] /\ obj[u] \in Objects
      BY <2>1 DEF UseInv, InUse
    <2>3. PICK p, n, o, t : /\ resp' = [resp EXCEPT ![obj[r]] = p] /\ net' = [net EXCEPT ![r] = n]
                            /\ obj' = [obj EXCEPT ![r] = o] /\ stage' = [stage EXCEPT ![r] = t]
      BY <1>5 DEF Finalize, Become, Goto
    <2>4. Live(u) => resp'[obj'[u]] = resp[obj[u]]
      BY <2>2, <2>3 DEF TypeInv
    <2>5. net'[u] = net[u] /\ stage'[u] = stage[u]
      BY <2>3 DEF TypeInv
    <2>6. UNCHANGED <<debug, parseError, early, raised, cleanPanic>>
      BY <1>5 DEF Finalize, histVars
    <2> QED BY <2>4, <2>5, <2>6 DEF Same
  <1>6. CASE Goto(r, "handler", "escaped") /\ HandlerPanics(r) /\ resp' = resp /\ net' = net /\ cleanPanic' = cleanPanic
    <2>1. UNCHANGED <<debug, poolVars, retained, ops, parseError, early>>
      BY <1>6 DEF HandlerPanics
    <2>2. raised' = [raised EXCEPT ![r] = TRUE]
      BY <1>6 DEF HandlerPanics, Perform
    <2> QED BY <1>6, <2>1, <2>2 DEF Same, Goto, TypeInv, poolVars
  <1> QED BY <1>1, <1>2, <1>3, <1>4, <1>5, <1>6
AllFlow == \A r \in Requests : Flow(r)

LEMMA NextFlow ==
    ASSUME FinalOnly, Core, AllFlow, [Next]_vars
    PROVE  AllFlow'
  <1>1. ASSUME NEW r \in Requests, Flow(r)', \A u \in Requests \ {r} : Same(u)
        PROVE  AllFlow'
    BY <1>1, SameFlow DEF AllFlow
  <1>2. ASSUME NEW r \in Requests PROVE Flow(r)
    BY DEF AllFlow
  <1>3. ASSUME NEW r \in Requests, \E t, y : Advance(r, t, y), Flow(r)' PROVE AllFlow'
    BY <1>1, <1>3, AdvanceSame
  <1>4. ASSUME NEW r \in Requests, OuterMiddleware(r) \/ Cors(r) PROVE AllFlow'
    BY <1>2, <1>3, <1>4, OuterAdvances, CorsAdvances, OuterFlow, CorsFlow
  <1>5. ASSUME NEW r \in Requests, Parse(r) \/ Validate(r) PROVE AllFlow'
    BY <1>2, <1>3, <1>5, ParseAdvances, ValidateAdvances, ParseFlow, ValidateFlow
  <1>6. ASSUME NEW r \in Requests, HandlerCalls(r) \/ HandlerError(r) \/ HandlerHijacks(r) PROVE AllFlow'
    BY <1>2, <1>3, <1>6, HandlerAdvances, HandlerFlow
  <1>7. ASSUME NEW r \in Requests, Upgrade(r) \/ HandlerReturns(r) PROVE AllFlow'
    BY <1>2, <1>3, <1>7, UpgradeAdvances, ReturnAdvances, HandlerFlow
  <1>8. ASSUME NEW r \in Requests, HandlerPanics(r) PROVE AllFlow'
    <2>1. Flow(r)'
      BY <1>2, <1>8, HandlerFlow
    <2>2. CASE Perform(r, "handler", "finalize", [Current(r) EXCEPT !.panic = TRUE])
      BY <1>3, <1>8, <2>1, <2>2, ErrorPanicAdvances DEF HandlerPanics
    <2>3. CASE Goto(r, "handler", "escaped") /\ UNCHANGED <<resp, net, cleanPanic>>
      <3>1. \A u \in Requests \ {r} : Same(u)
        BY <1>8, <2>3, OutsideSame
      <3> QED BY <1>1, <2>1, <3>1
    <2> QED BY <1>8, <2>2, <2>3 DEF HandlerPanics
  <1>9. ASSUME NEW r \in Requests, Redirect(r) \/ Arrive(r) \/ UpgradeEnds(r) \/ ClientLeaves(r)
        PROVE  AllFlow'
    BY <1>1, <1>2, <1>9, OutsideFlow, OutsideSame
  <1>10. ASSUME NEW r \in Requests, Finalize(r) PROVE AllFlow'
    BY <1>1, <1>2, <1>10, FinalizeFlow, OutsideSame
  <1>11. CASE UNCHANGED vars
    <2>1. \A r \in Requests : Same(r)
      BY <1>11 DEF vars, Same
    <2> QED BY <1>2, <2>1, SameFlow DEF AllFlow
  <1> QED BY <1>4, <1>5, <1>6, <1>7, <1>8, <1>9, <1>10, <1>11 DEF Next

LEMMA FlowHolds == FinalOnly /\ Spec => []AllFlow
  <1> SUFFICES ASSUME FinalOnly PROVE Spec => []AllFlow
    OBVIOUS
  <1>1. Init => AllFlow
    BY InitFlow DEF AllFlow
  <1>2. Core /\ AllFlow /\ [Next]_vars => AllFlow'
    BY NextFlow
  <1> QED BY <1>1, <1>2, CoreHolds, PTL DEF Spec

\* A panic before anything was sent is answered 500, if applications send final codes
\* only (recoveryMiddleware, PanicStatusHandler).
THEOREM PanicIs500Holds == FinalOnly /\ Spec => []PanicIs500
  <1>1. AllFlow => PanicIs500
    BY DEF AllFlow, Flow, PanicInv, PanicIs500
  <1> QED BY <1>1, FlowHolds, PTL

\* A request that does not parse is answered 400 and its handler does not run, unless
\* a middleware had chosen a status before (parse.Middleware.Handle).
THEOREM ParseErrorStopsHolds == FinalOnly /\ Spec => []ParseErrorStops
  <1>1. AllFlow => ParseErrorStops
    BY DEF AllFlow, Flow, ParseInv, ParseErrorStops
  <1> QED BY <1>1, FlowHolds, PTL

\* Finalization panics only when the error document cannot be written
\* (Router.finalize).
THEOREM AbortExplainedHolds == FinalOnly /\ Spec => []AbortExplained
  <1>1. AllFlow => AbortExplained
    BY DEF AllFlow, Flow, AbortInv, Explained, Exchange, AbortExplained
  <1> QED BY <1>1, FlowHolds, PTL

\* goyave answers every request that ends on its own connection, with the status the
\* Response shows, if applications send final codes only (Router.finalize).
THEOREM StatusOnWireHolds == FinalOnly /\ Spec => StatusOnWire
  <1> SUFFICES ASSUME FinalOnly PROVE Spec => StatusOnWire
    OBVIOUS
  <1> DEFINE Answered ==
               \A r \in Requests : stage[r] # "done" /\ stage'[r] = "done" /\ ~net'[r].hijacked =>
                  /\ net'[r].wire # 0
                  /\ stage[r] = "finalize" => net'[r].wire = resp'[obj[r]].status
  <1>1. ASSUME Core, [Next]_vars, NEW r \in Requests,
               stage[r] # "done", stage'[r] = "done", ~net'[r].hijacked
        PROVE  /\ net'[r].wire # 0
               /\ stage[r] = "finalize" => net'[r].wire = resp'[obj[r]].status
    <2>1. ASSUME NEW u \in Requests, \E t, y : Advance(u, t, y) PROVE FALSE
      <3>1. PICK t \in After : stage' = [stage EXCEPT ![u] = t]
        BY <2>1 DEF Advance
      <3> QED BY <1>1, <3>1 DEF Core, TypeInv, After
    <2>2. CASE Finalize(r)
      BY <2>2, <1>1, FinalizeEffect
    <2>3. CASE Redirect(r)
      BY <2>3, <1>1 DEF Redirect, Goto, Core, TypeInv, Nets
    <2>4. ASSUME NEW u \in Requests \ {r}, Redirect(u) \/ Finalize(u) PROVE FALSE
      BY <1>1, <2>4, OutsideSame DEF Same
    <2>5. ASSUME NEW u \in Requests, Arrive(u) \/ UpgradeEnds(u) \/ ClientLeaves(u) PROVE FALSE
      BY <1>1, <2>5 DEF Arrive, UpgradeEnds, ClientLeaves, Goto, Core, TypeInv
    <2>6. ASSUME NEW u \in Requests, OuterMiddleware(u) \/ Cors(u) \/ Parse(u) \/ Validate(u) PROVE FALSE
      BY <1>1, <2>1, <2>6, OuterAdvances, CorsAdvances, ParseAdvances, ValidateAdvances
    <2>7. ASSUME NEW u \in Requests,
                 \/ HandlerCalls(u) \/ HandlerError(u) \/ HandlerHijacks(u) \/ Upgrade(u) \/ HandlerReturns(u)
          PROVE  FALSE
      BY <1>1, <2>1, <2>7, HandlerAdvances, UpgradeAdvances, ReturnAdvances
    <2>8. ASSUME NEW u \in Requests, HandlerPanics(u) PROVE FALSE
      <3>1. CASE Goto(u, "handler", "escaped")
        BY <1>1, <3>1 DEF Goto, Core, TypeInv
      <3> QED BY <1>1, <2>1, <2>8, <3>1, ErrorPanicAdvances DEF HandlerPanics
    <2>9. ~UNCHANGED vars
      BY <1>1 DEF vars
    <2> QED BY <1>1, <2>2, <2>3, <2>4, <2>5, <2>6, <2>7, <2>8, <2>9 DEF Next
  <1>2. Core /\ [Next]_vars => [Answered]_vars
    BY <1>1
  <1> HIDE DEF Answered
  <1>3. Spec => [][Answered]_vars
    BY <1>2, CoreHolds, PTL DEF Spec
  <1> QED BY <1>3 DEF StatusOnWire, Answered
=============================================================================

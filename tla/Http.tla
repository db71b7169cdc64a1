-------------------------------- MODULE Http --------------------------------
(* The HTTP server (net/uhttpsrv), its two callbacks (www/website, www/api) *)
(* and the flash file system they read (ffs).                               *)
(*                                                                          *)
(* Every serving task listens, reads requests from its connection and runs  *)
(* the callback; tasks interleave whenever a socket or a semaphore makes    *)
(* them wait. A step is the code between two such points that other tasks   *)
(* can tell apart: they share only the file pool, the read buffer fbuf and  *)
(* the semaphore that guards it. A client's bytes are lines (tuples) and    *)
(* body bytes; any socket call may fail (timeout, peer gone), and a send    *)
(* that fails once may be followed by one that succeeds.                    *)
EXTENDS Naturals, Sequences

CONSTANTS HttpTasks,  \* serving tasks
          Callbacks,  \* set of functions task -> "www" or "api"
          Files,      \* url -> size of the file
          PoolSize,   \* elems(fpool)
          Chunk,      \* sizeof(fbuf)
          Urls,       \* what clients ask for
          Requests    \* callback -> requests a client may send

None == "none"
\* The table of GetMethodSpec
Methods == {"GET", "HEAD", "POST", "PUT", "DELETE", "CONNECT", "OPTIONS", "TRACE", "PATCH"}
WsFields == {"host", "version", "key", "connection", "upgrade"}
\* A line of a request, or a byte of its body
Lines == ({"req"} \X (Methods \cup {None}) \X Urls) \cup ({"len"} \X Nat) \cup ({"ws"} \X WsFields)
         \cup {<<k>> : k \in {"gzip", "plain", "other", "junk", "end", "byte"}}

ASSUME HttpAssumption ==
    /\ PoolSize \in Nat \ {0} /\ Chunk \in Nat \ {0} /\ 0 \notin HttpTasks
    /\ Callbacks \subseteq [HttpTasks -> {"www", "api"}]
    /\ \A u \in DOMAIN Files : Files[u] \in Nat
    /\ \A c \in {"www", "api"} : \A q \in Requests[c] : q \in Seq(Lines)

VARIABLES hcb,   \* callback of every task's instance
          hpc,   \* where a task waits
          hin,   \* what the client has sent and the task has not read
          hreq,  \* uhttp_request_t of the task, with the callback's locals
          hout,  \* what the client got in answer to the request
          fpool, \* open files
          fbuf,  \* the buffer all the tasks share
          fsem,  \* who holds fbuf_sem
          hcut   \* has a response body been cut short?

hvars == <<hcb, hpc, hin, hreq, hout, fpool, fbuf, fsem, hcut>>

Probe == 3                        \* bytes read to recognise a gzipped file
Bytes(f, from, to) == [i \in 1 .. to - from |-> <<f, from + i>>]
NoFile == [used |-> FALSE, url |-> None, pos |-> 0]
NoResp == [code |-> 0, len |-> <<>>, hid |-> FALSE, ended |-> FALSE,
           body |-> <<>>]
Request(m, u) == [state |-> "fields", method |-> m, url |-> u, body |-> 0,
                  resp |-> 0, ws |-> {}, type |-> "std", fp |-> 0, left |-> 0,
                  read |-> FALSE]

HttpStart ==
    /\ hpc = [t \in HttpTasks |-> "listen"]
    /\ hin = [t \in HttpTasks |-> <<>>]
    /\ hreq = [t \in HttpTasks |-> Request(None, None)]
    /\ hout = [t \in HttpTasks |-> NoResp]
    /\ fpool = [i \in 1 .. PoolSize |-> NoFile]
    /\ fbuf = <<>> /\ fsem = 0 /\ hcut = FALSE
HttpInit == hcb \in Callbacks /\ HttpStart

-----------------------------------------------------------------------------
(* The socket calls the server is built from.                               *)

\* Task t goes on at pc with the request r and the answer o.
Goto(t, pc, in, r, o) == /\ hpc' = [hpc EXCEPT ![t] = pc]
                         /\ hin' = [hin EXCEPT ![t] = in]
                         /\ hreq' = [hreq EXCEPT ![t] = r]
                         /\ hout' = [hout EXCEPT ![t] = o]

\* UHTTPSrv_Close and the loop that goes back to listening; the locals are
\* forgotten
Close(t) == Goto(t, "listen", <<>>, Request(None, None), NoResp)

\* ParseRequestLine: three words, a method of the table. The version is one of
\* the table too; for any other the code uses a null pointer (see the README).
ParseRequestLine(l) == l[1] = "req" /\ l[2] \in Methods

\* The fields of GetFieldSpec that the server or a callback looks at:
\* Content-Length, the five of a websocket, Accept-Encoding with and without
\* gzip
KnownFields == {"len", "ws", "gzip", "plain"}

\* ParseFieldLine: everything with a ':' is a field, known or not
ParseFieldLine(l) == l[1] \in KnownFields \cup {"other"}

\* UHTTPSrv_ReadHeaderField once RecvLine has returned the line l
ReadHeaderField(r, l) ==
    CASE l[1] = "end" ->
            [r EXCEPT !.state = IF r.body > 0 THEN "body" ELSE "status",
                      !.type = IF r.method = "GET" /\ r.body = 0 /\ r.ws = WsFields
                               THEN "ws" ELSE "std"]
      [] ~ParseFieldLine(l) /\ l[1] # "end" -> [r EXCEPT !.state = "error"]
      [] l[1] = "len" -> [r EXCEPT !.body = l[2]]
      [] l[1] = "ws" -> [r EXCEPT !.ws = @ \cup {l[2]}]
      [] OTHER -> r

\* UHTTPSrv_ReadBody when the client has sent everything: at most limit bytes
ReadBody(r, limit) ==
    IF r.state # "body" THEN [r EXCEPT !.state = "error"]
    ELSE LET n == IF limit < r.body THEN limit ELSE r.body
         IN [r EXCEPT !.body = @ - n, !.state = IF n = r.body THEN "status" ELSE @]

\* The length of the message of GetStatusCodeSpec
StatusText(code) == CASE code = 200 -> 2 [] code = 101 -> 19 [] code = 400 -> 11
                      [] code = 404 -> 9 [] code = 405 -> 18 [] code = 500 -> 21

\* SendStatusLine renders version, code, message and "\r\n" into 32 bytes, one
\* of them for the terminator: a longer line loses its end, and the
\* Content-Length field behind it becomes part of the status line.
StatusFits(code) == 8 + 1 + 3 + 1 + StatusText(code) + 2 <= 32 - 1

\* UHTTPSrv_SendStatus: the possible outcomes. After the status line come
\* four fields; the first one that fails silences the rest, and the state is
\* set as if none had.
SendStatus(r, o, code, size) ==
    IF r.state = "error" THEN {<<r, o>>}
    ELSE {<<[r EXCEPT !.state = "error"], o>>} \cup
         {<<[r EXCEPT !.state = "hdr", !.resp = size],
            [o EXCEPT !.code = code, !.hid = sent < 4,
                      !.len = IF sent > 0 /\ StatusFits(code) THEN <<size>> ELSE <<>>]>> :
                sent \in {0, 1, 4}}

\* One or more calls of UHTTPSrv_SendHeaderField.
SendHeaderField(x) ==
    LET failed == <<[x[1] EXCEPT !.state = "error"], x[2]>>
    IN IF x[1].state = "hdr" THEN {x, failed} ELSE {failed}

\* Mutant: the answer is done with its header.
EndHeader_Done(x) ==
    {<<[x[1] EXCEPT !.state = "done"], [x[2] EXCEPT !.ended = x[1].state = "hdr"]>>}

\* UHTTPSrv_EndHeader
EndHeader(x) ==
    LET failed == <<[x[1] EXCEPT !.state = "error"], x[2]>>
    IN IF x[1].state # "hdr" THEN {failed}
       ELSE {failed, <<[x[1] EXCEPT !.state = IF x[1].resp > 0 THEN "data" ELSE "done"],
                       [x[2] EXCEPT !.ended = TRUE]>>}

\* The scope of with_sem ends: the next holder fills fbuf before it reads it.
Unlock == fsem' = 0 /\ fbuf' = <<>>

\* A callback returns EOK: the connection lives on if the answer is complete.
Return(t, x) == IF x[1].state = "done"
                THEN Goto(t, "line", hin[t], Request(x[1].method, x[1].url), x[2])
                ELSE Close(t)

-----------------------------------------------------------------------------
(* UHTTPSrv_ServeTask                                                       *)

Listen(t) ==
    /\ hpc[t] = "listen" /\ Goto(t, "line", <<>>, hreq[t], NoResp)
    /\ UNCHANGED <<hcb, fpool, fbuf, fsem, hcut>>

\* The client sends its next request.
Ask(t) ==
    /\ hpc[t] = "line" /\ hin[t] = <<>>
    /\ \E q \in Requests[hcb[t]] : hin' = [hin EXCEPT ![t] = q]
    /\ UNCHANGED <<hcb, hpc, hreq, hout, fpool, fbuf, fsem, hcut>>

ServeRequest(t) ==
    /\ hpc[t] = "line" /\ hin[t] # <<>> /\ ParseRequestLine(Head(hin[t]))
    /\ Goto(t, "call", Tail(hin[t]), Request(Head(hin[t])[2], Head(hin[t])[3]), NoResp)
    /\ UNCHANGED <<hcb, fpool, fbuf, fsem, hcut>>

\* Nothing (more) comes, the client is gone, or the line is no request.
ServeDrop(t) ==
    /\ hpc[t] = "line" /\ Close(t)
    /\ UNCHANGED <<hcb, fpool, fbuf, fsem, hcut>>

-----------------------------------------------------------------------------
(* Reading the request, in both callbacks.                                  *)

ReadFields(t) ==
    /\ hpc[t] = "call" /\ hreq[t].state = "fields"
    /\ \/ Goto(t, "call", hin[t], [hreq[t] EXCEPT !.state = "error"], NoResp)
       \/ /\ hin[t] # <<>>
          /\ IF hcb[t] = "www" /\ Head(hin[t])[1] = "plain"
             THEN Close(t)      \* the client does not take gzip: return EFATAL
             ELSE Goto(t, "call", Tail(hin[t]), ReadHeaderField(hreq[t], Head(hin[t])), NoResp)
    /\ UNCHANGED <<hcb, fpool, fbuf, fsem, hcut>>

\* HTTPSrvApi_ProcessRequest: the status code of the answer.
ApiCode(r) == IF r.url # "/" THEN 404
              ELSE IF r.method \notin {"POST", "OPTIONS"} THEN 405
              ELSE IF r.method = "OPTIONS" THEN 200 ELSE 400

\* HTTPSrvWebsite_Callback drops the body. HTTPSrvApi_ProcessPost reads up to
\* 256 bytes of it and the error path drops the rest; ProcessOptions does not
\* look at it.
WantsBody(t) ==
    LET r == hreq[t]
    IN \/ r.state = "body" /\ (hcb[t] = "www" \/ ApiCode(r) # 200)
       \/ r.state = "status" /\ hcb[t] = "api" /\ ApiCode(r) = 400 /\ ~r.read

\* Mutant: the body stays in the socket.
DropBody_Skip(t) ==
    /\ hpc[t] = "call" /\ hreq[t].state = "body"
    /\ Goto(t, "call", hin[t], [hreq[t] EXCEPT !.state = "status"], NoResp)
    /\ UNCHANGED <<hcb, fpool, fbuf, fsem, hcut>>

DropBody(t) ==
    /\ hpc[t] = "call" /\ WantsBody(t)
    /\ LET n == IF hreq[t].state = "body" THEN hreq[t].body ELSE 0
       IN \/ Goto(t, "call", hin[t], [hreq[t] EXCEPT !.state = "error"], NoResp)
          \/ /\ Len(hin[t]) >= n
             /\ Goto(t, "call", SubSeq(hin[t], n + 1, Len(hin[t])),
                     [ReadBody(hreq[t], n) EXCEPT !.read = TRUE], NoResp)
    /\ UNCHANGED <<hcb, fpool, fbuf, fsem, hcut>>

Reads(t) == hpc[t] = "call" /\ hreq[t].state \in {"status", "error"}

-----------------------------------------------------------------------------
(* The web site: HTTPSrvWebsite_CallbackFiles and _CallbackWebSocket.       *)

\* FFS_Open: the entry of the pool it takes, 0 when it returns none
FFS_Open(u) ==
    LET free == {i \in 1 .. PoolSize : ~fpool[i].used}
    IN IF u \in DOMAIN Files /\ free # {}
       THEN CHOOSE i \in free : \A j \in free : i <= j ELSE 0

\* FFS_Read: what is left of the file, at most n bytes
FFS_Read(fp, n) ==
    LET f == fpool[fp]
    IN Bytes(f.url, f.pos, IF f.pos + n < Files[f.url] THEN f.pos + n ELSE Files[f.url])

\* Mutant: the file stays open.
FFS_Close_Never(fp) == fpool' = fpool

\* FFS_Close; what is left in an unused entry is never read
FFS_Close(fp) == fpool' = IF fp = 0 THEN fpool ELSE [fpool EXCEPT ![fp] = NoFile]

FName(u) == IF u = "/" THEN "/index.html" ELSE u

\* The file is opened and the status and first fields go out.
WwwFiles(t) ==
    /\ Reads(t) /\ hcb[t] = "www" /\ hreq[t].type = "std"
    /\ LET u  == FName(hreq[t].url)
           fp == FFS_Open(u)
           size == IF fp = 0 THEN 0 ELSE Files[u]
           r  == [hreq[t] EXCEPT !.fp = fp, !.left = size]
       IN /\ fpool' = IF fp = 0 THEN fpool
                      ELSE [fpool EXCEPT ![fp] = [used |-> TRUE, url |-> u, pos |-> 0]]
          /\ \E x \in SendStatus(r, hout[t], IF fp = 0 THEN 404 ELSE 200, size) :
               \E y \in SendHeaderField(x) : Goto(t, "lock", hin[t], y[1], y[2])
    /\ UNCHANGED <<hcb, fbuf, fsem, hcut>>

\* with_sem(&fbuf_sem), then the file is probed for gzip and rewound; a file
\* shorter than the probe is not rewound.
WwwLock(t) ==
    /\ hpc[t] = "lock" /\ fsem = 0
    /\ fsem' = t
    /\ LET fp == hreq[t].fp
       IN IF fp = 0 THEN UNCHANGED <<fpool, fbuf>>
          ELSE LET got == FFS_Read(fp, Probe)
               IN /\ fbuf' = got
                  /\ fpool' = [fpool EXCEPT ![fp].pos = IF Len(got) = Probe THEN 0 ELSE Len(got)]
    /\ hpc' = [hpc EXCEPT ![t] = "head"]
    /\ UNCHANGED <<hcb, hin, hreq, hout, hcut>>

\* The rest of the header; an error goes to the end of the callback. The type
\* of the content, and with it GetMimeTypeForFileExt, is left out (see the README).
WwwHead(t) ==
    /\ hpc[t] = "head"
    /\ \E x \in SendHeaderField(<<hreq[t], hout[t]>>) : \E y \in EndHeader(x) :
         IF y[1].state = "error" \/ y[1].left = 0
         THEN Unlock /\ FFS_Close(y[1].fp) /\ Return(t, y)
         ELSE Goto(t, "read", hin[t], y[1], y[2]) /\ UNCHANGED <<fsem, fbuf, fpool>>
    /\ UNCHANGED <<hcb, hcut>>

\* A chunk is read into fbuf and UHTTPSrc_SendBody starts to send it.
WwwRead(t) ==
    /\ hpc[t] = "read"
    /\ LET fp == hreq[t].fp
           got == FFS_Read(fp, Chunk)
       IN IF got = <<>>
          THEN Unlock /\ FFS_Close(fp) /\ Return(t, <<hreq[t], hout[t]>>)
          ELSE /\ fbuf' = got
               /\ fpool' = [fpool EXCEPT ![fp].pos = @ + Len(got)]
               /\ Goto(t, "send", hin[t], hreq[t], hout[t])
               /\ UNCHANGED fsem
    /\ UNCHANGED <<hcb, hcut>>

\* The bytes left fbuf (UHTTPSrc_SendBody returned their number).
WwwSent(t) ==
    /\ hpc[t] = "send"
    /\ LET r == hreq[t]
           n == Len(fbuf)
           s == [r EXCEPT !.resp = @ - n, !.left = @ - n,
                          !.state = IF r.resp = n THEN "done" ELSE @]
           o == [hout[t] EXCEPT !.body = @ \o fbuf]
       IN IF s.left = 0 THEN Unlock /\ FFS_Close(r.fp) /\ Return(t, <<s, o>>)
          ELSE Goto(t, "read", hin[t], s, o) /\ UNCHANGED <<fsem, fbuf, fpool>>
    /\ UNCHANGED <<hcb, hcut>>

\* Sending the chunk failed: the callback returns at once, the semaphore is
\* released by its scope, the file stays open.
WwwCut(t) ==
    /\ hpc[t] = "send" /\ Close(t)
    /\ Unlock /\ hcut' = TRUE
    /\ UNCHANGED <<hcb, fpool>>

\* UHTTPSrvWS_Accept
WwwAccept(t) ==
    /\ Reads(t) /\ hcb[t] = "www" /\ hreq[t].type = "ws"
    /\ \E x \in SendStatus(hreq[t], hout[t], 101, 0) : \E y \in SendHeaderField(x) :
         \E z \in EndHeader(y) :
            IF z[1].state = "error" THEN Close(t)
            ELSE Goto(t, "ws", hin[t], z[1], z[2])
    /\ UNCHANGED <<hcb, fpool, fbuf, fsem, hcut>>

\* The echo loop (module Ws) ends with an error: the connection is closed.
WwwEchoEnds(t) ==
    /\ hpc[t] = "ws" /\ Close(t)
    /\ UNCHANGED <<hcb, fpool, fbuf, fsem, hcut>>

-----------------------------------------------------------------------------
(* The API: HTTPSrvApi_ProcessRequest.                                      *)

\* OPTIONS answers once the fields are read; everything else when the body is
\* gone too.
ApiAnswer(t) ==
    /\ hcb[t] = "api" /\ hpc[t] = "call" /\ ~WantsBody(t)
    /\ \/ hreq[t].state \in {"status", "error"}
       \/ hreq[t].state = "body" /\ ApiCode(hreq[t]) = 200
    /\ \E x \in SendStatus(hreq[t], hout[t], ApiCode(hreq[t]), 0) :
         \E y \in IF ApiCode(hreq[t]) = 200 THEN SendHeaderField(x) ELSE {x} :
           \E z \in EndHeader(y) : Return(t, z)
    /\ UNCHANGED <<hcb, fpool, fbuf, fsem, hcut>>

-----------------------------------------------------------------------------
HttpStep(t) ==
    \/ Listen(t) \/ Ask(t) \/ ServeRequest(t) \/ ServeDrop(t)
    \/ ReadFields(t) \/ DropBody(t)
    \/ WwwFiles(t) \/ WwwLock(t) \/ WwwHead(t) \/ WwwRead(t)
    \/ WwwSent(t) \/ WwwCut(t) \/ WwwAccept(t) \/ WwwEchoEnds(t)
    \/ ApiAnswer(t)

HttpNext == \E t \in HttpTasks : HttpStep(t)

HttpSpec == HttpInit /\ [][HttpNext]_hvars

-----------------------------------------------------------------------------
(* What the clients send; what the code does otherwise is in the README.    *)

\* Line l does not ask the API for a method it refuses.
Answerable(l) == l[1] = "req" /\ l[2] \in Methods => l[3] # "/" \/ l[2] \in {"POST", "OPTIONS"}
\* No client of the API is answered with 405 (StatusFits(405) does not hold)
NoRefusal == \A q \in Requests["api"] : \A i \in DOMAIN q : Answerable(q[i])

\* q is what remains of a request: fields before line n, the body behind it;
\* b is the length that the fields read so far gave.
Remains(q, n, b) ==
  /\ q[n][1] = "end" /\ \A i \in 1 .. n - 1 : q[i][1] # "end"
  /\ \A i \in 1 .. n - 1 : q[i][1] = "len" => q[i][2] = Len(q) - n
  /\ b = Len(q) - n \/ (b = 0 /\ \E i \in 1 .. n - 1 : q[i][1] = "len")

\* q is a request: a request line, fields, an empty line and a body as long as
\* the length field says. ProcessOptions does not read a body: there is none.
Proper(c, q) ==
  /\ q # <<>> /\ q[1][1] = "req"
  /\ \E n \in 2 .. Len(q) : /\ Remains(q, n, 0)
                            /\ c = "api" /\ q[1][2] = "OPTIONS" /\ q[1][3] = "/" => n = Len(q)
\* All the clients send proper requests.
WellFormed == \A c \in {"www", "api"} : \A q \in Requests[c] : Proper(c, q)

-----------------------------------------------------------------------------
\* Part of the type invariant; the file buffer is locked by the task that
\* reads through it.
HttpTypeOK ==
    /\ hpc \in [HttpTasks -> {"listen", "line", "call", "lock", "head", "read", "send", "ws"}]
    /\ \A t \in HttpTasks :
         /\ hreq[t].state \in {"fields", "body", "status", "hdr", "data", "done", "error"}
         /\ hreq[t].fp \in 0 .. PoolSize
         /\ hpc[t] \in {"head", "read", "send"} <=> fsem = t
    /\ Len(fbuf) <= (IF Chunk > Probe THEN Chunk ELSE Probe)

\* Keep-alive: whatever the previous answer was, the next line the server
\* reads as a request line is one. No part of a body is taken for a request.
InSync == \A t \in HttpTasks :
    hpc[t] = "line" /\ hin[t] # <<>> => Head(hin[t])[1] = "req"

\* The client of a connection that lives on got a complete answer: the header
\* is closed and the body is as long as the Content-Length field says (unless
\* a field of SendStatus was lost, which the server does not notice). At any
\* time the body is a part of the requested file, from its start and in
\* order, although all the tasks read through one buffer.
AnswerWhole == \A t \in HttpTasks :
    /\ hpc[t] = "line" /\ hout[t] # NoResp =>
         hout[t].hid \/ (hout[t].ended /\ hout[t].len = <<Len(hout[t].body)>>)
    /\ hout[t].body = <<>> \/ hout[t].body =
         Bytes(FName(hreq[t].url), 0, Len(hout[t].body))

\* The state is well formed, no two tasks have the same open file, and as long
\* as no download was cut short every entry of the pool that is in use belongs
\* to a running callback.
PoolOwned ==
    LET own == {t \in HttpTasks : hpc[t] \in {"lock", "head", "read", "send"} /\ hreq[t].fp # 0}
    IN /\ HttpTypeOK
       /\ \A t, u \in own : t # u => hreq[t].fp # hreq[u].fp
       /\ \A t \in own : fpool[hreq[t].fp].used
       /\ ~hcut => \A i \in 1 .. PoolSize :
                      fpool[i].used => \E t \in own : hreq[t].fp = i
=============================================================================

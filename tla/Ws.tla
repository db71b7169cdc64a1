--------------------------------- MODULE Ws ---------------------------------
(* Websockets: the server side of uhttpsrv/ws.c and both roles of           *)
(* net/websocket, which share one engine, with the tasks that use them      *)
(* (www/website echoes; www/ws and test/ws listen, answer and close).       *)
(*                                                                          *)
(* The peer sends frames; the socket delivers their bytes in pieces, cut    *)
(* anywhere, and a socket call returns what has arrived, at most what was   *)
(* asked for. A byte is <<f, k>>: byte k of frame f. The masking key is     *)
(* MaskLen bytes long; a byte comes out right only if it met the key byte   *)
(* of its position.                                                         *)
(*                                                                          *)
(* Three history variables say when the code meets what it does not handle. *)
(* wodd: a header that arrives in parts, a 64-bit size, a mask bit our role *)
(* does not expect, a ping or close frame larger than its buffer. wtorn: a  *)
(* piece of payload that ends inside the key. wgarbled: a byte that met the *)
(* wrong byte of the key.                                                   *)
EXTENDS Naturals, Sequences, FiniteSets, SequencesExt

CONSTANTS WsScripts, \* sequences of frames the peer may send
          MaskLen,   \* bytes of the masking key (4)
          Short,     \* payloads of this size and more have a 16-bit size (126)
          Long,      \* and those of this size and more a 64-bit one (65536)
          AppBuf,    \* bytes the application reads at a time
          RcvBuf,    \* bytes RecvPayload reads at a time (32)
          CtlMax,    \* bytes of a control frame that are read (125)
          PingCap    \* bound: pings sent in a row

\* A frame: its opcode (data, control, one that Recv does not know), its size,
\* and whether its mask bit is the one our role expects
WsOps == {"text", "bin", "ping", "pong", "close", "cont"}
WsFrame == [op : WsOps, n : Nat, right : BOOLEAN]
ASSUME WsAssumption == /\ MaskLen \in Nat \ {0} /\ AppBuf \in Nat \ {0} /\ RcvBuf \in Nat \ {0}
                       /\ Short \in Nat /\ Long \in Nat /\ Short <= Long /\ CtlMax \in Nat
                       /\ WsScripts \subseteq Seq(WsFrame)

VARIABLES wlib,   \* "uhttpsrv" (req->ws) or "websocket" (websocket_t)
          wrole,  \* our role: "server" or "client"
          wpeer,  \* the peer's frames
          wsent,  \* <<f, k>>: the next byte the peer's side delivers
          win,    \* bytes waiting in the socket
          wstate, \* ws->state, is_open
          wpc,    \* where the task is
          wrx,    \* rx_size, rx_offs, rx_opcode and the frame they belong to
          wneed,  \* bytes RecvPayload still has to read
          wbuf,   \* bytes of the current frame handed on or sent back
          wout,   \* frames we have sent
          wpings, \* pings sent since the last pong
          wodd, wtorn, wgarbled \* history, see above

whist == <<wodd, wtorn, wgarbled>>
wvars == <<wlib, wrole, wpeer, wsent, win, wstate, wpc, wrx, wneed, wbuf, wout, wpings, whist>>

NoFrame == [f |-> 0, size |-> 0, offs |-> 0, op |-> "none"]

\* Which library is at work, and in which role
WsPlace ==
    /\ wlib \in {"uhttpsrv", "websocket"} /\ wrole \in {"server", "client"}
    /\ wlib = "uhttpsrv" => wrole = "server"
WsStart ==
    /\ wsent = <<1, 0>> /\ win = <<>> /\ wout = <<>> /\ wpings = 0
    /\ wstate = "closed" /\ wpc = "open" /\ wrx = NoFrame /\ wneed = 0 /\ wbuf = <<>>
    /\ wodd = FALSE /\ wtorn = FALSE /\ wgarbled = FALSE
WsInit == wpeer \in WsScripts /\ WsPlace /\ WsStart

Lesser(a, b) == IF a < b THEN a ELSE b
Masked == wrole = "server"

\* websocket_hdr_t: frame f's header on the wire
SizeLen(f) == IF wpeer[f].n >= Long THEN 8 ELSE IF wpeer[f].n >= Short THEN 2 ELSE 0
KeyLen(f) == IF wpeer[f].right = Masked THEN MaskLen ELSE 0
HdrLen(f) == 2 + SizeLen(f) + KeyLen(f)
FrameLen(f) == HdrLen(f) + wpeer[f].n

-----------------------------------------------------------------------------
(* The peer and the socket (external).                                      *)

\* The next piece of the current frame arrives.
Deliver ==
    /\ wpc \notin {"open", "end", "lost"} /\ wsent[1] <= Len(wpeer)
    /\ LET f == wsent[1]
           k == wsent[2]
       IN \E to \in k + 1 .. FrameLen(f) :
            /\ win' = win \o [i \in 1 .. to - k |-> <<f, k + i - 1>>]
            /\ wsent' = IF to = FrameLen(f) THEN <<f + 1, 0>> ELSE <<f, to>>
    /\ UNCHANGED <<wlib, wrole, wpeer, wstate, wpc, wrx, wneed, wbuf, wout, wpings, whist>>

\* sock_funcs.recv, TCPIPTcpSock_Recv: the bytes a call for n bytes returns
Got(n) == SubSeq(win, 1, Lesser(n, Len(win)))
Rest(n) == SubSeq(win, Lesser(n, Len(win)) + 1, Len(win))

-----------------------------------------------------------------------------
(* Opening the connection.                                                  *)

\* UHTTPSrvWS_Accept: the request was checked by the HTTP server.
Accept ==
    /\ wlib = "uhttpsrv" /\ wpc = "open"
    /\ \/ wstate' = "open" /\ wpc' = "recv"
       \/ wstate' = "closed" /\ wpc' = "end"
    /\ UNCHANGED <<wlib, wrole, wpeer, wsent, win, wrx, wneed, wbuf, wout, wpings, whist>>

\* WebSocket_ParseRequestLine: only GET, and a version of the table
RequestLine(q) == q.method = "GET" /\ q.version

\* The fields of GetFieldSpec that either role asks for
ServerFields == {"host", "version", "key", "connection", "upgrade"}
ClientFields == {"accept", "connection", "upgrade"}

\* The codes of GetStatusCodeSpec; ParseStatusLine fails with an unknown version
StatusCodes == {101, 400, 404, 500}
StatusLine(q) == q.version /\ q.code \in StatusCodes

\* WebSocket_ParseFieldLine with the checks of the caller: what is left to
\* complain about once the empty line came
Complete(all, missing, wrong) == wrong \ missing = {} /\ missing \cap all = {}

\* The end of WebSocket_Listen: what the request's fields make of it. A field
\* with a wrong value, or one that is missing, is answered with 400.
ListenStatus(url, missing, wrong) ==
    IF ~url THEN 404 ELSE IF Complete(ServerFields, missing, wrong) THEN 101 ELSE 400

\* WebSocket_Listen. An error is answered and the TCP connection closed; so is
\* one that breaks while the request is read or answered.
WsListen ==
    /\ wlib = "websocket" /\ wrole = "server" /\ wpc = "open" /\ wstate = "closed"
    /\ \E url \in BOOLEAN, missing, wrong \in {{}} \cup {{x} : x \in ServerFields},
          q \in [method : {"GET", "POST"}, version : BOOLEAN] :
         LET code == ListenStatus(url, missing, wrong)
         IN \/ /\ RequestLine(q) /\ code = 101
               /\ wstate' = "open" /\ wpc' = "recv" /\ wrx' = NoFrame
            \/ wstate' = "closed" /\ wpc' = "end" /\ UNCHANGED wrx
    /\ UNCHANGED <<wlib, wrole, wpeer, wsent, win, wneed, wbuf, wout, wpings, whist>>

\* WebSocket_Connect: only 101 with all the fields, and the accept value of
\* our key, opens the connection.
WsConnect ==
    /\ wlib = "websocket" /\ wrole = "client" /\ wpc = "open" /\ wstate = "closed"
    /\ \E q \in [version : BOOLEAN, code : StatusCodes], missing, wrong \in {{}} \cup {{x} : x \in ClientFields} :
         \/ /\ StatusLine(q) /\ q.code = 101 /\ Complete(ClientFields, missing, wrong)
            /\ wstate' = "open" /\ wpc' = "recv" /\ wrx' = NoFrame
         \/ wstate' = "closed" /\ wpc' = "end" /\ UNCHANGED wrx
    /\ UNCHANGED <<wlib, wrole, wpeer, wsent, win, wneed, wbuf, wout, wpings, whist>>

-----------------------------------------------------------------------------
(* Receiving: UHTTPSrvWS_Recv, WebSocket_Recv.                              *)

\* Recv is called: a frame that was not read to its end goes on. (A timeout
\* of zero is used throughout: see the README.)
RecvStart ==
    /\ wpc = "recv"
    /\ IF wrx.size = wrx.offs THEN wpc' = "hdr" /\ UNCHANGED wneed
       ELSE wpc' = "pay" /\ wneed' = Lesser(AppBuf, wrx.size - wrx.offs)
    /\ wbuf' = <<>>
    /\ UNCHANGED <<wlib, wrole, wpeer, wsent, win, wstate, wrx, wout, wpings, whist>>

\* The connection is over: is_open, or state and the TCP socket, are closed.
WsEnd == wstate' = "closed" /\ wpc' = "end"

\* RecvHeader of ws.c: the bytes it fetches behind the first two. Of a 64-bit
\* size it fetches 4 bytes, not 8.
MoreHeader(f) == MaskLen + (IF wpeer[f].n >= Long THEN 4 ELSE SizeLen(f))
\* RecvHeader of websocket.c: only the server expects a key
MoreHeaderRole(f) == (IF Masked THEN MaskLen ELSE 0) + (IF wpeer[f].n >= Long THEN 4 ELSE SizeLen(f))
More(f) == IF wlib = "uhttpsrv" THEN MoreHeader(f) ELSE MoreHeaderRole(f)
\* The bytes that are the rest of the header
HdrRest(f) == [i \in 1 .. HdrLen(f) - 2 |-> <<f, i + 1>>]
\* A call for n bytes of the header does not bring it: that is out of the
\* ordinary when fewer bytes came, or when the size has 64 bits.
OddRest(f, n) == Len(Got(n)) < n \/ wpeer[f].n >= Long

\* What Recv does with the payload of a frame, once its header is known
Payload(f) == IF wpeer[f].op \in {"text", "bin"} THEN Lesser(AppBuf, wpeer[f].n)
              ELSE IF wpeer[f].op = "pong" THEN wpeer[f].n
              ELSE Lesser(CtlMax, wpeer[f].n)

\* The first two bytes of a header; "lost": the bytes are no header. After a
\* wrong mask bit Recv sends a ping and takes the next two bytes for a header,
\* Close gives up.
RecvHeader(back) ==
    /\ win # <<>>
    /\ LET f == Head(win)[1]
           whole == Got(2) = <<<<f, 0>>, <<f, 1>>>>
       IN \/ /\ whole /\ wpeer[f].right
             /\ wrx' = [f |-> f, size |-> wpeer[f].n, offs |-> 0, op |-> wpeer[f].op]
             /\ wpc' = back /\ win' = Rest(2)
             /\ UNCHANGED <<wstate, wpings, wodd>>
          \/ /\ whole /\ ~wpeer[f].right
             /\ win' = Rest(2) /\ wodd' = TRUE /\ UNCHANGED wrx
             /\ \/ back = "more" /\ wpings < PingCap /\ wpings' = wpings + 1 /\ UNCHANGED <<wpc, wstate>>
                \/ WsEnd /\ UNCHANGED wpings
          \/ /\ ~whole
             /\ wpc' = "lost" /\ wodd' = (wodd \/ Len(Got(2)) < 2)
             /\ UNCHANGED <<wrx, win, wstate, wpings>>
    /\ UNCHANGED <<wlib, wrole, wpeer, wsent, wneed, wbuf, wout, wtorn, wgarbled>>

RecvHdr == wpc = "hdr" /\ RecvHeader("more")

\* Pings and close frames are read into a buffer on the stack.
OddControl(f) == wpeer[f].op \in {"ping", "close"} /\ wpeer[f].n > CtlMax

\* The size and the key. A frame with an opcode that is not known ends it.
RecvMore ==
    /\ wpc = "more"
    /\ LET f == wrx.f
           n == More(f)
       IN /\ n > 0 => win # <<>>
          /\ IF Got(n) # HdrRest(f)
             THEN /\ wpc' = "lost" /\ wodd' = (wodd \/ OddRest(f, n))
                  /\ UNCHANGED <<win, wneed, wstate>>
             ELSE /\ win' = Rest(n) /\ wodd' = (wodd \/ OddControl(f))
                  /\ IF wrx.op = "cont" THEN WsEnd /\ UNCHANGED wneed
                     ELSE wpc' = "pay" /\ wneed' = Payload(f) /\ UNCHANGED wstate
    /\ UNCHANGED <<wlib, wrole, wpeer, wsent, wrx, wbuf, wout, wpings, wtorn, wgarbled>>

\* The header does not come within a second: a ping is sent and the wait
\* starts again. The code never counts the pings it sends.
SendPing ==
    /\ wpc = "hdr" /\ win = <<>> /\ wpings < PingCap
    /\ wpings' = wpings + 1
    /\ UNCHANGED <<wlib, wrole, wpeer, wsent, win, wstate, wpc, wrx, wneed, wbuf, wout, whist>>

\* The peer is gone and nothing of what it sent is left, or the ping cannot be
\* sent. A call for no bytes at all, as a client makes for a header without a
\* key, does not see what is left.
RecvFails ==
    /\ \/ wpc \in {"hdr", "more", "pay"} /\ win = <<>>
       \/ wpc = "more" /\ More(wrx.f) = 0
    /\ WsEnd
    /\ UNCHANGED <<wlib, wrole, wpeer, wsent, win, wrx, wneed, wbuf, wout, wpings, whist>>

\* The place of a byte in the payload of its frame
Place(x) == x[2] - HdrLen(x[1])

\* Mutant: the key starts with its second byte.
KeyByte_OffByOne(i) == i % MaskLen
\* The byte of the key that byte i of a piece meets: it starts again with
\* every piece that is read.
KeyByte(i) == (i - 1) % MaskLen

\* RecvPayload of ws.c: every byte of a piece is unmasked
Unmask(b) == \A i \in 1 .. Len(b) : Place(b[i]) % MaskLen = KeyByte(i)
\* RecvPayload of websocket.c: a client gets its bytes as they are
UnmaskRole(b) == Masked => Unmask(b)

\* One socket call of RecvPayload.
RecvPayload ==
    /\ wpc = "pay" /\ wneed > 0 /\ win # <<>>
    /\ LET n == Lesser(RcvBuf, wneed)
           b == Got(n)
           to == wrx.offs + Len(wbuf) + Len(b)
       IN /\ wbuf' = wbuf \o [i \in 1 .. Len(b) |-> <<b[i][1], Place(b[i])>>]
          /\ wneed' = wneed - Len(b) /\ win' = Rest(n)
          /\ wgarbled' = (wgarbled \/ ~(IF wlib = "uhttpsrv" THEN Unmask(b) ELSE UnmaskRole(b)))
          /\ wtorn' = (wtorn \/ (Masked /\ to < wrx.size /\ to % MaskLen # 0))
    /\ UNCHANGED <<wlib, wrole, wpeer, wsent, wstate, wpc, wrx, wout, wpings, wodd>>

\* SendHeader and SendPayload of an answer, under tx_sem
Reply(op, b) == wout' = Append(wout, [op |-> op, pld |-> b])

\* Mutant: every frame is taken for data.
RecvDone_NoOpcode ==
    /\ wpc = "pay" /\ wneed = 0
    /\ wrx' = NoFrame /\ wpc' = "send"
    /\ UNCHANGED <<wlib, wrole, wpeer, wsent, win, wneed, wbuf, wout, wstate, wpings, whist>>

\* The payload is complete: data goes to the caller, the engine itself
\* answers pings and close frames and goes on or gives up.
RecvDone ==
    /\ wpc = "pay" /\ wneed = 0
    /\ \/ /\ wrx.op \in {"text", "bin"}
          /\ wrx' = [wrx EXCEPT !.offs = @ + Len(wbuf)]
          /\ wpc' = "send" /\ UNCHANGED <<wbuf, wout, wstate, wpings>>
       \/ /\ wrx.op = "pong"
          /\ wrx' = NoFrame /\ wpc' = "recv" /\ wbuf' = <<>> /\ wpings' = 0
          /\ UNCHANGED <<wout, wstate>>
       \/ /\ wrx.op = "ping"
          /\ wrx' = NoFrame /\ wbuf' = <<>> /\ UNCHANGED wpings
          /\ \/ Reply("pong", wbuf) /\ wpc' = "recv" /\ UNCHANGED wstate
             \/ WsEnd /\ UNCHANGED wout
       \/ /\ wrx.op = "close"
          /\ wrx' = NoFrame /\ wbuf' = <<>> /\ UNCHANGED wpings
          /\ WsEnd /\ (Reply("close", wbuf) \/ UNCHANGED wout)
    /\ UNCHANGED <<wlib, wrole, wpeer, wsent, win, wneed, whist>>

-----------------------------------------------------------------------------
(* The application, sending and closing.                                    *)

\* The echo loop: UHTTPSrvWS_Send, WebSocket_Send of what was received.
AppSend ==
    /\ wpc = "send"
    /\ IF wstate # "open" THEN wpc' = "end" /\ UNCHANGED <<wout, wstate>>
       ELSE \/ Reply(wrx.op, wbuf) /\ wpc' = "recv" /\ UNCHANGED wstate
            \/ WsEnd /\ UNCHANGED wout
    /\ wbuf' = <<>>
    /\ UNCHANGED <<wlib, wrole, wpeer, wsent, win, wrx, wneed, wpings, whist>>

\* UHTTPSrvWS_Close, WebSocket_Close, called between two frames: our close
\* frame goes out, then frames are dropped until the peer's close frame.
AppClose ==
    /\ wpc = "recv" /\ wrx.size = wrx.offs
    /\ \/ Reply("close", <<>>) /\ wpc' = "chdr" /\ UNCHANGED wstate
       \/ WsEnd /\ UNCHANGED wout
    /\ UNCHANGED <<wlib, wrole, wpeer, wsent, win, wrx, wneed, wbuf, wpings, whist>>

CloseHdr == wpc = "chdr" /\ RecvHeader("cmore")

\* The rest of the header and RecvPayload(0, size): everything of the frame is
\* dropped.
CloseDrop ==
    /\ wpc = "cmore"
    /\ LET f == wrx.f
           n == More(f)
       IN /\ n > 0 => win # <<>>
          /\ \/ /\ Got(n) # HdrRest(f)
                /\ wpc' = "lost" /\ wodd' = (wodd \/ OddRest(f, n))
                /\ UNCHANGED <<win, wstate>>
             \/ /\ Got(n) = HdrRest(f) /\ Len(win) >= n + wrx.size
                /\ win' = Rest(n + wrx.size) /\ UNCHANGED wodd
                /\ IF wrx.op = "close" THEN WsEnd ELSE wpc' = "chdr" /\ UNCHANGED wstate
    /\ UNCHANGED <<wlib, wrole, wpeer, wsent, wrx, wneed, wbuf, wout, wpings, wtorn, wgarbled>>

\* The peer is gone while we wait for its close frame.
CloseFails ==
    /\ wpc \in {"chdr", "cmore"} /\ WsEnd
    /\ UNCHANGED <<wlib, wrole, wpeer, wsent, win, wrx, wneed, wbuf, wout, wpings, whist>>

WsNext ==
    \/ Deliver \/ Accept \/ WsListen \/ WsConnect
    \/ RecvStart \/ RecvHdr \/ RecvMore \/ SendPing \/ RecvFails
    \/ RecvPayload \/ RecvDone \/ AppSend
    \/ AppClose \/ CloseHdr \/ CloseDrop \/ CloseFails
WsSpec == WsInit /\ [][WsNext]_wvars

-----------------------------------------------------------------------------
\* Part of the type invariant.
WsTypeOK ==
    /\ wpc \in {"open", "recv", "hdr", "more", "pay", "send", "chdr", "cmore", "end", "lost"}
    /\ wstate \in {"open", "closed"} /\ (wpc \in {"recv", "hdr", "pay"} => wstate = "open")
    /\ wrx.offs <= wrx.size /\ wneed <= wrx.size

DataOf(fr, kinds) == FlattenSeq([f \in 1 .. Len(fr) |->
    IF fr[f].op \in kinds THEN [i \in 1 .. fr[f].n |-> <<f, i - 1>>] ELSE <<>>])
SentOf(kinds) == FlattenSeq([i \in 1 .. Len(wout) |->
    IF wout[i].op \in kinds THEN wout[i].pld ELSE <<>>])

\* The engine never loses the frame boundary: what it reads as a header is
\* one, and what it reads as payload belongs to that frame, over any sequence
\* of data and control frames with 7- and 16-bit sizes, read in parts, and while
\* the connection is being closed. It does so only once something has come
\* that the code does not handle (wodd).
Framed == ~wodd => /\ WsTypeOK /\ wpc # "lost"
                   /\ \A i \in 1 .. Len(wbuf) : wbuf[i][1] = wrx.f \/ wrx.f = 0

\* Everything sent back is what the peer sent, complete and in order: the
\* echoed data as much as the payload of the pongs. It is also unmasked with
\* the right bytes of the key, unless a piece of payload ended inside the key
\* while its frame went on: the key then starts again in the middle.
EchoRight == ~wodd => /\ IsPrefix(SentOf({"text", "bin"}), DataOf(wpeer, {"text", "bin"}))
                      /\ IsPrefix(SentOf({"pong"}), DataOf(wpeer, {"ping"}))
                      /\ wgarbled => wtorn
=============================================================================

----------------------------- MODULE HttpProofs -----------------------------
(***************************************************************************)
(* Proofs about module Http: the serving tasks never share an open file or *)
(* the file buffer, a connection that lives on has got a whole answer, and *)
(* nothing of a request is left in it.                                     *)
(*                                                                         *)
(* HttpIInv is about the files.  Buffer and Pool say who holds the buffer  *)
(* and the entries of the pool; Serving says, for each place where a       *)
(* callback may wait, how far the request, the file, the buffer and the    *)
(* answer have come together.  Only the task that is between with_sem and  *)
(* its end is told anything about the buffer, which is why the steps of    *)
(* the others keep Serving (lemma TaskStep); the proof of an action is     *)
(* then about one task.  Told and Consumed add to it what the answer and   *)
(* the unread part of the request are while a callback runs.               *)
(*                                                                         *)
(* The second half is about module Ws, which takes a connection over when  *)
(* the server has accepted it: WsIInv says that the bytes in the socket    *)
(* follow each other and where in a frame the next one is, WsEInv which    *)
(* part of the peer's payload has been sent back by then, and Keyed that   *)
(* every piece of payload starts with the key.  WsIInv and WsEInv hold as  *)
(* long as nothing came that the code does not handle (wodd), Keyed until  *)
(* a piece ended inside the key (wtorn).                                   *)
(***************************************************************************)
EXTENDS Http, Ws, Induction

\* The values of the state.
States == {"fields", "body", "status", "hdr", "data", "done", "error"}
Names == Urls \cup {None, "/", "/index.html"}
Data == Names \X Nat
RequestType == [state : States, method : Methods \cup {None}, url : Urls \cup {None},
                body : Nat, resp : Nat, ws : SUBSET WsFields, type : {"std", "ws"},
                fp : 0 .. PoolSize, left : Nat, read : BOOLEAN]
AnswerType == [code : Nat, len : Seq(Nat), hid : BOOLEAN, ended : BOOLEAN, body : Seq(Data)]
FileType == [used : BOOLEAN, url : Names, pos : Nat]
Places == {"listen", "line", "call", "lock", "head", "read", "send", "ws"}
\* Where a callback has its file, and where it has the buffer too.
Holding == {"lock", "head", "read", "send"}
Locking == {"head", "read", "send"}

HttpTypes ==
  /\ hcb \in [HttpTasks -> {"www", "api"}]
  /\ hpc \in [HttpTasks -> Places]
  /\ hin \in [HttpTasks -> Seq(Lines)]
  /\ hreq \in [HttpTasks -> RequestType]
  /\ hout \in [HttpTasks -> AnswerType]
  /\ fpool \in [1 .. PoolSize -> FileType]
  /\ fbuf \in Seq(Data)
  /\ fsem \in HttpTasks \cup {0}
  /\ hcut \in BOOLEAN

\* Task t has an open file.
Owner(t) == hpc[t] \in Holding /\ hreq[t].fp # 0

\* fbuf_sem is held between with_sem and the end of its scope, and no read is
\* larger than the buffer.
Buffer ==
  /\ \A t \in HttpTasks : hpc[t] \in Locking <=> fsem = t
  /\ Len(fbuf) <= (IF Chunk > Probe THEN Chunk ELSE Probe)

\* An open file has one owner; only a download that was cut leaves one behind.
Pool ==
  /\ \A t, u \in HttpTasks : Owner(t) /\ Owner(u) /\ t # u => hreq[t].fp # hreq[u].fp
  /\ ~hcut => \A i \in 1 .. PoolSize :
                 fpool[i].used => \E t \in HttpTasks : Owner(t) /\ hreq[t].fp = i

\* The size of the file a request is for.
Size(r) == Files[FName(r.url)]

\* A task at pc with the request r, the answer o so far, the open file f and the
\* buffer buf. Behind the header the answer is the file up to where r.left
\* bytes are missing; the file position is there, or, once the chunk is read,
\* behind the buffer. A file shorter than the probe is at its end instead.
Stage(pc, r, o, f, buf) ==
  /\ o.body = Bytes(FName(r.url), 0, Len(o.body))
  /\ pc = "call" => o = NoResp
  /\ pc \in Holding /\ r.fp # 0 => f.used /\ f.url = FName(r.url) /\ f.url \in DOMAIN Files
  /\ pc \in {"lock", "head"} =>
       /\ o.body = <<>> /\ r.state \in {"hdr", "error"}
       /\ r.left = (IF r.fp = 0 THEN 0 ELSE Size(r))
       /\ r.state = "hdr" => r.resp = r.left /\ (o.hid \/ o.len = <<r.left>>)
       /\ r.fp # 0 => f.pos = 0 \/ (pc = "head" /\ f.pos = r.left)
  /\ pc \in {"read", "send"} =>
       /\ r.fp # 0 /\ r.state = "data" /\ r.resp = r.left /\ r.left \in 1 .. Size(r)
       /\ o.ended /\ (o.hid \/ o.len = <<Size(r)>>) /\ Len(o.body) = Size(r) - r.left
  /\ pc = "read" => f.pos \in {Size(r) - r.left, Size(r)}
  /\ pc = "send" =>
       /\ Len(buf) <= r.left /\ f.pos = Size(r) - r.left + Len(buf)
       /\ buf = Bytes(FName(r.url), Size(r) - r.left, Size(r) - r.left + Len(buf))

Serving == \A t \in HttpTasks : Stage(hpc[t], hreq[t], hout[t], fpool[hreq[t].fp], fbuf)

HttpIInv == HttpTypes /\ Buffer /\ Pool /\ Serving

-----------------------------------------------------------------------------
\* What a line may be followed by.
LEMMA LineParts ==
  ASSUME NEW l \in Lines
  PROVE  /\ l[1] = "req" => l[2] \in Methods \cup {None} /\ l[3] \in Urls
         /\ l[1] = "len" => l[2] \in Nat
         /\ l[1] = "ws" => l[2] \in WsFields
BY DEF Lines

\* FFS_Read returns consecutive bytes.
LEMMA BytesType ==
  ASSUME NEW f \in Names, NEW a \in Nat, NEW b \in Nat, a <= b
  PROVE  Bytes(f, a, b) \in Seq(Data) /\ Len(Bytes(f, a, b)) = b - a
<1>1. b - a \in Nat
  OBVIOUS
<1>2. \A i \in 1 .. b - a : <<f, a + i>> \in Data
  BY DEF Data
<1>3. Bytes(f, a, b) \in [1 .. b - a -> Data]
  BY <1>2 DEF Bytes
<1> QED
  BY <1>1, <1>3, SeqDef, LenProperties

\* Consecutive reads join.
LEMMA BytesJoin ==
  ASSUME NEW f \in Names, NEW a \in Nat, NEW b \in Nat, a <= b
  PROVE  Bytes(f, 0, a) \o Bytes(f, a, b) = Bytes(f, 0, b)
<1>1. /\ Bytes(f, 0, a) \in Seq(Data) /\ Len(Bytes(f, 0, a)) = a
      /\ Bytes(f, a, b) \in Seq(Data) /\ Len(Bytes(f, a, b)) = b - a
      /\ Bytes(f, 0, b) \in Seq(Data) /\ Len(Bytes(f, 0, b)) = b
  <2>1. 0 \in Nat /\ 0 <= a /\ 0 <= b /\ a - 0 = a /\ b - 0 = b
    OBVIOUS
  <2>2. Bytes(f, 0, a) \in Seq(Data) /\ Len(Bytes(f, 0, a)) = a - 0
    BY <2>1, BytesType
  <2>3. Bytes(f, a, b) \in Seq(Data) /\ Len(Bytes(f, a, b)) = b - a
    BY BytesType
  <2>4. Bytes(f, 0, b) \in Seq(Data) /\ Len(Bytes(f, 0, b)) = b - 0
    BY <2>1, BytesType
  <2> QED
    BY <2>1, <2>2, <2>3, <2>4
<1> DEFINE c == Bytes(f, 0, a) \o Bytes(f, a, b)
<1>2. c \in Seq(Data) /\ Len(c) = b
  <2>1. c \in Seq(Data) /\ Len(c) = a + (b - a)
    BY <1>1, ConcatProperties
  <2> QED
    BY <2>1
<1> HIDE DEF c
<1>3. ASSUME NEW i \in 1 .. b PROVE c[i] = Bytes(f, 0, b)[i]
  <2>1. Bytes(f, 0, b)[i] = <<f, 0 + i>>
    BY DEF Bytes
  <2>2. CASE i <= a
    <3>1. c[i] = Bytes(f, 0, a)[i]
      BY <1>1, <2>2, ConcatProperties DEF c
    <3> QED
      BY <2>1, <2>2, <3>1 DEF Bytes
  <2>3. CASE ~(i <= a)
    <3>0. i \in a + 1 .. a + (b - a) /\ i - a \in 1 .. b - a
      BY <2>3
    <3>1. c[i] = Bytes(f, a, b)[i - a]
      BY <1>1, <3>0, ConcatProperties DEF c
    <3>2. \A j \in 1 .. b - a : Bytes(f, a, b)[j] = <<f, a + j>>
      BY DEF Bytes
    <3>3. a + (i - a) = 0 + i
      OBVIOUS
    <3>4. c[i] = <<f, a + (i - a)>>
      BY <3>0, <3>1, <3>2, Zenon
    <3> QED
      BY <2>1, <3>3, <3>4
  <2> QED
    BY <2>2, <2>3
<1>4. c = Bytes(f, 0, b)
  BY <1>1, <1>2, <1>3, SeqEqual
<1> QED
  BY <1>4 DEF c

\* The first response and the first request are typed.
LEMMA Fresh ==
  /\ NoResp \in AnswerType /\ NoResp.body = <<>> /\ Len(NoResp.body) = 0
  /\ \A u \in Urls \cup {None} : FName(u) \in Names
  /\ \A f : Bytes(f, 0, 0) = <<>>
<1>1. NoResp \in AnswerType
  BY DEF NoResp, AnswerType
<1>3. \A f : Bytes(f, 0, 0) = <<>>
  BY DEF Bytes
<1>4. NoResp.body = <<>> /\ Len(NoResp.body) = 0
  BY DEF NoResp
<1>5. \A u \in Urls \cup {None} : FName(u) \in Names
  BY DEF FName, Names
<1> QED
  BY <1>1, <1>3, <1>4, <1>5

\* A request that has not been read yet.
LEMMA FreshRequest ==
  ASSUME NEW m \in Methods \cup {None}, NEW u \in Urls \cup {None}
  PROVE  Request(m, u) \in RequestType /\ Request(m, u).url = u
<1>1. 0 \in 0 .. PoolSize
  BY HttpAssumption
<1> QED
  BY <1>1 DEF Request, RequestType, States

\* What a step of one task keeps of the invariant, whatever its code does:
\* the files of the other tasks, the buffer while another task holds it, and
\* the entries of the pool that are nobody's.
LEMMA TaskStep ==
  ASSUME HttpIInv, NEW t \in HttpTasks, NEW pc \in Places, NEW in \in Seq(Lines),
         NEW r \in RequestType, NEW o \in AnswerType,
         hcb' = hcb, Goto(t, pc, in, r, o),
         fpool' \in [1 .. PoolSize -> FileType], fbuf' \in Seq(Data), hcut' \in BOOLEAN,
         Len(fbuf') <= (IF Chunk > Probe THEN Chunk ELSE Probe),
         fsem' = (IF pc \in Locking THEN t ELSE IF hpc[t] \in Locking THEN 0 ELSE fsem),
         pc \in Locking => fsem \in {0, t},
         fbuf' = fbuf \/ fsem \in {0, t},
         \A u \in HttpTasks \ {t} : Owner(u) => fpool'[hreq[u].fp] = fpool[hreq[u].fp],
         pc \in Holding /\ r.fp # 0 =>
           (Owner(t) /\ r.fp = hreq[t].fp) \/ ~fpool[r.fp].used,
         ~hcut' => ~hcut /\ \A i \in 1 .. PoolSize : fpool'[i].used =>
                      \/ pc \in Holding /\ r.fp = i
                      \/ fpool[i].used /\ ~(Owner(t) /\ hreq[t].fp = i),
         Stage(pc, r, o, fpool'[r.fp], fbuf')
  PROVE  HttpIInv'
<1>0. 0 \notin HttpTasks /\ PoolSize \in Nat
  BY HttpAssumption
<1>1. /\ hpc' = [hpc EXCEPT ![t] = pc] /\ hin' = [hin EXCEPT ![t] = in]
      /\ hreq' = [hreq EXCEPT ![t] = r] /\ hout' = [hout EXCEPT ![t] = o]
  BY DEF Goto
<1>2. HttpTypes
  BY DEF HttpIInv
<1>3. /\ hpc'[t] = pc /\ hreq'[t] = r /\ hout'[t] = o
      /\ \A u \in HttpTasks \ {t} : hpc'[u] = hpc[u] /\ hreq'[u] = hreq[u] /\ hout'[u] = hout[u]
  BY <1>1, <1>2 DEF HttpTypes
<1>4. HttpTypes'
  <2>1. fsem' \in HttpTasks \cup {0}
    BY <1>2 DEF HttpTypes
  <2> QED
    BY <1>1, <1>2, <2>1 DEF HttpTypes
<1>5. Buffer'
  <2>1. ASSUME NEW u \in HttpTasks PROVE hpc'[u] \in Locking <=> fsem' = u
    <3>1. hpc[u] \in Locking <=> fsem = u
      BY DEF HttpIInv, Buffer
    <3>2. hpc[t] \in Locking <=> fsem = t
      BY DEF HttpIInv, Buffer
    <3>3. CASE u = t
      BY <1>0, <1>3, <3>1, <3>3
    <3>4. CASE u # t
      BY <1>0, <1>3, <3>1, <3>2, <3>4
    <3> QED
      BY <3>3, <3>4
  <2> QED
    BY <2>1 DEF Buffer
<1>6. \A u \in HttpTasks \ {t} : Owner(u)' <=> Owner(u)
  BY <1>3 DEF Owner
<1>7. Owner(t)' <=> pc \in Holding /\ r.fp # 0
  BY <1>3 DEF Owner
<1>8. \A u \in HttpTasks : Owner(u) => fpool[hreq[u].fp].used
  BY DEF HttpIInv, Serving, Stage, Owner
<1>9. Pool'
  <2>1. ASSUME NEW u \in HttpTasks, NEW v \in HttpTasks, Owner(u)', Owner(v)', u # v
        PROVE  hreq'[u].fp # hreq'[v].fp
    <3>1. ASSUME NEW w \in HttpTasks \ {t}, Owner(w), Owner(t)'
          PROVE  r.fp # hreq[w].fp
      <4>1. CASE Owner(t) /\ r.fp = hreq[t].fp
        BY <3>1, <4>1 DEF HttpIInv, Pool
      <4>2. CASE ~fpool[r.fp].used
        BY <1>8, <3>1, <4>2
      <4> QED
        BY <1>7, <3>1, <4>1, <4>2
    <3>2. CASE u = t
      BY <1>3, <1>6, <2>1, <3>1, <3>2
    <3>3. CASE v = t
      BY <1>3, <1>6, <2>1, <3>1, <3>3
    <3>4. CASE u # t /\ v # t
      BY <1>3, <1>6, <2>1, <3>4 DEF HttpIInv, Pool
    <3> QED
      BY <3>2, <3>3, <3>4
  <2>2. ASSUME ~hcut', NEW i \in 1 .. PoolSize, fpool'[i].used
        PROVE  \E u \in HttpTasks : Owner(u)' /\ hreq'[u].fp = i
    <3>1. CASE pc \in Holding /\ r.fp = i
      <4>1. r.fp # 0
        BY <3>1
      <4> QED
        BY <1>3, <1>7, <3>1, <4>1
    <3>2. CASE fpool[i].used /\ ~(Owner(t) /\ hreq[t].fp = i)
      <4>1. ~hcut
        BY <2>2
      <4>2. PICK u \in HttpTasks : Owner(u) /\ hreq[u].fp = i
        BY <3>2, <4>1 DEF HttpIInv, Pool
      <4>3. u # t
        BY <3>2, <4>2
      <4> QED
        BY <1>3, <1>6, <4>2, <4>3
    <3> QED
      BY <2>2, <3>1, <3>2
  <2> QED
    BY <2>1, <2>2 DEF Pool
<1>10. Serving'
  <2>1. ASSUME NEW u \in HttpTasks
        PROVE  Stage(hpc'[u], hreq'[u], hout'[u], fpool'[hreq'[u].fp], fbuf')
    <3>1. CASE u = t
      BY <1>3, <3>1
    <3>2. CASE u # t
      <4>1. Stage(hpc[u], hreq[u], hout[u], fpool[hreq[u].fp], fbuf)
        BY DEF HttpIInv, Serving
      <4>2. Stage(hpc[u], hreq[u], hout[u], fpool'[hreq[u].fp], fbuf')
        <5>1. CASE hpc[u] = "send"
          <6>1. fsem = u
            BY <5>1 DEF HttpIInv, Buffer, Locking
          <6>2. fbuf' = fbuf
            BY <1>0, <3>2, <6>1
          <6>3. Owner(u)
            BY <4>1, <5>1 DEF Stage, Owner, Holding
          <6>4. fpool'[hreq[u].fp] = fpool[hreq[u].fp]
            BY <3>2, <6>3
          <6> QED
            BY <4>1, <6>2, <6>4
        <5>2. CASE hpc[u] # "send" /\ Owner(u)
          <6>1. fpool'[hreq[u].fp] = fpool[hreq[u].fp]
            BY <3>2, <5>2
          <6>2. Stage(hpc[u], hreq[u], hout[u], fpool[hreq[u].fp], fbuf')
            BY <4>1, <5>2 DEF Stage
          <6> QED
            BY <6>1, <6>2
        <5>3. CASE hpc[u] # "send" /\ ~Owner(u)
          <6>1. hpc[u] \notin Holding \/ hreq[u].fp = 0
            BY <5>3 DEF Owner
          <6>2. hpc[u] # "read"
            BY <4>1, <6>1 DEF Stage, Holding
          <6> QED
            BY <4>1, <5>3, <6>1, <6>2 DEF Stage, Holding
        <5> QED
          BY <5>1, <5>2, <5>3
      <4> QED
        BY <1>3, <3>2, <4>2
    <3> QED
      BY <3>1, <3>2
  <2> QED
    BY <2>1 DEF Serving
<1> QED
  BY <1>4, <1>5, <1>9, <1>10 DEF HttpIInv

-----------------------------------------------------------------------------
(* The calls of the server.                                                *)

\* UHTTPSrv_SendStatus leaves the state at "hdr" only if the status line went
\* out; the length of the body is lost only together with other fields.
LEMMA StatusSent ==
  ASSUME NEW r \in RequestType, NEW o \in AnswerType, NEW code \in Nat, NEW size \in Nat,
         NEW x \in SendStatus(r, o, code, size)
  PROVE  /\ x[1] \in RequestType /\ x[2] \in AnswerType
         /\ x[1].state \in {"hdr", "error"} /\ x[2].body = o.body
         /\ x[1].url = r.url /\ x[1].fp = r.fp /\ x[1].left = r.left
         /\ x[1].method = r.method
         /\ x[1].state = "hdr" => /\ r.state # "error" /\ x[1].resp = size
                                  /\ StatusFits(code) => x[2].hid \/ x[2].len = <<size>>
<1>1. CASE r.state = "error"
  <2>1. x = <<r, o>>
    BY <1>1 DEF SendStatus
  <2> QED
    BY <1>1, <2>1
<1>2. CASE r.state # "error" /\ x = <<[r EXCEPT !.state = "error"], o>>
  <2>1. x[1] = [r EXCEPT !.state = "error"] /\ x[2] = o
    BY <1>2
  <2> QED
    BY <2>1 DEF RequestType, States
<1>3. ASSUME r.state # "error", NEW sent \in {0, 1, 4},
             x = <<[r EXCEPT !.state = "hdr", !.resp = size],
                   [o EXCEPT !.code = code, !.hid = sent < 4,
                      !.len = IF sent > 0 /\ StatusFits(code) THEN <<size>> ELSE <<>>]>>
      PROVE  /\ x[1] \in RequestType /\ x[2] \in AnswerType
             /\ x[1].state \in {"hdr", "error"} /\ x[2].body = o.body
             /\ x[1].url = r.url /\ x[1].fp = r.fp /\ x[1].left = r.left
             /\ x[1].method = r.method
             /\ x[1].state = "hdr" => /\ r.state # "error" /\ x[1].resp = size
                                      /\ StatusFits(code) => x[2].hid \/ x[2].len = <<size>>
  <2> DEFINE l == IF sent > 0 /\ StatusFits(code) THEN <<size>> ELSE <<>>
  <2> DEFINE few == sent < 4
  <2>1. l \in Seq(Nat) /\ few \in BOOLEAN
    OBVIOUS
  <2>2. StatusFits(code) => few \/ l = <<size>>
    OBVIOUS
  <2>3. x[1] = [r EXCEPT !.state = "hdr", !.resp = size]
        /\ x[2] = [o EXCEPT !.code = code, !.hid = few, !.len = l]
    BY <1>3
  <2> HIDE DEF l, few
  <2>4. x[1] \in RequestType /\ x[1].state = "hdr" /\ x[1].resp = size
        /\ x[1].url = r.url /\ x[1].fp = r.fp /\ x[1].left = r.left /\ x[1].method = r.method
    BY <2>3 DEF RequestType, States
  <2>5. x[2] \in AnswerType /\ x[2].body = o.body /\ x[2].len = l /\ x[2].hid = few
    BY <2>1, <2>3 DEF AnswerType
  <2> QED
    BY <1>3, <2>2, <2>4, <2>5
<1> QED
  BY <1>1, <1>2, <1>3 DEF SendStatus

\* UHTTPSrv_SendHeaderField: nothing but the state changes, and that to "error".
LEMMA FieldSent ==
  ASSUME NEW x, x[1] \in RequestType, x[2] \in AnswerType, NEW y \in SendHeaderField(x)
  PROVE  /\ y[1] \in RequestType /\ y[2] = x[2]
         /\ y[1].state \in {"hdr", "error"}
         /\ y[1].url = x[1].url /\ y[1].fp = x[1].fp /\ y[1].left = x[1].left
         /\ y[1].method = x[1].method
         /\ y[1].state = "hdr" => x[1].state = "hdr" /\ y[1].resp = x[1].resp
<1>1. CASE y = x /\ x[1].state = "hdr"
  BY <1>1
<1>2. CASE y = <<[x[1] EXCEPT !.state = "error"], x[2]>>
  <2>1. y[1] = [x[1] EXCEPT !.state = "error"] /\ y[2] = x[2]
    BY <1>2
  <2> QED
    BY <2>1 DEF RequestType, States
<1> QED
  BY <1>1, <1>2 DEF SendHeaderField

\* UHTTPSrv_EndHeader: the answer is done when there is no body to come.
LEMMA HeaderEnded ==
  ASSUME NEW x, x[1] \in RequestType, x[2] \in AnswerType, NEW y \in EndHeader(x)
  PROVE  /\ y[1] \in RequestType /\ y[2] \in AnswerType
         /\ y[1].state \in {"data", "done", "error"}
         /\ y[1].url = x[1].url /\ y[1].fp = x[1].fp /\ y[1].left = x[1].left
         /\ y[1].method = x[1].method
         /\ y[2].body = x[2].body /\ y[2].len = x[2].len /\ y[2].hid = x[2].hid
         /\ y[1].state # "error" => /\ x[1].state = "hdr" /\ y[1].resp = x[1].resp
                                    /\ y[2].ended
                                    /\ y[1].state = "done" <=> x[1].resp = 0
<1>1. CASE y = <<[x[1] EXCEPT !.state = "error"], x[2]>>
  <2>1. y[1] = [x[1] EXCEPT !.state = "error"] /\ y[2] = x[2]
    BY <1>1
  <2> QED
    BY <2>1 DEF RequestType, States
<1>2. CASE x[1].state = "hdr" /\
           y = <<[x[1] EXCEPT !.state = IF x[1].resp > 0 THEN "data" ELSE "done"],
                 [x[2] EXCEPT !.ended = TRUE]>>
  <2>1. y[1] = [x[1] EXCEPT !.state = IF x[1].resp > 0 THEN "data" ELSE "done"]
        /\ y[2] = [x[2] EXCEPT !.ended = TRUE]
    BY <1>2
  <2>2. x[1].resp \in Nat
    BY DEF RequestType
  <2>3. y[2] \in AnswerType /\ y[2].body = x[2].body /\ y[2].len = x[2].len
        /\ y[2].hid = x[2].hid /\ y[2].ended
    BY <2>1 DEF AnswerType
  <2>4. CASE x[1].resp > 0
    <3>1. y[1] = [x[1] EXCEPT !.state = "data"] /\ x[1].resp # 0
      BY <2>1, <2>2, <2>4
    <3> QED
      BY <1>2, <2>3, <3>1 DEF RequestType, States
  <2>5. CASE ~(x[1].resp > 0)
    <3>1. y[1] = [x[1] EXCEPT !.state = "done"] /\ x[1].resp = 0
      BY <2>1, <2>2, <2>5
    <3> QED
      BY <1>2, <2>3, <3>1 DEF RequestType, States
  <2> QED
    BY <2>4, <2>5
<1> QED
  BY <1>1, <1>2 DEF EndHeader

\* The status lines of the site and of most answers of the API fit.
LEMMA Fitting == StatusFits(200) /\ StatusFits(404) /\ StatusFits(400)
BY DEF StatusFits, StatusText

-----------------------------------------------------------------------------
(* Steps that do not touch the files.                                      *)

\* A task without a file goes on where it has none.
LEMMA LocalStep ==
  ASSUME HttpIInv, NEW t \in HttpTasks, NEW pc \in Places \ Holding, hpc[t] \notin Holding,
         NEW in \in Seq(Lines), NEW r \in RequestType, NEW o \in AnswerType,
         Goto(t, pc, in, r, o), UNCHANGED <<hcb, fpool, fbuf, fsem, hcut>>,
         o.body = Bytes(FName(r.url), 0, Len(o.body)), pc = "call" => o = NoResp
  PROVE  HttpIInv'
<1>1. pc \notin Locking /\ hpc[t] \notin Locking /\ pc \notin {"lock", "head", "read", "send"}
  BY DEF Holding, Locking
<1>2. HttpTypes /\ Buffer
  BY DEF HttpIInv
<1>3. ~Owner(t)
  BY DEF Owner
<1>4. Stage(pc, r, o, fpool'[r.fp], fbuf')
  BY <1>1 DEF Stage
<1> QED
  BY <1>1, <1>2, <1>3, <1>4, TaskStep DEF HttpTypes, Buffer

\* The connection of a task without a file is closed.
LEMMA CloseStep ==
  ASSUME HttpIInv, NEW t \in HttpTasks, hpc[t] \notin Holding, Close(t),
         UNCHANGED <<hcb, fpool, fbuf, fsem, hcut>>
  PROVE  HttpIInv'
<1> DEFINE r == Request(None, None)
<1>1. r \in RequestType
  BY FreshRequest
<1>2. "listen" \in Places \ Holding /\ <<>> \in Seq(Lines)
  BY DEF Places, Holding
<1>3. NoResp.body = Bytes(FName(r.url), 0, Len(NoResp.body)) /\ NoResp \in AnswerType
  BY Fresh
<1>4. Goto(t, "listen", <<>>, r, NoResp)
  BY DEF Close
<1> HIDE DEF r
<1> QED
  BY <1>1, <1>2, <1>3, <1>4, LocalStep

\* A callback that holds no file returns.
LEMMA ReturnStep ==
  ASSUME HttpIInv, NEW t \in HttpTasks, hpc[t] \notin Holding,
         NEW x, x[1] \in RequestType, x[2] \in AnswerType, Return(t, x),
         x[2].body = Bytes(FName(x[1].url), 0, Len(x[2].body)),
         UNCHANGED <<hcb, fpool, fbuf, fsem, hcut>>
  PROVE  HttpIInv'
<1>1. CASE x[1].state = "done"
  <2> DEFINE r == Request(x[1].method, x[1].url)
  <2>1. r \in RequestType /\ r.url = x[1].url
    <3>1. x[1].method \in Methods \cup {None} /\ x[1].url \in Urls \cup {None}
      BY DEF RequestType
    <3> QED
      BY <3>1, FreshRequest
  <2>2. "line" \in Places \ Holding /\ hin[t] \in Seq(Lines)
    BY DEF Places, Holding, HttpIInv, HttpTypes
  <2>3. Goto(t, "line", hin[t], r, x[2])
    BY <1>1 DEF Return
  <2> HIDE DEF r
  <2> QED
    BY <2>1, <2>2, <2>3, LocalStep
<1>2. CASE x[1].state # "done"
  BY <1>2, CloseStep DEF Return
<1> QED
  BY <1>1, <1>2

-----------------------------------------------------------------------------
(* The files.                                                              *)

\* FFS_Open takes an entry that is not in use, for a file that exists.
LEMMA OpenFree ==
  ASSUME NEW u
  PROVE  /\ FFS_Open(u) \in 0 .. PoolSize
         /\ FFS_Open(u) # 0 => ~fpool[FFS_Open(u)].used /\ u \in DOMAIN Files
<1> DEFINE free == {i \in 1 .. PoolSize : ~fpool[i].used}
<1>1. PoolSize \in Nat /\ free \subseteq Nat
  BY HttpAssumption
<1>2. CASE u \in DOMAIN Files /\ free # {}
  <2>1. \E i \in free : \A j \in free : i <= j
    BY <1>1, <1>2, Least
  <2>2. FFS_Open(u) \in free
    BY <1>2, <2>1 DEF FFS_Open
  <2> QED
    BY <1>2, <2>2
<1>3. CASE ~(u \in DOMAIN Files /\ free # {})
  <2>1. FFS_Open(u) = 0
    BY <1>3 DEF FFS_Open
  <2> QED
    BY <1>1, <2>1
<1> QED
  BY <1>2, <1>3

\* FFS_Read returns at most n bytes, from the position on, and no more than
\* the file has.
LEMMA ReadPart ==
  ASSUME NEW fp, NEW n \in Nat, fpool[fp].url \in Names, fpool[fp].url \in DOMAIN Files,
         fpool[fp].pos \in Nat, fpool[fp].pos <= Files[fpool[fp].url]
  PROVE  LET got == FFS_Read(fp, n) pos == fpool[fp].pos size == Files[fpool[fp].url]
         IN  /\ got \in Seq(Data) /\ Len(got) <= n /\ pos + Len(got) <= size
             /\ got = Bytes(fpool[fp].url, pos, pos + Len(got))
             /\ Len(got) < n => pos + Len(got) = size
<1> DEFINE pos == fpool[fp].pos
           size == Files[fpool[fp].url]
           to == IF pos + n < size THEN pos + n ELSE size
<1>1. size \in Nat
  BY HttpAssumption
<1>2. to \in Nat /\ pos <= to /\ to <= size /\ to - pos <= n /\ pos + (to - pos) = to
      /\ (to - pos < n => to = size)
  BY <1>1
<1>3. FFS_Read(fp, n) = Bytes(fpool[fp].url, pos, to)
  BY DEF FFS_Read
<1> HIDE DEF to
<1>4. FFS_Read(fp, n) \in Seq(Data) /\ Len(FFS_Read(fp, n)) = to - pos
  BY <1>2, <1>3, BytesType
<1> QED
  BY <1>2, <1>3, <1>4

\* The state of an unused entry.
LEMMA Unused == NoFile \in FileType /\ ~NoFile.used
BY DEF NoFile, FileType, Names

\* A callback that holds fbuf ends: the file is closed, the buffer unlocked.
LEMMA LeaveStep ==
  ASSUME HttpIInv, NEW t \in HttpTasks, hpc[t] \in Locking,
         NEW x, x[1] \in RequestType, x[2] \in AnswerType,
         x[2].body = Bytes(FName(x[1].url), 0, Len(x[2].body)),
         Unlock, FFS_Close(hreq[t].fp), Return(t, x), UNCHANGED <<hcb, hcut>>
  PROVE  HttpIInv'
<1>1. HttpTypes /\ Buffer /\ hreq[t] \in RequestType /\ hreq[t].fp \in 0 .. PoolSize
  BY DEF HttpIInv, HttpTypes, RequestType
<1>2. hpc[t] \in Holding /\ fsem = t
  BY <1>1 DEF Holding, Locking, Buffer
<1>3. fsem' = 0 /\ fbuf' = <<>>
  BY DEF Unlock
<1>4. fpool' = IF hreq[t].fp = 0 THEN fpool ELSE [fpool EXCEPT ![hreq[t].fp] = NoFile]
  BY DEF FFS_Close
<1>5. fpool' \in [1 .. PoolSize -> FileType]
  <2>1. CASE hreq[t].fp = 0
    BY <1>1, <1>4, <2>1 DEF HttpTypes
  <2>2. CASE hreq[t].fp # 0
    <3>1. fpool' = [fpool EXCEPT ![hreq[t].fp] = NoFile]
      BY <1>4, <2>2
    <3> QED
      BY <1>1, <3>1, Unused DEF HttpTypes
  <2> QED
    BY <2>1, <2>2
<1>6. \A i \in 1 .. PoolSize :
         /\ i # hreq[t].fp => fpool'[i] = fpool[i]
         /\ i = hreq[t].fp => ~fpool'[i].used
  <2>1. CASE hreq[t].fp = 0
    BY <1>4, <2>1
  <2>2. CASE hreq[t].fp # 0
    <3>1. fpool' = [fpool EXCEPT ![hreq[t].fp] = NoFile]
      BY <1>4, <2>2
    <3> QED
      BY <1>1, <3>1, Unused DEF HttpTypes
  <2> QED
    BY <2>1, <2>2
<1>7. \A u \in HttpTasks \ {t} : Owner(u) => fpool'[hreq[u].fp] = fpool[hreq[u].fp]
  <2> SUFFICES ASSUME NEW u \in HttpTasks \ {t}, Owner(u)
               PROVE  fpool'[hreq[u].fp] = fpool[hreq[u].fp]
    OBVIOUS
  <2>1. hreq[u].fp \in 1 .. PoolSize
    BY <1>1 DEF HttpTypes, RequestType, Owner
  <2>2. hreq[u].fp # hreq[t].fp
    BY <1>2, <2>1 DEF HttpIInv, Pool, Owner
  <2> QED
    BY <1>6, <2>1, <2>2
<1>8. \A i \in 1 .. PoolSize : fpool'[i].used => fpool[i].used /\ ~(Owner(t) /\ hreq[t].fp = i)
  BY <1>6
<1>9. ASSUME NEW pc \in {"listen", "line"}, NEW in \in Seq(Lines), NEW r \in RequestType,
             NEW o \in AnswerType, o.body = Bytes(FName(r.url), 0, Len(o.body)),
             Goto(t, pc, in, r, o)
      PROVE  HttpIInv'
  <2>1. pc \in Places /\ pc \notin Holding /\ pc \notin Locking
    BY DEF Places, Holding, Locking
  <2>2. Stage(pc, r, o, fpool'[r.fp], fbuf')
    BY <1>9 DEF Stage, Holding
  <2>3. fbuf' \in Seq(Data) /\ Len(fbuf') <= (IF Chunk > Probe THEN Chunk ELSE Probe)
    BY <1>3, HttpAssumption DEF Probe
  <2>4. hcut' \in BOOLEAN /\ hcut' = hcut
    BY <1>1 DEF HttpTypes
  <2> QED
    BY <1>2, <1>3, <1>5, <1>7, <1>8, <1>9, <2>1, <2>2, <2>3, <2>4, TaskStep
<1>10. CASE x[1].state = "done"
  <2> DEFINE r == Request(x[1].method, x[1].url)
  <2>1. r \in RequestType /\ r.url = x[1].url
    BY FreshRequest DEF RequestType
  <2>2. hin[t] \in Seq(Lines)
    BY <1>1 DEF HttpTypes
  <2>3. Goto(t, "line", hin[t], r, x[2])
    BY <1>10 DEF Return
  <2> HIDE DEF r
  <2> QED
    BY <1>9, <2>1, <2>2, <2>3
<1>11. CASE x[1].state # "done"
  <2> DEFINE r == Request(None, None)
  <2>1. r \in RequestType
    BY FreshRequest
  <2>2. NoResp.body = Bytes(FName(r.url), 0, Len(NoResp.body)) /\ NoResp \in AnswerType
    BY Fresh
  <2>3. Goto(t, "listen", <<>>, r, NoResp) /\ <<>> \in Seq(Lines)
    BY <1>11 DEF Return, Close
  <2> HIDE DEF r
  <2> QED
    BY <1>9, <2>1, <2>2, <2>3
<1> QED
  BY <1>10, <1>11

-----------------------------------------------------------------------------
(* One lemma per group of actions.                                         *)

\* All the tasks listen and no file is open.
LEMMA HttpInitOK == HttpInit => HttpIInv
<1> SUFFICES ASSUME HttpInit PROVE HttpIInv
  OBVIOUS
<1>0. 0 \notin HttpTasks /\ PoolSize \in Nat /\ Chunk \in Nat /\ Callbacks \subseteq [HttpTasks -> {"www", "api"}]
  BY HttpAssumption
<1>1. Request(None, None) \in RequestType
  BY FreshRequest
<1>2. HttpTypes
  <2>1. hcb \in [HttpTasks -> {"www", "api"}]
    BY <1>0 DEF HttpInit
  <2>2. hpc \in [HttpTasks -> Places]
    BY DEF HttpInit, HttpStart, Places
  <2>7. fsem \in HttpTasks \cup {0} /\ fbuf \in Seq(Data)
    BY DEF HttpInit, HttpStart
  <2>8. hcut \in BOOLEAN
    BY DEF HttpInit, HttpStart
  <2>3. hin \in [HttpTasks -> Seq(Lines)]
    BY DEF HttpInit, HttpStart
  <2>4. hreq \in [HttpTasks -> RequestType]
    BY <1>1 DEF HttpInit, HttpStart
  <2>5. hout \in [HttpTasks -> AnswerType]
    BY Fresh DEF HttpInit, HttpStart
  <2>6. fpool \in [1 .. PoolSize -> FileType]
    BY Unused DEF HttpInit, HttpStart
  <2> QED
    BY <2>1, <2>2, <2>3, <2>4, <2>5, <2>6, <2>7, <2>8 DEF HttpTypes
<1>3. \A t \in HttpTasks : hpc[t] = "listen" /\ hout[t] = NoResp
  BY DEF HttpInit, HttpStart
<1>4. Buffer
  BY <1>0, <1>3 DEF HttpInit, HttpStart, Buffer, Locking, Probe
<1>5. Pool
  <2>1. \A i \in 1 .. PoolSize : ~fpool[i].used
    BY Unused DEF HttpInit, HttpStart
  <2>2. \A t \in HttpTasks : ~Owner(t)
    BY <1>3 DEF Owner, Holding
  <2> QED
    BY <2>1, <2>2 DEF Pool
<1>6. Serving
  BY <1>3, Fresh DEF Serving, Stage, Holding
<1> QED
  BY <1>2, <1>4, <1>5, <1>6 DEF HttpIInv

\* UHTTPSrv_ServeTask
LEMMA ServeStep ==
  ASSUME HttpIInv, NEW t \in HttpTasks,
         Listen(t) \/ Ask(t) \/ ServeRequest(t) \/ ServeDrop(t)
  PROVE  HttpIInv'
<1>1. HttpTypes /\ hpc[t] \in Places /\ hin[t] \in Seq(Lines) /\ hreq[t] \in RequestType
      /\ hout[t] \in AnswerType /\ hcb[t] \in {"www", "api"}
  BY DEF HttpIInv, HttpTypes
<1>2. CASE Listen(t)
  <2>1. hpc[t] \notin Holding /\ "line" \in Places \ Holding
    BY <1>2 DEF Listen, Holding, Places
  <2>2. Goto(t, "line", <<>>, hreq[t], NoResp) /\ UNCHANGED <<hcb, fpool, fbuf, fsem, hcut>>
    BY <1>2 DEF Listen
  <2>3. NoResp.body = Bytes(FName(hreq[t].url), 0, Len(NoResp.body)) /\ NoResp \in AnswerType
    BY Fresh
  <2>4. <<>> \in Seq(Lines)
    OBVIOUS
  <2> QED
    BY <1>1, <2>1, <2>2, <2>3, <2>4, LocalStep
<1>3. CASE Ask(t)
  <2>1. PICK q \in Requests[hcb[t]] : hin' = [hin EXCEPT ![t] = q]
    BY <1>3 DEF Ask
  <2>2. q \in Seq(Lines)
    BY <1>1, HttpAssumption
  <2>3. hpc[t] \notin Holding /\ hpc[t] # "call"
    BY <1>3 DEF Ask, Holding
  <2>4. UNCHANGED <<hcb, hpc, hreq, hout, fpool, fbuf, fsem, hcut>>
    BY <1>3 DEF Ask
  <2>5. Goto(t, hpc[t], q, hreq[t], hout[t])
    <3>1. hpc = [hpc EXCEPT ![t] = hpc[t]] /\ hreq = [hreq EXCEPT ![t] = hreq[t]]
          /\ hout = [hout EXCEPT ![t] = hout[t]]
      BY <1>1 DEF HttpTypes
    <3> QED
      BY <2>1, <2>4, <3>1 DEF Goto
  <2>6. hout[t].body = Bytes(FName(hreq[t].url), 0, Len(hout[t].body))
    BY DEF HttpIInv, Serving, Stage
  <2> QED
    BY <1>1, <2>2, <2>3, <2>4, <2>5, <2>6, LocalStep
<1>4. CASE ServeRequest(t)
  <2> DEFINE l == Head(hin[t])
             r == Request(l[2], l[3])
  <2>1. l \in Lines /\ Tail(hin[t]) \in Seq(Lines) /\ l[1] = "req"
    BY <1>1, <1>4 DEF ServeRequest, ParseRequestLine
  <2>2. r \in RequestType
    BY <2>1, LineParts, FreshRequest
  <2>3. Goto(t, "call", Tail(hin[t]), r, NoResp) /\ UNCHANGED <<hcb, fpool, fbuf, fsem, hcut>>
    BY <1>4 DEF ServeRequest
  <2>4. hpc[t] \notin Holding /\ "call" \in Places \ Holding
    BY <1>4 DEF ServeRequest, Holding, Places
  <2>5. NoResp.body = Bytes(FName(r.url), 0, Len(NoResp.body)) /\ NoResp \in AnswerType
    BY Fresh
  <2> HIDE DEF l, r
  <2> QED
    BY <2>1, <2>2, <2>3, <2>4, <2>5, LocalStep
<1>5. CASE ServeDrop(t)
  <2>1. hpc[t] \notin Holding
    BY <1>5 DEF ServeDrop, Holding
  <2> QED
    BY <1>5, <2>1, CloseStep DEF ServeDrop
<1> QED
  BY <1>2, <1>3, <1>4, <1>5

\* UHTTPSrv_ReadHeaderField and UHTTPSrv_ReadBody keep the request typed, and
\* do not touch what it asked for.
LEMMA HeaderRead ==
  ASSUME NEW r \in RequestType, NEW l \in Lines
  PROVE  /\ ReadHeaderField(r, l) \in RequestType
         /\ ReadHeaderField(r, l).url = r.url /\ ReadHeaderField(r, l).method = r.method
         /\ l[1] = "end" =>
              /\ ReadHeaderField(r, l).body = r.body
              /\ ReadHeaderField(r, l).state = IF r.body > 0 THEN "body" ELSE "status"
         /\ l[1] # "end" =>
              \/ ReadHeaderField(r, l).state = "error"
              \/ /\ ReadHeaderField(r, l).state = r.state
                 /\ ReadHeaderField(r, l).body = IF l[1] = "len" THEN l[2] ELSE r.body
<1> DEFINE s == IF r.body > 0 THEN "body" ELSE "status"
           ty == IF r.method = "GET" /\ r.body = 0 /\ r.ws = WsFields THEN "ws" ELSE "std"
<1>1. s \in States /\ ty \in {"std", "ws"}
  BY DEF States
<1>2. CASE l[1] = "end"
  <2>1. ReadHeaderField(r, l) = [r EXCEPT !.state = s, !.type = ty]
    BY <1>2 DEF ReadHeaderField, ParseFieldLine, KnownFields
  <2> HIDE DEF s, ty
  <2>2. /\ ReadHeaderField(r, l) \in RequestType
        /\ ReadHeaderField(r, l).url = r.url /\ ReadHeaderField(r, l).method = r.method
        /\ ReadHeaderField(r, l).body = r.body /\ ReadHeaderField(r, l).state = s
    BY <1>1, <2>1 DEF RequestType
  <2> QED
    BY <1>2, <2>2 DEF s
<1>3. CASE ~ParseFieldLine(l) /\ l[1] # "end"
  <2>1. l[1] \notin {"len", "ws", "end"}
    BY <1>3 DEF ParseFieldLine, KnownFields
  <2>2. ReadHeaderField(r, l) = [r EXCEPT !.state = "error"]
    BY <1>3, <2>1 DEF ReadHeaderField
  <2> QED
    BY <1>3, <2>2 DEF RequestType, States
<1>4. CASE ParseFieldLine(l) /\ l[1] = "len"
  <2>1. ReadHeaderField(r, l) = [r EXCEPT !.body = l[2]]
    BY <1>4 DEF ReadHeaderField
  <2>2. l[2] \in Nat
    BY <1>4, LineParts
  <2> QED
    BY <1>4, <2>1, <2>2 DEF RequestType
<1>5. CASE ParseFieldLine(l) /\ l[1] = "ws"
  <2>1. ReadHeaderField(r, l) = [r EXCEPT !.ws = @ \cup {l[2]}]
    BY <1>5 DEF ReadHeaderField
  <2>2. l[2] \in WsFields
    BY <1>5, LineParts
  <2>3. r.ws \cup {l[2]} \in SUBSET WsFields
    BY <2>2 DEF RequestType
  <2> QED
    BY <1>5, <2>1, <2>3 DEF RequestType
<1>6. CASE ParseFieldLine(l) /\ l[1] \notin {"len", "ws", "end"}
  <2>1. ReadHeaderField(r, l) = r
    BY <1>6 DEF ReadHeaderField
  <2> QED
    BY <1>6, <2>1
<1>7. l[1] = "end" => ~ParseFieldLine(l)
  BY DEF ParseFieldLine, KnownFields
<1> QED
  BY <1>2, <1>3, <1>4, <1>5, <1>6, <1>7

\* Reading all of a body ends it; where there is none, ReadBody fails.
LEMMA BodyRead ==
  ASSUME NEW r \in RequestType, NEW n \in Nat
  PROVE  /\ ReadBody(r, n) \in RequestType
         /\ ReadBody(r, n).url = r.url /\ ReadBody(r, n).method = r.method
         /\ r.state = "body" /\ n = r.body => ReadBody(r, n).state = "status"
         /\ r.state # "body" => ReadBody(r, n).state = "error"
<1>1. CASE r.state # "body"
  <2>1. ReadBody(r, n) = [r EXCEPT !.state = "error"]
    BY <1>1 DEF ReadBody
  <2> QED
    BY <1>1, <2>1 DEF RequestType, States
<1>2. CASE r.state = "body"
  <2> DEFINE k == IF n < r.body THEN n ELSE r.body
             b == r.body - k
             s == IF k = r.body THEN "status" ELSE r.state
  <2>1. r.body \in Nat /\ k \in Nat /\ b \in Nat /\ s \in States /\ (n = r.body => s = "status")
    BY DEF RequestType, States
  <2>2. ReadBody(r, n) = [r EXCEPT !.body = b, !.state = s]
    BY <1>2 DEF ReadBody
  <2> HIDE DEF k, b, s
  <2> QED
    BY <1>2, <2>1, <2>2 DEF RequestType
<1> QED
  BY <1>1, <1>2

\* The callbacks read the request.
LEMMA ReadStep ==
  ASSUME HttpIInv, NEW t \in HttpTasks, ReadFields(t) \/ DropBody(t)
  PROVE  HttpIInv'
<1>1. hin[t] \in Seq(Lines) /\ hreq[t] \in RequestType
  BY DEF HttpIInv, HttpTypes
<1>2. hpc[t] \notin Holding /\ "call" \in Places \ Holding
      /\ UNCHANGED <<hcb, fpool, fbuf, fsem, hcut>>
  BY DEF ReadFields, DropBody, Holding, Places
<1>3. ASSUME NEW in \in Seq(Lines), NEW r \in RequestType, Goto(t, "call", in, r, NoResp)
      PROVE  HttpIInv'
  <2>1. NoResp.body = Bytes(FName(r.url), 0, Len(NoResp.body)) /\ NoResp \in AnswerType
    BY Fresh
  <2> QED
    BY <1>2, <1>3, <2>1, LocalStep
<1>4. [hreq[t] EXCEPT !.state = "error"] \in RequestType
  BY <1>1 DEF RequestType, States
<1>5. CASE ReadFields(t)
  <2>1. CASE Goto(t, "call", hin[t], [hreq[t] EXCEPT !.state = "error"], NoResp)
    BY <1>1, <1>3, <1>4, <2>1
  <2>2. CASE Close(t)
    BY <1>2, <2>2, CloseStep
  <2>3. CASE hin[t] # <<>> /\
             Goto(t, "call", Tail(hin[t]), ReadHeaderField(hreq[t], Head(hin[t])), NoResp)
    <3>1. Head(hin[t]) \in Lines /\ Tail(hin[t]) \in Seq(Lines)
      BY <1>1, <2>3
    <3> QED
      BY <1>1, <1>3, <2>3, <3>1, HeaderRead
  <2> QED
    BY <1>5, <2>1, <2>2, <2>3 DEF ReadFields
<1>6. CASE DropBody(t)
  <2> DEFINE n == IF hreq[t].state = "body" THEN hreq[t].body ELSE 0
             r == [ReadBody(hreq[t], n) EXCEPT !.read = TRUE]
             in == SubSeq(hin[t], n + 1, Len(hin[t]))
  <2>1. n \in Nat
    BY <1>1 DEF RequestType
  <2>2. CASE Goto(t, "call", hin[t], [hreq[t] EXCEPT !.state = "error"], NoResp)
    BY <1>1, <1>3, <1>4, <2>2
  <2>3. CASE Len(hin[t]) >= n /\ Goto(t, "call", in, r, NoResp)
    <3> HIDE DEF n
    <3>1. ReadBody(hreq[t], n) \in RequestType
      BY <1>1, <2>1, BodyRead
    <3>2. r \in RequestType
      BY <3>1 DEF RequestType
    <3>3. in \in Seq(Lines)
      <4>1. \A i \in n + 1 .. Len(hin[t]) : hin[t][i] \in Lines
        BY <1>1, <2>1
      <4> QED
        BY <1>1, <2>1, <4>1, SubSeqProperties
    <3> HIDE DEF r, in
    <3> QED
      BY <1>3, <2>3, <3>2, <3>3
  <2> QED
    BY <1>6, <2>2, <2>3 DEF DropBody
<1> QED
  BY <1>5, <1>6

\* UHTTPSrvWS_Accept, the end of the echo loop, and the API.
LEMMA OtherStep ==
  ASSUME HttpIInv, NEW t \in HttpTasks, WwwAccept(t) \/ WwwEchoEnds(t) \/ ApiAnswer(t)
  PROVE  HttpIInv'
<1>1. hin[t] \in Seq(Lines) /\ hreq[t] \in RequestType /\ hout[t] \in AnswerType
  BY DEF HttpIInv, HttpTypes
<1>2. hpc[t] \notin Holding /\ UNCHANGED <<hcb, fpool, fbuf, fsem, hcut>>
  BY DEF WwwAccept, WwwEchoEnds, ApiAnswer, Reads, Holding
<1>3. hout[t].body = Bytes(FName(hreq[t].url), 0, Len(hout[t].body))
  BY DEF HttpIInv, Serving, Stage
<1>4. CASE WwwAccept(t)
  <2>1. PICK x \in SendStatus(hreq[t], hout[t], 101, 0) : \E y \in SendHeaderField(x) :
         \E z \in EndHeader(y) :
            IF z[1].state = "error" THEN Close(t)
            ELSE Goto(t, "ws", hin[t], z[1], z[2])
    BY <1>4 DEF WwwAccept
  <2>2. PICK y \in SendHeaderField(x) : \E z \in EndHeader(y) :
            IF z[1].state = "error" THEN Close(t)
            ELSE Goto(t, "ws", hin[t], z[1], z[2])
    BY <2>1
  <2>3. PICK z \in EndHeader(y) : IF z[1].state = "error" THEN Close(t)
                                  ELSE Goto(t, "ws", hin[t], z[1], z[2])
    BY <2>2
  <2>4. x[1] \in RequestType /\ x[2] \in AnswerType /\ x[1].url = hreq[t].url
        /\ x[2].body = hout[t].body
    BY <1>1, StatusSent
  <2>5. y[1] \in RequestType /\ y[2] \in AnswerType /\ y[1].url = hreq[t].url
        /\ y[2].body = hout[t].body
    BY <2>4, FieldSent
  <2>6. z[1] \in RequestType /\ z[2] \in AnswerType /\ z[1].url = hreq[t].url
        /\ z[2].body = hout[t].body
    BY <2>5, HeaderEnded
  <2>7. CASE Close(t)
    BY <1>2, <2>7, CloseStep
  <2>8. CASE Goto(t, "ws", hin[t], z[1], z[2])
    <3>1. "ws" \in Places \ Holding /\ "ws" # "call"
      BY DEF Places, Holding
    <3>2. z[2].body = Bytes(FName(z[1].url), 0, Len(z[2].body))
      BY <1>3, <2>6
    <3> QED
      BY <1>1, <1>2, <2>6, <2>8, <3>1, <3>2, LocalStep
  <2> QED
    BY <2>3, <2>7, <2>8
<1>5. CASE WwwEchoEnds(t)
  BY <1>2, <1>5, CloseStep DEF WwwEchoEnds
<1>6. CASE ApiAnswer(t)
  <2> DEFINE code == ApiCode(hreq[t])
  <2>0. code \in Nat
    BY DEF ApiCode
  <2>1. PICK x \in SendStatus(hreq[t], hout[t], code, 0) :
          \E y \in IF code = 200 THEN SendHeaderField(x) ELSE {x} :
             \E z \in EndHeader(y) : Return(t, z)
    BY <1>6 DEF ApiAnswer
  <2>2. PICK y \in IF code = 200 THEN SendHeaderField(x) ELSE {x} :
             \E z \in EndHeader(y) : Return(t, z)
    BY <2>1
  <2>3. PICK z \in EndHeader(y) : Return(t, z)
    BY <2>2
  <2> HIDE DEF code
  <2>4. x[1] \in RequestType /\ x[2] \in AnswerType /\ x[1].url = hreq[t].url
        /\ x[2].body = hout[t].body
    BY <1>1, <2>0, StatusSent
  <2>5. y[1] \in RequestType /\ y[2] \in AnswerType /\ y[1].url = hreq[t].url
        /\ y[2].body = hout[t].body
    <3>1. CASE y = x
      BY <2>4, <3>1
    <3>2. CASE y \in SendHeaderField(x)
      BY <2>4, <3>2, FieldSent
    <3> QED
      BY <2>2, <3>1, <3>2
  <2>6. z[1] \in RequestType /\ z[2] \in AnswerType /\ z[1].url = hreq[t].url
        /\ z[2].body = hout[t].body
    BY <2>5, HeaderEnded
  <2>7. z[2].body = Bytes(FName(z[1].url), 0, Len(z[2].body))
    BY <1>3, <2>6
  <2> QED
    BY <1>2, <2>3, <2>6, <2>7, ReturnStep
<1> QED
  BY <1>4, <1>5, <1>6

\* The file is opened: an entry that was free becomes the task's.
LEMMA FilesStep ==
  ASSUME HttpIInv, NEW t \in HttpTasks, WwwFiles(t)
  PROVE  HttpIInv'
<1> DEFINE u == FName(hreq[t].url)
           fp == FFS_Open(u)
           size == IF fp = 0 THEN 0 ELSE Files[u]
           code == IF fp = 0 THEN 404 ELSE 200
           r == [hreq[t] EXCEPT !.fp = fp, !.left = size]
           file == [used |-> TRUE, url |-> u, pos |-> 0]
<1>1. HttpTypes /\ hin[t] \in Seq(Lines) /\ hreq[t] \in RequestType /\ hout[t] \in AnswerType
  BY DEF HttpIInv, HttpTypes
<1>2. hpc[t] = "call" /\ UNCHANGED <<hcb, fbuf, fsem, hcut>>
      /\ fpool' = (IF fp = 0 THEN fpool ELSE [fpool EXCEPT ![fp] = file])
  BY DEF WwwFiles, Reads
<1>3. PICK x \in SendStatus(r, hout[t], code, size) :
         \E y \in SendHeaderField(x) : Goto(t, "lock", hin[t], y[1], y[2])
  BY DEF WwwFiles
<1>4. PICK y \in SendHeaderField(x) : Goto(t, "lock", hin[t], y[1], y[2])
  BY <1>3
<1>5. fp \in 0 .. PoolSize /\ (fp # 0 => ~fpool[fp].used /\ u \in DOMAIN Files)
  BY OpenFree
<1>6. size \in Nat /\ code \in {200, 404}
  BY <1>5, HttpAssumption
<1>7. u \in Names /\ file \in FileType /\ file.used /\ file.url = u /\ file.pos = 0
  <2>1. u \in Names
    BY <1>1, Fresh DEF RequestType
  <2> QED
    BY <2>1 DEF FileType
<1>8. size = IF fp = 0 THEN 0 ELSE Files[u]
  OBVIOUS
<1> HIDE DEF fp, size, code, file
<1>9. r \in RequestType /\ r.url = hreq[t].url /\ r.fp = fp /\ r.left = size
  BY <1>1, <1>5, <1>6 DEF RequestType
<1> HIDE DEF r
<1>10. /\ x[1] \in RequestType /\ x[2] \in AnswerType /\ x[2].body = hout[t].body
       /\ x[1].url = hreq[t].url /\ x[1].fp = fp /\ x[1].left = size
       /\ x[1].state = "hdr" => x[1].resp = size /\ (x[2].hid \/ x[2].len = <<size>>)
  <2>1. code \in Nat /\ StatusFits(code)
    BY <1>6, Fitting
  <2> QED
    BY <1>1, <1>6, <1>9, <2>1, StatusSent
<1>11. /\ y[1] \in RequestType /\ y[2] \in AnswerType /\ y[2].body = hout[t].body
       /\ y[1].url = hreq[t].url /\ y[1].fp = fp /\ y[1].left = size
       /\ y[1].state \in {"hdr", "error"}
       /\ y[1].state = "hdr" => y[1].resp = size /\ (y[2].hid \/ y[2].len = <<size>>)
  BY <1>10, FieldSent
<1>12. /\ fpool' \in [1 .. PoolSize -> FileType]
       /\ \A i \in 1 .. PoolSize : i # fp => fpool'[i] = fpool[i]
       /\ fp # 0 => fpool'[fp] = file
  <2>1. CASE fp = 0
    BY <1>1, <1>2, <2>1 DEF HttpTypes
  <2>2. CASE fp # 0
    <3>1. fpool' = [fpool EXCEPT ![fp] = file] /\ fp \in 1 .. PoolSize
      BY <1>2, <1>5, <2>2
    <3> QED
      BY <1>1, <1>7, <3>1 DEF HttpTypes
  <2> QED
    BY <2>1, <2>2
<1>13. \A v \in HttpTasks \ {t} : Owner(v) => fpool'[hreq[v].fp] = fpool[hreq[v].fp]
  <2> SUFFICES ASSUME NEW v \in HttpTasks \ {t}, Owner(v)
               PROVE  fpool'[hreq[v].fp] = fpool[hreq[v].fp]
    OBVIOUS
  <2>1. hreq[v].fp \in 1 .. PoolSize
    BY <1>1 DEF HttpTypes, RequestType, Owner
  <2>2. fpool[hreq[v].fp].used
    BY DEF HttpIInv, Serving, Stage, Owner
  <2>3. hreq[v].fp # fp
    BY <1>5, <2>1, <2>2
  <2> QED
    BY <1>12, <2>1, <2>3
<1>14. ~Owner(t) /\ hpc[t] \notin Locking /\ "lock" \notin Locking /\ "lock" \in Holding
       /\ "lock" \in Places
  BY <1>2 DEF Owner, Holding, Locking, Places
<1>15. \A i \in 1 .. PoolSize : fpool'[i].used => y[1].fp = i \/ fpool[i].used
  BY <1>11, <1>12
<1>16. Stage("lock", y[1], y[2], fpool'[y[1].fp], fbuf')
  <2>1. hout[t].body = <<>> /\ Len(<<>>) = 0
    BY <1>2, Fresh DEF HttpIInv, Serving, Stage
  <2>2. y[2].body = Bytes(FName(y[1].url), 0, Len(y[2].body))
    BY <1>11, <2>1, Fresh
  <2>3. y[1].fp # 0 => fpool'[y[1].fp].used /\ fpool'[y[1].fp].url = FName(y[1].url)
                       /\ fpool'[y[1].fp].url \in DOMAIN Files /\ fpool'[y[1].fp].pos = 0
    BY <1>5, <1>7, <1>11, <1>12
  <2>4. y[1].left = (IF y[1].fp = 0 THEN 0 ELSE Size(y[1]))
    BY <1>8, <1>11 DEF Size
  <2> QED
    BY <1>11, <2>1, <2>2, <2>3, <2>4 DEF Stage, Holding
<1>17. fbuf' \in Seq(Data) /\ hcut' \in BOOLEAN /\ hcut' = hcut /\ fsem' = fsem
       /\ Len(fbuf') <= (IF Chunk > Probe THEN Chunk ELSE Probe) /\ fbuf' = fbuf
  BY <1>1, <1>2 DEF HttpTypes, HttpIInv, Buffer
<1>18. y[1].fp # 0 => ~fpool[y[1].fp].used
  BY <1>5, <1>11
<1> QED
  BY <1>1, <1>2, <1>4, <1>11, <1>12, <1>13, <1>14, <1>15, <1>16, <1>17, <1>18, TaskStep

\* A task that has the file and the buffer goes on.
LEMMA HoldStep ==
  ASSUME HttpIInv, NEW t \in HttpTasks, hpc[t] \in Holding, NEW pc \in Locking,
         NEW r \in RequestType, NEW o \in AnswerType, r.fp = hreq[t].fp,
         Goto(t, pc, hin[t], r, o), UNCHANGED <<hcb, hcut>>,
         fsem \in {0, t}, fsem' = t,
         fbuf' \in Seq(Data), Len(fbuf') <= (IF Chunk > Probe THEN Chunk ELSE Probe),
         fpool' \in [1 .. PoolSize -> FileType],
         \A i \in 1 .. PoolSize : i # hreq[t].fp => fpool'[i] = fpool[i],
         Stage(pc, r, o, fpool'[r.fp], fbuf')
  PROVE  HttpIInv'
<1>1. HttpTypes /\ hin[t] \in Seq(Lines) /\ hcut' \in BOOLEAN
  BY DEF HttpIInv, HttpTypes
<1>2. pc \in Places /\ pc \in Holding
  BY DEF Places, Holding, Locking
<1>3. \A u \in HttpTasks \ {t} : Owner(u) => fpool'[hreq[u].fp] = fpool[hreq[u].fp]
  <2> SUFFICES ASSUME NEW u \in HttpTasks \ {t}, Owner(u)
               PROVE  fpool'[hreq[u].fp] = fpool[hreq[u].fp]
    OBVIOUS
  <2>1. hreq[u].fp \in 1 .. PoolSize
    <3>1. hreq[u] \in RequestType /\ PoolSize \in Nat
      BY <1>1, HttpAssumption DEF HttpTypes
    <3>2. hreq[u].fp \in 0 .. PoolSize /\ hreq[u].fp # 0
      BY <3>1 DEF RequestType, Owner
    <3> QED
      BY <3>1, <3>2
  <2>2. hreq[u].fp # hreq[t].fp
    BY <2>1 DEF HttpIInv, Pool, Owner
  <2> QED
    BY <2>1, <2>2
<1>4. pc \in Holding /\ r.fp # 0 => Owner(t) /\ r.fp = hreq[t].fp
  BY DEF Owner
<1>5. ~hcut' => ~hcut /\ \A i \in 1 .. PoolSize : fpool'[i].used =>
         \/ pc \in Holding /\ r.fp = i
         \/ fpool[i].used /\ ~(Owner(t) /\ hreq[t].fp = i)
  BY <1>2
<1> QED
  BY <1>1, <1>2, <1>3, <1>4, <1>5, TaskStep

\* What the invariant says of a task that has a file.
LEMMA OwnFile ==
  ASSUME HttpIInv, NEW t \in HttpTasks, hpc[t] \in Holding, hreq[t].fp # 0
  PROVE  LET f == fpool[hreq[t].fp]
         IN  /\ hreq[t].fp \in 1 .. PoolSize /\ f \in FileType /\ f.used
             /\ f.url = FName(hreq[t].url) /\ f.url \in DOMAIN Files /\ f.url \in Names
             /\ f.pos \in Nat /\ f.pos <= Files[f.url] /\ Files[f.url] \in Nat
             /\ Size(hreq[t]) = Files[f.url]
<1> DEFINE f == fpool[hreq[t].fp]
<1>1. hreq[t] \in RequestType /\ hreq[t].fp \in 1 .. PoolSize /\ f \in FileType
  BY DEF HttpIInv, HttpTypes, RequestType
<1>2. Stage(hpc[t], hreq[t], hout[t], f, fbuf)
  BY DEF HttpIInv, Serving
<1>3. f.used /\ f.url = FName(hreq[t].url) /\ f.url \in DOMAIN Files
  BY <1>2 DEF Stage
<1>4. f.pos \in Nat /\ f.url \in Names /\ Files[f.url] \in Nat /\ Size(hreq[t]) = Files[f.url]
  BY <1>1, <1>3, HttpAssumption DEF FileType, Size
<1>5. f.pos <= Files[f.url]
  <2> HIDE DEF f
  <2>1. hreq[t].left \in Nat
    BY <1>1 DEF RequestType
  <2>2. CASE hpc[t] \in {"lock", "head"}
    BY <1>2, <1>4, <2>2 DEF Stage
  <2>3. CASE hpc[t] = "read"
    BY <1>2, <1>4, <2>1, <2>3 DEF Stage
  <2>4. CASE hpc[t] = "send"
    <3>1. Len(fbuf) \in Nat
      BY DEF HttpIInv, HttpTypes
    <3> QED
      BY <1>2, <1>4, <2>1, <2>4, <3>1 DEF Stage
  <2> QED
    BY <2>2, <2>3, <2>4 DEF Holding
<1> QED
  BY <1>1, <1>3, <1>4, <1>5

\* with_sem(&fbuf_sem) and the probe.
LEMMA LockStep ==
  ASSUME HttpIInv, NEW t \in HttpTasks, WwwLock(t)
  PROVE  HttpIInv'
<1> DEFINE fp == hreq[t].fp
           got == FFS_Read(fp, Probe)
           pos == IF Len(got) = Probe THEN 0 ELSE Len(got)
           max == IF Chunk > Probe THEN Chunk ELSE Probe
<1>1. HttpTypes /\ hreq[t] \in RequestType /\ hout[t] \in AnswerType
  BY DEF HttpIInv, HttpTypes
<1>2. hpc[t] = "lock" /\ fsem = 0 /\ fsem' = t /\ UNCHANGED <<hcb, hcut>>
  BY DEF WwwLock
<1>3. Goto(t, "head", hin[t], hreq[t], hout[t])
  <2>1. hin = [hin EXCEPT ![t] = hin[t]] /\ hreq = [hreq EXCEPT ![t] = hreq[t]]
        /\ hout = [hout EXCEPT ![t] = hout[t]]
    BY <1>1 DEF HttpTypes
  <2> QED
    BY <2>1 DEF WwwLock, Goto
<1>4. Stage("lock", hreq[t], hout[t], fpool[fp], fbuf)
  BY <1>2 DEF HttpIInv, Serving
<1>5. hpc[t] \in Holding /\ "head" \in Locking
  BY <1>2 DEF Holding, Locking
<1>6. CASE fp = 0
  <2>1. fpool' = fpool /\ fbuf' = fbuf
    BY <1>6 DEF WwwLock
  <2>2. Stage("head", hreq[t], hout[t], fpool'[fp], fbuf')
    BY <1>4, <1>6, <2>1 DEF Stage, Holding
  <2>3. fbuf' \in Seq(Data) /\ Len(fbuf') <= max /\ fpool' \in [1 .. PoolSize -> FileType]
    BY <1>1, <2>1 DEF HttpTypes, HttpIInv, Buffer
  <2> QED
    BY <1>1, <1>2, <1>3, <1>5, <2>1, <2>2, <2>3, HoldStep
<1>7. CASE fp # 0
  <2>1. fbuf' = got /\ fpool' = [fpool EXCEPT ![fp].pos = pos]
    BY <1>7 DEF WwwLock
  <2>2. /\ fp \in 1 .. PoolSize /\ fpool[fp] \in FileType /\ fpool[fp].used
        /\ fpool[fp].url = FName(hreq[t].url) /\ fpool[fp].url \in DOMAIN Files
        /\ fpool[fp].url \in Names /\ fpool[fp].pos \in Nat
        /\ fpool[fp].pos <= Files[fpool[fp].url] /\ Size(hreq[t]) = Files[fpool[fp].url]
    BY <1>5, <1>7, OwnFile
  <2>3. got \in Seq(Data) /\ Len(got) <= Probe
        /\ (Len(got) < Probe => fpool[fp].pos + Len(got) = Files[fpool[fp].url])
    BY <2>2, ReadPart DEF Probe
  <2>4. fpool[fp].pos = 0 /\ hreq[t].left = Size(hreq[t])
    BY <1>4, <1>7 DEF Stage
  <2> HIDE DEF got
  <2>5. pos \in Nat /\ (pos = 0 \/ pos = hreq[t].left) /\ Len(got) \in Nat
    <3>1. Len(got) \in Nat
      BY <2>3
    <3>2. CASE Len(got) = Probe
      BY <3>1, <3>2
    <3>3. CASE Len(got) # Probe
      <4> DEFINE k == Len(got)
      <4>1. k \in Nat /\ k <= Probe /\ k # Probe
        BY <2>3, <3>1, <3>3
      <4> HIDE DEF k
      <4>2. k < Probe
        BY <4>1 DEF Probe
      <4>3. Len(got) < Probe
        BY <4>2 DEF k
      <4>4. 0 + Len(got) = hreq[t].left /\ 0 + Len(got) = Len(got)
        BY <2>2, <2>3, <2>4, <3>1, <4>3
      <4> QED
        BY <3>1, <3>3, <4>4
    <3> QED
      BY <3>2, <3>3
  <2>6. Len(fbuf') <= max
    BY <2>1, <2>3, <2>5, HttpAssumption DEF Probe
  <2> HIDE DEF pos, max
  <2>7. /\ fpool' \in [1 .. PoolSize -> FileType]
        /\ \A i \in 1 .. PoolSize : i # fp => fpool'[i] = fpool[i]
        /\ fpool'[fp] = [fpool[fp] EXCEPT !.pos = pos]
    <3>1. [fpool[fp] EXCEPT !.pos = pos] \in FileType
      BY <2>2, <2>5 DEF FileType
    <3> QED
      BY <1>1, <2>1, <2>2, <3>1 DEF HttpTypes
  <2>8. fpool'[fp].used /\ fpool'[fp].url = FName(hreq[t].url)
        /\ fpool'[fp].url \in DOMAIN Files /\ fpool'[fp].pos = pos
    BY <2>2, <2>7 DEF FileType
  <2>9. Stage("head", hreq[t], hout[t], fpool'[fp], fbuf')
    BY <1>4, <1>7, <2>5, <2>8 DEF Stage, Holding
  <2> HIDE DEF fp
  <2> QED
    BY <1>1, <1>2, <1>3, <1>5, <2>1, <2>3, <2>6, <2>7, <2>9, HoldStep DEF fp, max
<1> QED
  BY <1>6, <1>7

\* The header ends; without a body to send the callback ends too.
LEMMA HeadStep ==
  ASSUME HttpIInv, NEW t \in HttpTasks, WwwHead(t)
  PROVE  HttpIInv'
<1> DEFINE a == <<hreq[t], hout[t]>>
<1>1. HttpTypes /\ Buffer /\ hreq[t] \in RequestType /\ hout[t] \in AnswerType
  BY DEF HttpIInv, HttpTypes
<1>2. hpc[t] = "head" /\ UNCHANGED <<hcb, hcut>>
  BY DEF WwwHead
<1>3. PICK x \in SendHeaderField(a) : \E y \in EndHeader(x) :
         IF y[1].state = "error" \/ y[1].left = 0
         THEN Unlock /\ FFS_Close(y[1].fp) /\ Return(t, y)
         ELSE Goto(t, "read", hin[t], y[1], y[2]) /\ UNCHANGED <<fsem, fbuf, fpool>>
  BY DEF WwwHead
<1>4. PICK y \in EndHeader(x) :
         IF y[1].state = "error" \/ y[1].left = 0
         THEN Unlock /\ FFS_Close(y[1].fp) /\ Return(t, y)
         ELSE Goto(t, "read", hin[t], y[1], y[2]) /\ UNCHANGED <<fsem, fbuf, fpool>>
  BY <1>3
<1>5. a[1] = hreq[t] /\ a[2] = hout[t]
  OBVIOUS
<1> HIDE DEF a
<1>6. /\ x[1] \in RequestType /\ x[2] = hout[t] /\ x[1].url = hreq[t].url
      /\ x[1].fp = hreq[t].fp /\ x[1].left = hreq[t].left
      /\ x[1].state = "hdr" => hreq[t].state = "hdr" /\ x[1].resp = hreq[t].resp
  BY <1>1, <1>5, FieldSent
<1>7. /\ y[1] \in RequestType /\ y[2] \in AnswerType /\ y[1].url = hreq[t].url
      /\ y[1].fp = hreq[t].fp /\ y[1].left = hreq[t].left
      /\ y[2].body = hout[t].body /\ y[2].len = hout[t].len /\ y[2].hid = hout[t].hid
      /\ y[1].state \in {"data", "done", "error"}
      /\ y[1].state # "error" => /\ hreq[t].state = "hdr" /\ y[1].resp = hreq[t].resp
                                 /\ y[2].ended
                                 /\ y[1].state = "done" <=> hreq[t].resp = 0
  BY <1>1, <1>6, HeaderEnded
<1>8. Stage("head", hreq[t], hout[t], fpool[hreq[t].fp], fbuf)
  BY <1>2 DEF HttpIInv, Serving
<1>9. hpc[t] \in Locking /\ hpc[t] \in Holding /\ fsem = t /\ "read" \in Locking
  BY <1>1, <1>2 DEF Locking, Holding, Buffer
<1>10. y[2].body = Bytes(FName(y[1].url), 0, Len(y[2].body)) /\ y[2].body = <<>>
  BY <1>7, <1>8 DEF Stage
<1>11. CASE y[1].state = "error" \/ y[1].left = 0
  <2>1. Unlock /\ FFS_Close(hreq[t].fp) /\ Return(t, y)
    BY <1>4, <1>7, <1>11
  <2> QED
    BY <1>2, <1>7, <1>9, <1>10, <2>1, LeaveStep
<1>12. CASE ~(y[1].state = "error" \/ y[1].left = 0)
  <2>1. Goto(t, "read", hin[t], y[1], y[2]) /\ fsem' = fsem /\ fbuf' = fbuf /\ fpool' = fpool
    BY <1>4, <1>12
  <2>2. hreq[t].state = "hdr" /\ hreq[t].left # 0 /\ hreq[t].left \in Nat
    BY <1>1, <1>7, <1>12 DEF RequestType
  <2>3. hreq[t].fp # 0 /\ hreq[t].left = Size(hreq[t]) /\ hreq[t].resp = hreq[t].left
        /\ (hout[t].hid \/ hout[t].len = <<hreq[t].left>>)
        /\ fpool[hreq[t].fp].pos \in {0, hreq[t].left}
    BY <1>8, <2>2 DEF Stage
  <2>4. Size(y[1]) = hreq[t].left /\ Len(<<>>) = 0
    BY <1>7, <2>3 DEF Size
  <2>5. y[1].state = "data"
    BY <1>7, <1>12, <2>2, <2>3
  <2>6. fpool'[y[1].fp].used /\ fpool'[y[1].fp].url = FName(y[1].url)
        /\ fpool'[y[1].fp].url \in DOMAIN Files
    BY <1>7, <1>9, <2>1, <2>3, OwnFile
  <2>7. y[1].resp = y[1].left /\ y[1].left \in 1 .. Size(y[1]) /\ y[1].fp # 0
    BY <1>7, <1>12, <2>2, <2>3, <2>4
  <2>8. y[2].ended /\ (y[2].hid \/ y[2].len = <<Size(y[1])>>)
        /\ Len(y[2].body) = Size(y[1]) - y[1].left
    <3>1. hreq[t].left - hreq[t].left = 0
      BY <2>2
    <3> QED
      BY <1>7, <1>10, <1>12, <2>3, <2>4, <3>1
  <2>9. fpool'[y[1].fp].pos \in {Size(y[1]) - y[1].left, Size(y[1])}
    BY <1>7, <2>1, <2>2, <2>3, <2>4
  <2>10. Stage("read", y[1], y[2], fpool'[y[1].fp], fbuf')
    BY <1>10, <2>5, <2>6, <2>7, <2>8, <2>9 DEF Stage, Holding
  <2>11. fbuf' \in Seq(Data) /\ Len(fbuf') <= (IF Chunk > Probe THEN Chunk ELSE Probe)
         /\ fpool' \in [1 .. PoolSize -> FileType]
    BY <1>1, <2>1 DEF HttpTypes, Buffer
  <2> QED
    BY <1>2, <1>7, <1>9, <2>1, <2>10, <2>11, HoldStep
<1> QED
  BY <1>11, <1>12

\* A chunk is read: it continues what was sent.
LEMMA ChunkStep ==
  ASSUME HttpIInv, NEW t \in HttpTasks, WwwRead(t)
  PROVE  HttpIInv'
<1> DEFINE r == hreq[t]
           o == hout[t]
           fp == r.fp
           got == FFS_Read(fp, Chunk)
           pos == fpool[fp].pos
           size == Size(r)
<1>1. HttpTypes /\ Buffer /\ r \in RequestType /\ o \in AnswerType /\ r.left \in Nat
  BY DEF HttpIInv, HttpTypes, RequestType
<1>2. hpc[t] = "read" /\ UNCHANGED <<hcb, hcut>>
  BY DEF WwwRead
<1>3. Stage("read", r, o, fpool[fp], fbuf)
  BY <1>2 DEF HttpIInv, Serving
<1>4. /\ fp # 0 /\ r.state = "data" /\ r.resp = r.left /\ r.left \in 1 .. size
      /\ o.ended /\ (o.hid \/ o.len = <<size>>) /\ Len(o.body) = size - r.left
      /\ pos \in {size - r.left, size}
      /\ o.body = Bytes(FName(r.url), 0, Len(o.body))
  BY <1>3 DEF Stage
<1>5. hpc[t] \in Locking /\ hpc[t] \in Holding /\ fsem = t /\ "send" \in Locking
  BY <1>1, <1>2 DEF Locking, Holding, Buffer
<1>6. /\ fp \in 1 .. PoolSize /\ fpool[fp] \in FileType /\ fpool[fp].used
      /\ fpool[fp].url = FName(r.url) /\ fpool[fp].url \in DOMAIN Files
      /\ fpool[fp].url \in Names /\ pos \in Nat
      /\ pos <= Files[fpool[fp].url] /\ size = Files[fpool[fp].url] /\ size \in Nat
  BY <1>4, <1>5, OwnFile
<1>7. Chunk \in Nat
  BY HttpAssumption
<1>8. got \in Seq(Data) /\ Len(got) <= Chunk /\ pos + Len(got) <= size
      /\ got = Bytes(FName(r.url), pos, pos + Len(got)) /\ Len(got) \in Nat
  BY <1>6, <1>7, ReadPart
<1>9. CASE got = <<>>
  <2> DEFINE x == <<r, o>>
  <2>1. Unlock /\ FFS_Close(fp) /\ Return(t, x)
    BY <1>9 DEF WwwRead
  <2>2. x[1] = r /\ x[2] = o
    OBVIOUS
  <2> HIDE DEF x
  <2> QED
    BY <1>1, <1>2, <1>4, <1>5, <2>1, <2>2, LeaveStep
<1>10. CASE got # <<>>
  <2>1. fbuf' = got /\ fpool' = [fpool EXCEPT ![fp].pos = pos + Len(got)]
        /\ Goto(t, "send", hin[t], r, o) /\ fsem' = fsem
    BY <1>10 DEF WwwRead
  <2> HIDE DEF got, size
  <2>2. Len(got) > 0
    BY <1>8, <1>10, EmptySeq
  <2>3. pos = size - r.left
    BY <1>4, <1>6, <1>8, <2>2
  <2>4. Len(got) <= r.left /\ pos + Len(got) \in Nat
    BY <1>1, <1>6, <1>8, <2>3
  <2>5. /\ fpool' \in [1 .. PoolSize -> FileType]
        /\ \A i \in 1 .. PoolSize : i # fp => fpool'[i] = fpool[i]
        /\ fpool'[fp] = [fpool[fp] EXCEPT !.pos = pos + Len(got)]
    <3>1. [fpool[fp] EXCEPT !.pos = pos + Len(got)] \in FileType
      BY <1>6, <2>4 DEF FileType
    <3> QED
      BY <1>1, <1>6, <2>1, <3>1 DEF HttpTypes
  <2>6. fpool'[fp].used /\ fpool'[fp].url = FName(r.url)
        /\ fpool'[fp].url \in DOMAIN Files /\ fpool'[fp].pos = pos + Len(got)
    BY <1>6, <2>5 DEF FileType
  <2>7. Stage("send", r, o, fpool'[fp], fbuf')
    <3>1. got = Bytes(FName(r.url), size - r.left, size - r.left + Len(got))
      BY <1>8, <2>3
    <3>2. fpool'[fp].pos = size - r.left + Len(got)
      BY <2>3, <2>6
    <3> HIDE DEF pos
    <3> QED
      BY <1>4, <2>1, <2>4, <2>6, <3>1, <3>2 DEF Stage, Holding, size
  <2>8. Len(fbuf') <= (IF Chunk > Probe THEN Chunk ELSE Probe) /\ fbuf' \in Seq(Data)
    BY <1>7, <1>8, <2>1 DEF Probe
  <2> QED
    BY <1>1, <1>2, <1>5, <2>1, <2>5, <2>7, <2>8, HoldStep
<1> QED
  BY <1>9, <1>10

\* The request and the answer behind a chunk that was sent.
SentReq(r, n) == [r EXCEPT !.resp = @ - n, !.left = @ - n,
                           !.state = IF r.resp = n THEN "done" ELSE @]
SentOut(o, b) == [o EXCEPT !.body = @ \o b]

\* The chunk was sent: the bytes left fbuf as the task had read them.
LEMMA SentFacts ==
  ASSUME HttpIInv, NEW t \in HttpTasks, hpc[t] = "send"
  PROVE  LET s == SentReq(hreq[t], Len(fbuf)) o == SentOut(hout[t], fbuf)
         IN  /\ s \in RequestType /\ s.url = hreq[t].url /\ s.fp = hreq[t].fp /\ s.fp # 0
             /\ s.resp = s.left /\ s.left \in 0 .. Size(s) /\ (s.left # 0 => s.state = "data")
             /\ o \in AnswerType /\ o.ended /\ (o.hid \/ o.len = <<Size(s)>>)
             /\ Len(o.body) = Size(s) - s.left /\ o.body = Bytes(FName(s.url), 0, Len(o.body))
             /\ fpool[s.fp].pos = Size(s) - s.left /\ Size(s) \in Nat
             /\ hreq[t].state = "data"
<1> DEFINE r == hreq[t]
           n == Len(fbuf)
           fp == r.fp
           size == Size(r)
           st == IF r.resp = n THEN "done" ELSE r.state
           s == SentReq(r, n)
           o == SentOut(hout[t], fbuf)
           u == FName(r.url)
<1>1. HttpTypes /\ Buffer /\ r \in RequestType /\ hout[t] \in AnswerType /\ r.left \in Nat
      /\ fbuf \in Seq(Data) /\ n \in Nat /\ hout[t].body \in Seq(Data)
  <2>1. HttpTypes /\ Buffer
    BY DEF HttpIInv
  <2>2. r \in RequestType /\ hout[t] \in AnswerType /\ fbuf \in Seq(Data)
    BY <2>1 DEF HttpTypes
  <2>3. r.left \in Nat /\ hout[t].body \in Seq(Data)
    BY <2>2 DEF RequestType, AnswerType
  <2> QED
    BY <2>1, <2>2, <2>3
<1>3. Stage("send", r, hout[t], fpool[fp], fbuf)
  BY DEF HttpIInv, Serving
<1>4. /\ fp # 0 /\ r.state = "data" /\ r.resp = r.left /\ r.left \in 1 .. size
      /\ hout[t].ended /\ (hout[t].hid \/ hout[t].len = <<size>>)
      /\ Len(hout[t].body) = size - r.left
      /\ n <= r.left /\ fpool[fp].pos = size - r.left + n
      /\ fbuf = Bytes(u, size - r.left, size - r.left + n)
      /\ hout[t].body = Bytes(u, 0, Len(hout[t].body))
  BY <1>3 DEF Stage
<1>5. hpc[t] \in Holding
  BY DEF Holding
<1>6. /\ fpool[fp].used /\ fpool[fp].url = u /\ fpool[fp].url \in DOMAIN Files
      /\ u \in Names /\ size = Files[u] /\ size \in Nat
  BY <1>4, <1>5, OwnFile
<1>7. /\ size - r.left \in Nat /\ size - r.left + n \in Nat
      /\ size - r.left <= size - r.left + n /\ size - r.left + n = size - (r.left - n)
      /\ r.left - n \in Nat /\ r.left - n <= size
  <2> DEFINE l == r.left
  <2>1. l \in Nat /\ n \in Nat /\ size \in Nat /\ l <= size /\ n <= l
    BY <1>1, <1>4, <1>6
  <2> HIDE DEF l, n, size
  <2>2. /\ size - l \in Nat /\ size - l + n \in Nat
        /\ size - l <= size - l + n /\ size - l + n = size - (l - n)
        /\ l - n \in Nat /\ l - n <= size
    BY <2>1
  <2> QED
    BY <2>2 DEF l
<1>8. s = [r EXCEPT !.resp = r.resp - n, !.left = r.left - n, !.state = st]
      /\ o = [hout[t] EXCEPT !.body = @ \o fbuf]
  BY DEF SentReq, SentOut
<1>9. st \in States /\ (r.left - n # 0 => st = "data")
  BY <1>1, <1>4, <1>7 DEF States
<1> HIDE DEF size, st, n, s, o
<1>10. s \in RequestType /\ s.url = r.url /\ s.fp = fp /\ s.left = r.left - n
       /\ s.resp = r.left - n /\ s.state = st
  BY <1>1, <1>4, <1>7, <1>8, <1>9 DEF RequestType
<1>11. o.body = Bytes(u, 0, size - (r.left - n))
  <2>1. o.body = hout[t].body \o fbuf
    BY <1>1, <1>8 DEF AnswerType
  <2>2. hout[t].body \o fbuf = Bytes(u, 0, size - r.left) \o Bytes(u, size - r.left, size - r.left + n)
    BY <1>4
  <2>3. Bytes(u, 0, size - r.left) \o Bytes(u, size - r.left, size - r.left + n)
          = Bytes(u, 0, size - r.left + n)
    BY <1>6, <1>7, BytesJoin
  <2> QED
    BY <1>7, <2>1, <2>2, <2>3
<1>12. o.body \in Seq(Data) /\ Len(o.body) = size - (r.left - n)
  <2>1. size - (r.left - n) \in Nat /\ 0 <= size - (r.left - n)
        /\ size - (r.left - n) - 0 = size - (r.left - n)
    BY <1>6, <1>7
  <2> DEFINE m == size - (r.left - n)
  <2>2. o.body = Bytes(u, 0, m) /\ m \in Nat /\ 0 <= m /\ m - 0 = m /\ 0 \in Nat
    BY <1>11, <2>1
  <2> HIDE DEF m, u
  <2>3. o.body \in Seq(Data) /\ Len(o.body) = m
    BY <1>6, <2>2, BytesType
  <2> QED
    BY <2>3 DEF m
<1>13. o \in AnswerType /\ o.ended = hout[t].ended /\ o.hid = hout[t].hid /\ o.len = hout[t].len
  BY <1>1, <1>8, <1>12 DEF AnswerType
<1>14. o.body = Bytes(FName(s.url), 0, Len(o.body))
  BY <1>10, <1>11, <1>12
<1>15. Size(s) = size
  BY <1>10 DEF Size, size
<1>16. s.left \in 0 .. size /\ (s.left # 0 => s.state = "data")
  BY <1>6, <1>7, <1>9, <1>10
<1>17. fpool[s.fp].pos = size - s.left
  BY <1>4, <1>7, <1>10
<1> HIDE DEF r, u, fp
<1> QED
  BY <1>4, <1>6, <1>10, <1>12, <1>13, <1>14, <1>15, <1>16, <1>17 DEF s, o, n, r, fp

\* UHTTPSrc_SendBody returned: the next chunk, or the end of the callback.
LEMMA SentStep ==
  ASSUME HttpIInv, NEW t \in HttpTasks, WwwSent(t)
  PROVE  HttpIInv'
<1> DEFINE s == SentReq(hreq[t], Len(fbuf))
           o == SentOut(hout[t], fbuf)
<1>1. HttpTypes /\ Buffer
  BY DEF HttpIInv
<1>2. hpc[t] = "send" /\ UNCHANGED <<hcb, hcut>>
  BY DEF WwwSent
<1>3. /\ s \in RequestType /\ s.url = hreq[t].url /\ s.fp = hreq[t].fp /\ s.fp # 0
      /\ s.resp = s.left /\ s.left \in 0 .. Size(s) /\ (s.left # 0 => s.state = "data")
      /\ o \in AnswerType /\ o.ended /\ (o.hid \/ o.len = <<Size(s)>>)
      /\ Len(o.body) = Size(s) - s.left /\ o.body = Bytes(FName(s.url), 0, Len(o.body))
      /\ fpool[s.fp].pos = Size(s) - s.left /\ Size(s) \in Nat
  BY <1>2, SentFacts
<1>4. IF s.left = 0 THEN Unlock /\ FFS_Close(hreq[t].fp) /\ Return(t, <<s, o>>)
      ELSE Goto(t, "read", hin[t], s, o) /\ UNCHANGED <<fsem, fbuf, fpool>>
  BY DEF WwwSent, SentReq, SentOut
<1>5. hpc[t] \in Locking /\ hpc[t] \in Holding /\ fsem = t /\ "read" \in Locking
  BY <1>1, <1>2 DEF Locking, Holding, Buffer
<1> HIDE DEF s, o
<1>6. CASE s.left = 0
  <2> DEFINE x == <<s, o>>
  <2>1. Unlock /\ FFS_Close(hreq[t].fp) /\ Return(t, x)
    BY <1>4, <1>6
  <2>2. x[1] = s /\ x[2] = o
    OBVIOUS
  <2> HIDE DEF x
  <2> QED
    BY <1>2, <1>3, <1>5, <2>1, <2>2, LeaveStep
<1>7. CASE s.left # 0
  <2>1. Goto(t, "read", hin[t], s, o) /\ fsem' = fsem /\ fbuf' = fbuf /\ fpool' = fpool
    BY <1>4, <1>7
  <2>2. s.left \in 1 .. Size(s)
    BY <1>3, <1>7
  <2>3. fpool'[s.fp].used /\ fpool'[s.fp].url = FName(s.url) /\ fpool'[s.fp].url \in DOMAIN Files
    BY <1>3, <1>5, <2>1, OwnFile
  <2>4. Stage("read", s, o, fpool'[s.fp], fbuf')
    BY <1>3, <1>7, <2>1, <2>2, <2>3 DEF Stage, Holding
  <2>5. fbuf' \in Seq(Data) /\ Len(fbuf') <= (IF Chunk > Probe THEN Chunk ELSE Probe)
        /\ fpool' \in [1 .. PoolSize -> FileType]
    BY <1>1, <2>1 DEF HttpTypes, Buffer
  <2> QED
    BY <1>2, <1>3, <1>5, <2>1, <2>4, <2>5, HoldStep
<1> QED
  BY <1>6, <1>7

\* Sending failed: the callback returns and leaves its file open.
LEMMA CutStep ==
  ASSUME HttpIInv, NEW t \in HttpTasks, WwwCut(t)
  PROVE  HttpIInv'
<1> DEFINE r == Request(None, None)
<1>1. HttpTypes /\ Buffer /\ <<>> \in Seq(Lines)
  BY DEF HttpIInv
<1>2. hpc[t] = "send" /\ hcut' = TRUE /\ fpool' = fpool /\ hcb' = hcb /\ fsem' = 0 /\ fbuf' = <<>>
  BY DEF WwwCut, Unlock
<1>3. Goto(t, "listen", <<>>, r, NoResp) /\ r \in RequestType
  BY FreshRequest DEF WwwCut, Close
<1>4. NoResp \in AnswerType /\ NoResp.body = Bytes(FName(r.url), 0, Len(NoResp.body))
  BY Fresh
<1> HIDE DEF r
<1>5. hpc[t] \in Locking /\ fsem = t /\ "listen" \notin Holding /\ "listen" \notin Locking
      /\ "listen" \in Places
  BY <1>1, <1>2 DEF Buffer, Locking, Holding, Places
<1>6. Stage("listen", r, NoResp, fpool'[r.fp], fbuf')
  BY <1>4, <1>5 DEF Stage
<1>7. fbuf' \in Seq(Data) /\ Len(fbuf') <= (IF Chunk > Probe THEN Chunk ELSE Probe)
      /\ fpool' \in [1 .. PoolSize -> FileType]
  BY <1>1, <1>2, HttpAssumption DEF HttpTypes, Probe
<1>8. hcut' \in BOOLEAN /\ hcut'
  BY <1>2
<1> QED
  BY <1>1, <1>2, <1>3, <1>4, <1>5, <1>6, <1>7, <1>8, TaskStep

-----------------------------------------------------------------------------
\* HttpIInv is an invariant.
LEMMA HttpStepOK == HttpIInv /\ [HttpNext]_hvars => HttpIInv'
<1> SUFFICES ASSUME HttpIInv, [HttpNext]_hvars
             PROVE  HttpIInv'
  OBVIOUS
<1>1. CASE UNCHANGED hvars
  BY <1>1 DEF hvars, HttpIInv, HttpTypes, Buffer, Pool, Owner, Serving
<1>2. ASSUME NEW t \in HttpTasks, HttpStep(t) PROVE HttpIInv'
  BY <1>2, ServeStep, ReadStep, FilesStep, LockStep, HeadStep, ChunkStep, SentStep, CutStep,
     OtherStep DEF HttpStep
<1> QED
  BY <1>1, <1>2 DEF HttpNext

\* The invariant of the specification.
LEMMA HttpInvariant == HttpSpec => []HttpIInv
BY HttpInitOK, HttpStepOK, PTL DEF HttpSpec

\* The pool of open files and the shared buffer: no two callbacks have the same
\* file or the buffer at once, and unless a download was cut short an entry
\* that is in use belongs to a running callback (FFS_Open, FFS_Close, fbuf_sem).
THEOREM FilesOwned == HttpSpec => []PoolOwned
<1>1. HttpIInv => PoolOwned
  <2> SUFFICES ASSUME HttpIInv PROVE PoolOwned
    OBVIOUS
  <2>1. HttpTypeOK
    <3>1. \A t \in HttpTasks : /\ hreq[t].state \in States /\ hreq[t].fp \in 0 .. PoolSize
      BY DEF HttpIInv, HttpTypes, RequestType
    <3> QED
      BY <3>1 DEF HttpTypeOK, HttpIInv, HttpTypes, Buffer, Places, Locking, States
  <2> DEFINE own == {t \in HttpTasks : hpc[t] \in {"lock", "head", "read", "send"} /\ hreq[t].fp # 0}
  <2>2. \A t \in HttpTasks : t \in own <=> Owner(t)
    BY DEF Owner, Holding
  <2>3. \A t, u \in own : t # u => hreq[t].fp # hreq[u].fp
    BY <2>2 DEF HttpIInv, Pool
  <2>4. \A t \in own : fpool[hreq[t].fp].used
    BY <2>2, OwnFile DEF Holding
  <2>5. ~hcut => \A i \in 1 .. PoolSize : fpool[i].used => \E t \in own : hreq[t].fp = i
    BY <2>2 DEF HttpIInv, Pool
  <2> HIDE DEF own
  <2> QED
    BY <2>1, <2>3, <2>4, <2>5 DEF PoolOwned, own
<1> QED
  BY <1>1, HttpInvariant, PTL

-----------------------------------------------------------------------------
(* Whole answers.  The status line of the code 405 does not fit in its     *)
(* buffer and takes the length of the body with it, so the theorem is      *)
(* about clients that the API does not answer with 405.                    *)

\* An answer is complete, unless one of its first fields was lost.
FullAnswer(o) == o.hid \/ (o.ended /\ o.len = <<Len(o.body)>>)

\* No request of the API is one it refuses, and a connection that waits for the
\* next request has got a complete answer.
Reported(pc, c, r, in, o) ==
  /\ c = "api" => \A i \in DOMAIN in : Answerable(in[i])
  /\ c = "api" /\ pc = "call" => ApiCode(r) # 405
  /\ pc = "line" /\ o # NoResp => FullAnswer(o)
Told == \A t \in HttpTasks : Reported(hpc[t], hcb[t], hreq[t], hin[t], hout[t])

\* What a step of one task leaves to be shown.
LEMMA Moved ==
  ASSUME HttpTypes, NEW t \in HttpTasks, NEW pc, NEW in, NEW r, NEW o, Goto(t, pc, in, r, o)
  PROVE  /\ hpc'[t] = pc /\ hin'[t] = in /\ hreq'[t] = r /\ hout'[t] = o
         /\ \A u \in HttpTasks \ {t} : /\ hpc'[u] = hpc[u] /\ hin'[u] = hin[u]
                                       /\ hreq'[u] = hreq[u] /\ hout'[u] = hout[u]
BY DEF HttpTypes, Goto

\* A task goes on.
LEMMA GotoTold ==
  ASSUME HttpTypes, Told, NEW t \in HttpTasks, NEW pc, NEW in, NEW r, NEW o,
         Goto(t, pc, in, r, o), hcb' = hcb, Reported(pc, hcb[t], r, in, o)
  PROVE  Told'
<1> SUFFICES ASSUME NEW u \in HttpTasks
             PROVE  Reported(hpc'[u], hcb[u], hreq'[u], hin'[u], hout'[u])
  BY DEF Told
<1>1. CASE u = t
  BY <1>1, Moved
<1>2. CASE u # t
  BY <1>2, Moved DEF Told
<1> QED
  BY <1>1, <1>2

\* A connection is closed.
LEMMA CloseTold ==
  ASSUME HttpTypes, Told, NEW t \in HttpTasks, Close(t), hcb' = hcb
  PROVE  Told'
<1> DEFINE r == Request(None, None)
<1>1. Goto(t, "listen", <<>>, r, NoResp)
  BY DEF Close
<1>2. Reported("listen", hcb[t], r, <<>>, NoResp)
  BY DEF Reported
<1> HIDE DEF r
<1> QED
  BY <1>1, <1>2, GotoTold

\* A callback returns with a complete answer.
LEMMA ReturnTold ==
  ASSUME HttpTypes, Told, NEW t \in HttpTasks, NEW x, Return(t, x), hcb' = hcb,
         x[1].state = "done" => FullAnswer(x[2])
  PROVE  Told'
<1>1. CASE x[1].state = "done"
  <2> DEFINE r == Request(x[1].method, x[1].url)
  <2>1. Goto(t, "line", hin[t], r, x[2])
    BY <1>1 DEF Return
  <2>2. Reported("line", hcb[t], r, hin[t], x[2])
    BY <1>1 DEF Told, Reported
  <2> HIDE DEF r
  <2> QED
    BY <2>1, <2>2, GotoTold
<1>2. CASE x[1].state # "done"
  BY <1>2, CloseTold DEF Return
<1> QED
  BY <1>1, <1>2

\* UHTTPSrv_ServeTask, and the callbacks reading the request.
LEMMA ServeTold ==
  ASSUME NoRefusal, HttpIInv, Told, NEW t \in HttpTasks,
         Listen(t) \/ Ask(t) \/ ServeRequest(t) \/ ServeDrop(t) \/ ReadFields(t) \/ DropBody(t)
  PROVE  Told'
<1>1. HttpTypes /\ hin[t] \in Seq(Lines) /\ hreq[t] \in RequestType
  BY DEF HttpIInv, HttpTypes
<1>2. hcb' = hcb /\ Reported(hpc[t], hcb[t], hreq[t], hin[t], hout[t])
  BY DEF Listen, Ask, ServeRequest, ServeDrop, ReadFields, DropBody, Told
<1>3. CASE Listen(t)
  <2>1. Goto(t, "line", <<>>, hreq[t], NoResp)
    BY <1>3 DEF Listen
  <2>2. Reported("line", hcb[t], hreq[t], <<>>, NoResp)
    BY DEF Reported
  <2> QED
    BY <1>1, <1>2, <2>1, <2>2, GotoTold
<1>4. CASE Ask(t)
  <2>1. PICK q \in Requests[hcb[t]] : hin' = [hin EXCEPT ![t] = q]
    BY <1>4 DEF Ask
  <2>2. hpc[t] = "line" /\ UNCHANGED <<hpc, hreq, hout>>
    BY <1>4 DEF Ask
  <2>3. hin'[t] = q /\ \A u \in HttpTasks \ {t} : hin'[u] = hin[u]
    BY <1>1, <2>1 DEF HttpTypes
  <2>4. Reported(hpc[t], hcb[t], hreq[t], q, hout[t])
    BY <1>2, <2>2 DEF Reported, NoRefusal
  <2> QED
    BY <1>2, <2>2, <2>3, <2>4 DEF Told
<1>5. CASE ServeRequest(t)
  <2> DEFINE l == Head(hin[t])
             r == Request(l[2], l[3])
  <2>1. Goto(t, "call", Tail(hin[t]), r, NoResp) /\ ParseRequestLine(l) /\ hin[t] # <<>>
    BY <1>5 DEF ServeRequest
  <2>2. l = hin[t][1] /\ 1 \in DOMAIN hin[t] /\ l[1] = "req" /\ l[2] \in Methods
    BY <1>1, <2>1 DEF ParseRequestLine
  <2>3. hcb[t] = "api" => Answerable(l)
    BY <1>2, <2>2 DEF Reported
  <2>4. r.url = l[3] /\ r.method = l[2]
    BY DEF Request
  <2>5. \A i \in DOMAIN Tail(hin[t]) : i + 1 \in DOMAIN hin[t] /\ Tail(hin[t])[i] = hin[t][i + 1]
    BY <1>1, <2>1
  <2> HIDE DEF l, r
  <2>6. hcb[t] = "api" => ApiCode(r) # 405
    BY <2>2, <2>3, <2>4 DEF Answerable, ApiCode
  <2>7. Reported("call", hcb[t], r, Tail(hin[t]), NoResp)
    BY <1>2, <2>5, <2>6 DEF Reported
  <2> QED
    BY <1>1, <1>2, <2>1, <2>7, GotoTold
<1>6. CASE ServeDrop(t)
  BY <1>1, <1>2, <1>6, CloseTold DEF ServeDrop
<1>7. ASSUME hpc[t] = "call", NEW k \in Nat, NEW in, NEW r, Goto(t, "call", in, r, NoResp),
             r.url = hreq[t].url, r.method = hreq[t].method,
             \A i \in DOMAIN in : i + k \in DOMAIN hin[t] /\ in[i] = hin[t][i + k]
      PROVE  Told'
  <2>1. ApiCode(r) = ApiCode(hreq[t])
    BY <1>7 DEF ApiCode
  <2>2. Reported("call", hcb[t], r, in, NoResp)
    BY <1>2, <1>7, <2>1 DEF Reported
  <2> QED
    BY <1>1, <1>2, <1>7, <2>2, GotoTold
<1> DEFINE e == [hreq[t] EXCEPT !.state = "error"]
<1>8. e.url = hreq[t].url /\ e.method = hreq[t].method
      /\ \A i \in DOMAIN hin[t] : i + 0 \in DOMAIN hin[t] /\ hin[t][i] = hin[t][i + 0]
  BY <1>1 DEF RequestType
<1> HIDE DEF e
<1>9. CASE ReadFields(t)
  <2>1. hpc[t] = "call"
    BY <1>9 DEF ReadFields
  <2>2. CASE Goto(t, "call", hin[t], e, NoResp)
    BY <1>7, <1>8, <2>1, <2>2
  <2>3. CASE Close(t)
    BY <1>1, <1>2, <2>3, CloseTold
  <2>4. CASE hin[t] # <<>> /\
             Goto(t, "call", Tail(hin[t]), ReadHeaderField(hreq[t], Head(hin[t])), NoResp)
    <3>1. Head(hin[t]) \in Lines
      BY <1>1, <2>4
    <3>2. \A i \in DOMAIN Tail(hin[t]) : i + 1 \in DOMAIN hin[t] /\ Tail(hin[t])[i] = hin[t][i + 1]
      BY <1>1, <2>4
    <3> DEFINE r == ReadHeaderField(hreq[t], Head(hin[t]))
               in == Tail(hin[t])
    <3>3. 1 \in Nat /\ r.url = hreq[t].url /\ r.method = hreq[t].method
      BY <1>1, <3>1, HeaderRead
    <3>4. Goto(t, "call", in, r, NoResp)
          /\ \A i \in DOMAIN in : i + 1 \in DOMAIN hin[t] /\ in[i] = hin[t][i + 1]
      BY <2>4, <3>2
    <3> HIDE DEF r, in
    <3> QED
      BY <1>7, <2>1, <3>3, <3>4
  <2> QED
    BY <1>9, <2>2, <2>3, <2>4 DEF ReadFields, e
<1>10. CASE DropBody(t)
  <2> DEFINE n == IF hreq[t].state = "body" THEN hreq[t].body ELSE 0
             b == ReadBody(hreq[t], n)
             r == [b EXCEPT !.read = TRUE]
             in == SubSeq(hin[t], n + 1, Len(hin[t]))
  <2>1. hpc[t] = "call" /\ n \in Nat
    BY <1>1, <1>10 DEF DropBody, RequestType
  <2>2. CASE Goto(t, "call", hin[t], e, NoResp)
    BY <1>7, <1>8, <2>1, <2>2
  <2>3. CASE Len(hin[t]) >= n /\ Goto(t, "call", in, r, NoResp)
    <3> HIDE DEF n
    <3>1. b \in RequestType /\ b.url = hreq[t].url /\ b.method = hreq[t].method
      BY <1>1, <2>1, BodyRead
    <3> HIDE DEF b
    <3>2. r.url = hreq[t].url /\ r.method = hreq[t].method
      BY <3>1 DEF RequestType
    <3>3. \A i \in DOMAIN in : i + n \in DOMAIN hin[t] /\ in[i] = hin[t][i + n]
      <4>1. Len(hin[t]) \in Nat /\ Len(hin[t]) >= n
        BY <1>1, <2>3
      <4>2. in = [i \in 1 .. Len(hin[t]) - n |-> hin[t][i + n]]
        BY <1>1, <2>1, <4>1
      <4> HIDE DEF in
      <4>3. DOMAIN in = 1 .. Len(hin[t]) - n /\ DOMAIN hin[t] = 1 .. Len(hin[t])
        BY <1>1, <4>2
      <4> QED
        BY <2>1, <4>1, <4>2, <4>3
    <3> HIDE DEF r, in
    <3> QED
      BY <1>7, <2>1, <2>3, <3>2, <3>3
  <2> QED
    BY <1>10, <2>2, <2>3 DEF DropBody, e
<1> QED
  BY <1>3, <1>4, <1>5, <1>6, <1>9, <1>10

\* The web site: the answer is done when as many bytes were sent as its header
\* says.
LEMMA WebsiteTold ==
  ASSUME HttpIInv, Told, NEW t \in HttpTasks,
         \/ WwwFiles(t) \/ WwwLock(t) \/ WwwHead(t) \/ WwwRead(t) \/ WwwSent(t) \/ WwwCut(t)
         \/ WwwAccept(t) \/ WwwEchoEnds(t)
  PROVE  Told'
<1>1. HttpTypes /\ hreq[t] \in RequestType /\ hout[t] \in AnswerType
  BY DEF HttpIInv, HttpTypes
<1>2. hcb' = hcb
  BY DEF WwwFiles, WwwLock, WwwHead, WwwRead, WwwSent, WwwCut, WwwAccept, WwwEchoEnds
<1>3. ASSUME NEW pc \in {"lock", "read", "head", "send", "ws"}, NEW r, NEW o, Goto(t, pc, hin[t], r, o)
      PROVE  Told'
  <2>1. Reported(pc, hcb[t], r, hin[t], o)
    BY DEF Told, Reported
  <2> QED
    BY <1>1, <1>2, <1>3, <2>1, GotoTold
<1>4. Stage(hpc[t], hreq[t], hout[t], fpool[hreq[t].fp], fbuf)
  BY DEF HttpIInv, Serving
<1>5. CASE WwwFiles(t)
  BY <1>3, <1>5 DEF WwwFiles
<1>6. CASE WwwLock(t)
  <2>1. Goto(t, "head", hin[t], hreq[t], hout[t])
    <3>1. hin = [hin EXCEPT ![t] = hin[t]] /\ hreq = [hreq EXCEPT ![t] = hreq[t]]
          /\ hout = [hout EXCEPT ![t] = hout[t]]
      BY <1>1 DEF HttpTypes
    <3> QED
      BY <1>6, <3>1 DEF WwwLock, Goto
  <2> QED
    BY <1>3, <2>1
<1>7. CASE WwwHead(t)
  <2> DEFINE a == <<hreq[t], hout[t]>>
  <2>1. PICK x \in SendHeaderField(a) : \E y \in EndHeader(x) :
           Return(t, y) \/ Goto(t, "read", hin[t], y[1], y[2])
    BY <1>7 DEF WwwHead
  <2>2. PICK y \in EndHeader(x) : Return(t, y) \/ Goto(t, "read", hin[t], y[1], y[2])
    BY <2>1
  <2>3. a[1] = hreq[t] /\ a[2] = hout[t]
    OBVIOUS
  <2> HIDE DEF a
  <2>4. /\ x[1] \in RequestType /\ x[2] = hout[t]
        /\ x[1].state = "hdr" => hreq[t].state = "hdr" /\ x[1].resp = hreq[t].resp
    BY <1>1, <2>3, FieldSent
  <2>5. /\ y[2].body = hout[t].body /\ y[2].len = hout[t].len /\ y[2].hid = hout[t].hid
        /\ y[1].state = "done" => hreq[t].state = "hdr" /\ hreq[t].resp = 0 /\ y[2].ended
    BY <1>1, <2>4, HeaderEnded
  <2>6. hpc[t] = "head"
    BY <1>7 DEF WwwHead
  <2>7. hout[t].body = <<>> /\ Len(<<>>) = 0
        /\ (hreq[t].state = "hdr" =>
              hreq[t].resp = hreq[t].left /\ (hout[t].hid \/ hout[t].len = <<hreq[t].left>>))
    BY <1>4, <2>6 DEF Stage
  <2>8. y[1].state = "done" => FullAnswer(y[2])
    BY <2>5, <2>7 DEF FullAnswer
  <2> QED
    BY <1>1, <1>2, <1>3, <2>2, <2>8, ReturnTold
<1>8. CASE WwwRead(t)
  <2> DEFINE x == <<hreq[t], hout[t]>>
  <2>1. Return(t, x) \/ Goto(t, "send", hin[t], hreq[t], hout[t])
    BY <1>8 DEF WwwRead
  <2>2. x[1].state = "data"
    BY <1>4, <1>8 DEF WwwRead, Stage
  <2> HIDE DEF x
  <2> QED
    BY <1>1, <1>2, <1>3, <2>1, <2>2, ReturnTold
<1>9. CASE WwwSent(t)
  <2> DEFINE s == SentReq(hreq[t], Len(fbuf))
             o == SentOut(hout[t], fbuf)
             x == <<s, o>>
  <2>1. hpc[t] = "send"
        /\ ((s.left = 0 /\ Return(t, x)) \/ Goto(t, "read", hin[t], s, o))
    BY <1>9 DEF WwwSent, SentReq, SentOut
  <2>2. o.ended /\ (o.hid \/ o.len = <<Size(s)>>) /\ Len(o.body) = Size(s) - s.left
        /\ Size(s) \in Nat
    BY <2>1, SentFacts
  <2>3. x[1] = s /\ x[2] = o
    OBVIOUS
  <2> HIDE DEF s, o, x
  <2>4. s.left = 0 => FullAnswer(x[2])
    BY <2>2, <2>3 DEF FullAnswer
  <2> QED
    BY <1>1, <1>2, <1>3, <2>1, <2>4, ReturnTold
<1>10. CASE WwwCut(t)
  BY <1>1, <1>2, <1>10, CloseTold DEF WwwCut
<1>11. CASE WwwAccept(t)
  <2>1. Close(t) \/ \E r, o : Goto(t, "ws", hin[t], r, o)
    BY <1>11 DEF WwwAccept
  <2> QED
    BY <1>1, <1>2, <1>3, <2>1, CloseTold
<1>12. CASE WwwEchoEnds(t)
  BY <1>1, <1>2, <1>12, CloseTold DEF WwwEchoEnds
<1> QED
  BY <1>5, <1>6, <1>7, <1>8, <1>9, <1>10, <1>11, <1>12

\* The API: its answers have no body, and the status lines fit.
LEMMA ApiTold ==
  ASSUME HttpIInv, Told, NEW t \in HttpTasks, ApiAnswer(t)
  PROVE  Told'
<1> DEFINE code == ApiCode(hreq[t])
<1>1. HttpTypes /\ hreq[t] \in RequestType /\ hout[t] \in AnswerType /\ hcb' = hcb
  BY DEF HttpIInv, HttpTypes, ApiAnswer
<1>2. hout[t] = NoResp /\ hcb[t] = "api" /\ hpc[t] = "call"
  BY DEF HttpIInv, Serving, Stage, ApiAnswer
<1>3. code \in {200, 400, 404}
  <2>1. code # 405
    BY <1>2 DEF Told, Reported
  <2> QED
    BY <2>1 DEF ApiCode
<1>4. PICK x \in SendStatus(hreq[t], hout[t], code, 0) :
          \E y \in IF code = 200 THEN SendHeaderField(x) ELSE {x} :
             \E z \in EndHeader(y) : Return(t, z)
  BY DEF ApiAnswer
<1>5. PICK y \in IF code = 200 THEN SendHeaderField(x) ELSE {x} :
             \E z \in EndHeader(y) : Return(t, z)
  BY <1>4
<1>6. PICK z \in EndHeader(y) : Return(t, z)
  BY <1>5
<1> HIDE DEF code
<1>7. /\ x[1] \in RequestType /\ x[2] \in AnswerType /\ x[2].body = <<>>
      /\ x[1].state = "hdr" => x[2].hid \/ x[2].len = <<0>>
  BY <1>1, <1>2, <1>3, Fresh, Fitting, StatusSent
<1>8. /\ y[1] \in RequestType /\ y[2] \in AnswerType /\ y[2].body = <<>>
      /\ y[1].state = "hdr" => y[2].hid \/ y[2].len = <<0>>
  <2>1. CASE y = x
    BY <1>7, <2>1
  <2>2. CASE y \in SendHeaderField(x)
    BY <1>7, <2>2, FieldSent
  <2> QED
    BY <1>5, <2>1, <2>2
<1>9. /\ z[2].body = <<>> /\ Len(<<>>) = 0
      /\ z[1].state = "done" => z[2].ended /\ (z[2].hid \/ z[2].len = <<0>>)
  BY <1>8, HeaderEnded
<1>10. z[1].state = "done" => FullAnswer(z[2])
  BY <1>9 DEF FullAnswer
<1> QED
  BY <1>1, <1>6, <1>10, ReturnTold

\* Every connection that lives on has got a complete answer, and a body is a
\* part of the requested file, from its start and in order, although all the
\* tasks read through one buffer (UHTTPSrv_SendStatus to UHTTPSrc_SendBody).
THEOREM AnswersWhole == ASSUME NoRefusal PROVE HttpSpec => []AnswerWhole
<1>1. HttpInit => Told
  <2> SUFFICES ASSUME HttpInit, NEW t \in HttpTasks
               PROVE  Reported(hpc[t], hcb[t], hreq[t], hin[t], hout[t])
    BY DEF Told
  <2>1. hpc[t] = "listen" /\ hin[t] = <<>>
    BY DEF HttpInit, HttpStart
  <2>2. Reported("listen", hcb[t], hreq[t], <<>>, hout[t])
    BY DEF Reported
  <2> QED
    BY <2>1, <2>2
<1>2. HttpIInv /\ Told /\ [HttpNext]_hvars => Told'
  <2> SUFFICES ASSUME HttpIInv, Told, [HttpNext]_hvars
               PROVE  Told'
    OBVIOUS
  <2>1. CASE UNCHANGED hvars
    BY <2>1 DEF hvars, Told
  <2>2. ASSUME NEW t \in HttpTasks, HttpStep(t) PROVE Told'
    BY <2>2, ServeTold, WebsiteTold, ApiTold DEF HttpStep
  <2> QED
    BY <2>1, <2>2 DEF HttpNext
<1>3. HttpIInv /\ Told => AnswerWhole
  <2> SUFFICES ASSUME HttpIInv, Told, NEW t \in HttpTasks
               PROVE  /\ hpc[t] = "line" /\ hout[t] # NoResp =>
                           hout[t].hid \/ (hout[t].ended /\ hout[t].len = <<Len(hout[t].body)>>)
                      /\ hout[t].body = <<>> \/
                           hout[t].body = Bytes(FName(hreq[t].url), 0, Len(hout[t].body))
    BY DEF AnswerWhole
  <2>1. hpc[t] = "line" /\ hout[t] # NoResp => FullAnswer(hout[t])
    BY DEF Told, Reported
  <2>2. hout[t].body = Bytes(FName(hreq[t].url), 0, Len(hout[t].body))
    BY DEF HttpIInv, Serving, Stage
  <2> QED
    BY <2>1, <2>2 DEF FullAnswer
<1> QED
  BY <1>1, <1>2, <1>3, HttpInvariant, PTL DEF HttpSpec

-----------------------------------------------------------------------------
(* Requests and bodies, for clients that send proper requests.             *)

\* What is still to be read where task t is.
Followed(pc, c, r, in) ==
  /\ pc = "line" => in = <<>> \/ Proper(c, in)
  /\ pc = "call" =>
      \/ r.state = "error"
      \/ /\ r.state = "fields"
         /\ \E n \in 1 .. Len(in) : /\ Remains(in, n, r.body)
                                    /\ c = "api" /\ ApiCode(r) = 200 => n = Len(in)
      \/ r.state = "body" /\ Len(in) = r.body /\ (c = "api" => ApiCode(r) # 200)
      \/ r.state = "status" /\ in = <<>>
  /\ pc \in Holding => r.state = "error" \/ in = <<>>
Consumed == \A t \in HttpTasks : Followed(hpc[t], hcb[t], hreq[t], hin[t])

\* A task goes on.
LEMMA GotoConsumed ==
  ASSUME HttpTypes, Consumed, NEW t \in HttpTasks, NEW pc, NEW in, NEW r, NEW o,
         Goto(t, pc, in, r, o), hcb' = hcb, Followed(pc, hcb[t], r, in)
  PROVE  Consumed'
<1> SUFFICES ASSUME NEW u \in HttpTasks
             PROVE  Followed(hpc'[u], hcb[u], hreq'[u], hin'[u])
  BY DEF Consumed
<1>1. CASE u = t
  BY <1>1, Moved
<1>2. CASE u # t
  BY <1>2, Moved DEF Consumed
<1> QED
  BY <1>1, <1>2

\* A connection is closed.
LEMMA CloseConsumed ==
  ASSUME HttpTypes, Consumed, NEW t \in HttpTasks, Close(t), hcb' = hcb
  PROVE  Consumed'
<1> DEFINE r == Request(None, None)
<1>1. Goto(t, "listen", <<>>, r, NoResp)
  BY DEF Close
<1>2. Followed("listen", hcb[t], r, <<>>)
  BY DEF Followed, Holding
<1> HIDE DEF r
<1> QED
  BY <1>1, <1>2, GotoConsumed

\* A callback returns, with nothing left to read if the connection lives on.
LEMMA ReturnConsumed ==
  ASSUME HttpTypes, Consumed, NEW t \in HttpTasks, NEW x, Return(t, x), hcb' = hcb,
         x[1].state = "done" => hin[t] = <<>>
  PROVE  Consumed'
<1>1. CASE x[1].state = "done"
  <2> DEFINE r == Request(x[1].method, x[1].url)
  <2>1. Goto(t, "line", hin[t], r, x[2])
    BY <1>1 DEF Return
  <2>2. Followed("line", hcb[t], r, hin[t])
    BY <1>1 DEF Followed, Holding
  <2> HIDE DEF r
  <2> QED
    BY <2>1, <2>2, GotoConsumed
<1>2. CASE x[1].state # "done"
  BY <1>2, CloseConsumed DEF Return
<1> QED
  BY <1>1, <1>2

\* Reading a line leaves what remains of the request.
LEMMA RemainsTail ==
  ASSUME NEW q \in Seq(Lines), NEW n \in 2 .. Len(q), NEW b \in Nat, NEW c \in Nat,
         Remains(q, n, b), IF q[1][1] = "len" THEN c = q[1][2] ELSE c = b
  PROVE  Remains(Tail(q), n - 1, c) /\ n - 1 \in 1 .. Len(Tail(q))
         /\ Len(Tail(q)) - (n - 1) = Len(q) - n
<1> DEFINE p == Tail(q)
<1>0. q # <<>> /\ Len(q) \in Nat /\ n \in Nat /\ n >= 2 /\ n <= Len(q)
  OBVIOUS
<1>1. p \in Seq(Lines) /\ Len(p) = Len(q) - 1 /\ \A i \in 1 .. Len(p) : p[i] = q[i + 1]
  BY <1>0, HeadTailProperties
<1> HIDE DEF p
<1>2. n - 1 \in 1 .. Len(p) /\ Len(p) - (n - 1) = Len(q) - n
  BY <1>0, <1>1
<1>3. \A i \in 1 .. n - 1 : p[i] = q[i + 1]
  BY <1>0, <1>1
<1>4. \A i \in 1 .. (n - 1) - 1 : p[i] = q[i + 1] /\ i + 1 \in 1 .. n - 1
  BY <1>0, <1>3
<1>5. p[n - 1] = q[n]
  <2>1. n - 1 \in 1 .. n - 1 /\ (n - 1) + 1 = n
    BY <1>0
  <2> QED
    BY <1>3, <2>1
<1>6. p[n - 1][1] = "end" /\ (\A i \in 1 .. (n - 1) - 1 : p[i][1] # "end")
      /\ \A i \in 1 .. (n - 1) - 1 : p[i][1] = "len" => p[i][2] = Len(p) - (n - 1)
  BY <1>2, <1>4, <1>5 DEF Remains
<1>7. c = Len(q) - n \/ (c = 0 /\ \E i \in 1 .. (n - 1) - 1 : p[i][1] = "len")
  <2>1. 1 \in 1 .. n - 1
    BY <1>0
  <2>2. CASE q[1][1] = "len"
    BY <2>1, <2>2 DEF Remains
  <2>3. CASE q[1][1] # "len" /\ b # Len(q) - n
    <3>1. PICK i \in 1 .. n - 1 : q[i][1] = "len"
      BY <2>3 DEF Remains
    <3>2. i # 1
      BY <2>3, <3>1
    <3>3. i - 1 \in 1 .. (n - 1) - 1 /\ (i - 1) + 1 = i
      BY <1>0, <3>2
    <3>4. p[i - 1][1] = "len"
      BY <1>4, <3>1, <3>3
    <3>5. c = 0
      BY <2>3 DEF Remains
    <3> QED
      BY <3>3, <3>4, <3>5
  <2>4. CASE q[1][1] # "len" /\ b = Len(q) - n
    BY <2>4
  <2> QED
    BY <2>2, <2>3, <2>4
<1>8. Remains(p, n - 1, c)
  BY <1>2, <1>6, <1>7 DEF Remains
<1> QED
  BY <1>2, <1>8 DEF p

\* UHTTPSrv_ServeTask: a request arrives, and its first line is read.
LEMMA ServeConsumed ==
  ASSUME WellFormed, HttpIInv, Consumed, NEW t \in HttpTasks,
         Listen(t) \/ Ask(t) \/ ServeRequest(t) \/ ServeDrop(t)
  PROVE  Consumed'
<1>1. HttpTypes /\ hin[t] \in Seq(Lines) /\ hreq[t] \in RequestType /\ hcb[t] \in {"www", "api"}
  BY DEF HttpIInv, HttpTypes
<1>2. hcb' = hcb /\ Followed(hpc[t], hcb[t], hreq[t], hin[t])
  BY DEF Listen, Ask, ServeRequest, ServeDrop, Consumed
<1>3. CASE Listen(t)
  <2>1. Goto(t, "line", <<>>, hreq[t], NoResp)
    BY <1>3 DEF Listen
  <2>2. Followed("line", hcb[t], hreq[t], <<>>)
    BY DEF Followed, Holding
  <2> QED
    BY <1>1, <1>2, <2>1, <2>2, GotoConsumed
<1>4. CASE Ask(t)
  <2>1. PICK q \in Requests[hcb[t]] : hin' = [hin EXCEPT ![t] = q]
    BY <1>4 DEF Ask
  <2>2. hpc[t] = "line" /\ UNCHANGED <<hpc, hreq>>
    BY <1>4 DEF Ask
  <2>3. hin'[t] = q /\ \A u \in HttpTasks \ {t} : hin'[u] = hin[u]
    BY <1>1, <2>1 DEF HttpTypes
  <2>4. Followed(hpc[t], hcb[t], hreq[t], q)
    BY <1>1, <2>1, <2>2 DEF Followed, Holding, WellFormed
  <2> QED
    BY <1>2, <2>2, <2>3, <2>4 DEF Consumed
<1>5. CASE ServeRequest(t)
  <2> DEFINE q == hin[t]
             l == Head(q)
             r == Request(l[2], l[3])
  <2>1. Goto(t, "call", Tail(q), r, NoResp) /\ q # <<>> /\ hpc[t] = "line"
    BY <1>5 DEF ServeRequest
  <2>2. l = q[1] /\ Len(q) \in Nat /\ q \in Seq(Lines)
    BY <1>1, <2>1
  <2>3. PICK n \in 2 .. Len(q) :
           /\ Remains(q, n, 0) /\ q[1][1] = "req"
           /\ hcb[t] = "api" /\ q[1][2] = "OPTIONS" /\ q[1][3] = "/" => n = Len(q)
    BY <1>2, <2>1 DEF Followed, Proper
  <2>4. r.state = "fields" /\ r.body = 0 /\ r.method = l[2] /\ r.url = l[3]
    BY DEF Request
  <2> HIDE DEF q, l, r
  <2>5. Remains(Tail(q), n - 1, 0) /\ n - 1 \in 1 .. Len(Tail(q))
        /\ Len(Tail(q)) - (n - 1) = Len(q) - n
    BY <2>2, <2>3, RemainsTail
  <2>6. ApiCode(r) = 200 => r.url = "/" /\ r.method = "OPTIONS"
    BY DEF ApiCode
  <2>7. hcb[t] = "api" /\ ApiCode(r) = 200 => n - 1 = Len(Tail(q))
    <3>1. Tail(q) \in Seq(Lines) /\ Len(Tail(q)) = Len(q) - 1
      BY <2>1, <2>2, HeadTailProperties
    <3>2. hcb[t] = "api" /\ ApiCode(r) = 200 => n = Len(q)
      BY <2>2, <2>3, <2>4, <2>6
    <3> QED
      BY <2>2, <3>1, <3>2
  <2>8. Followed("call", hcb[t], r, Tail(q))
    BY <2>4, <2>5, <2>7 DEF Followed, Holding
  <2> QED
    BY <1>1, <1>2, <2>1, <2>8, GotoConsumed
<1>6. CASE ServeDrop(t)
  BY <1>1, <1>2, <1>6, CloseConsumed DEF ServeDrop
<1> QED
  BY <1>3, <1>4, <1>5, <1>6

\* UHTTPSrv_ReadHeaderField: the empty line is followed by as many bytes as the
\* length field said.
LEMMA FieldsConsumed ==
  ASSUME HttpIInv, Consumed, NEW t \in HttpTasks, ReadFields(t)
  PROVE  Consumed'
<1> DEFINE q == hin[t]
           l == Head(q)
           e == [hreq[t] EXCEPT !.state = "error"]
           r == ReadHeaderField(hreq[t], l)
<1>1. HttpTypes /\ q \in Seq(Lines) /\ hreq[t] \in RequestType /\ hreq[t].body \in Nat
      /\ Len(q) \in Nat
  BY DEF HttpIInv, HttpTypes, RequestType
<1>2. hcb' = hcb /\ hpc[t] = "call" /\ hreq[t].state = "fields"
      /\ Followed("call", hcb[t], hreq[t], q)
  BY DEF ReadFields, Consumed
<1>3. CASE Goto(t, "call", q, e, NoResp)
  <2>1. e.state = "error"
    BY <1>1 DEF RequestType
  <2> HIDE DEF e, q
  <2>2. Followed("call", hcb[t], e, q)
    BY <2>1 DEF Followed, Holding
  <2> QED
    BY <1>1, <1>2, <1>3, <2>2, GotoConsumed
<1>4. CASE Close(t)
  BY <1>1, <1>2, <1>4, CloseConsumed
<1>5. CASE q # <<>> /\ Goto(t, "call", Tail(q), r, NoResp)
  <2>1. l \in Lines /\ l = q[1] /\ Tail(q) \in Seq(Lines) /\ Len(Tail(q)) = Len(q) - 1
    BY <1>1, <1>5, HeadTailProperties
  <2>2. PICK n \in 1 .. Len(q) : /\ Remains(q, n, hreq[t].body)
                                 /\ hcb[t] = "api" /\ ApiCode(hreq[t]) = 200 => n = Len(q)
    BY <1>2 DEF Followed
  <2>3. /\ r \in RequestType /\ r.url = hreq[t].url /\ r.method = hreq[t].method
        /\ l[1] = "end" => r.body = hreq[t].body
                           /\ r.state = IF hreq[t].body > 0 THEN "body" ELSE "status"
        /\ l[1] # "end" => \/ r.state = "error"
                           \/ /\ r.state = hreq[t].state
                              /\ r.body = IF l[1] = "len" THEN l[2] ELSE hreq[t].body
    BY <1>1, <2>1, HeaderRead
  <2>4. ApiCode(r) = ApiCode(hreq[t])
    BY <2>3 DEF ApiCode
  <2> DEFINE p == Tail(q)
             b == hreq[t].body
  <2> HIDE DEF q, l, r, p, b
  <2>5. CASE l[1] = "end"
    <3>1. n = 1
      <4>1. 1 \in 1 .. n - 1 => q[1][1] # "end"
        BY <2>2 DEF Remains
      <4>2. q[1][1] = "end"
        BY <2>1, <2>5
      <4>3. n \in Nat /\ 1 <= n
        BY <1>1
      <4> QED
        BY <4>1, <4>2, <4>3
    <3>2. b = Len(q) - 1
      <4>1. ~ \E i \in 1 .. n - 1 : TRUE
        BY <3>1
      <4>2. b = Len(q) - n
        BY <2>2, <4>1 DEF Remains, b
      <4> QED
        BY <3>1, <4>2
    <3>3. r.body = b /\ r.state = (IF b > 0 THEN "body" ELSE "status") /\ Len(p) = b /\ b \in Nat
          /\ p \in Seq(Lines)
      BY <1>1, <2>1, <2>3, <2>5, <3>2 DEF p, b
    <3>4. b > 0 => (hcb[t] = "api" => ApiCode(r) # 200)
      <4>1. Len(q) \in Nat /\ (b > 0 => n # Len(q))
        BY <1>1, <2>1, <3>1, <3>2
      <4>2. hcb[t] = "api" /\ ApiCode(hreq[t]) = 200 => n = Len(q)
        BY <2>2
      <4> QED
        BY <2>4, <4>1, <4>2
    <3>5. ~(b > 0) => p = <<>>
      BY <3>3, EmptySeq
    <3>6. Followed("call", hcb[t], r, p)
      <4>1. CASE b > 0
        BY <3>3, <3>4, <4>1 DEF Followed, Holding
      <4>2. CASE ~(b > 0)
        BY <3>3, <3>5, <4>2 DEF Followed, Holding
      <4> QED
        BY <4>1, <4>2
    <3> QED
      BY <1>1, <1>2, <1>5, <3>6, GotoConsumed DEF p
  <2>6. CASE l[1] # "end" /\ r.state = "error"
    <3>1. Followed("call", hcb[t], r, p)
      BY <2>6 DEF Followed, Holding
    <3> QED
      BY <1>1, <1>2, <1>5, <3>1, GotoConsumed DEF p
  <2>7. CASE l[1] # "end" /\ r.state # "error"
    <3>1. n # 1
      BY <2>1, <2>2, <2>7 DEF Remains
    <3>2. n \in 2 .. Len(q) /\ n \in Nat
      BY <1>1, <2>2, <3>1
    <3>3. r.state = "fields" /\ r.body = (IF q[1][1] = "len" THEN q[1][2] ELSE b) /\ r.body \in Nat
          /\ b \in Nat
      BY <1>1, <1>2, <2>1, <2>3, <2>7 DEF RequestType, b
    <3>4. Remains(q, n, b)
      BY <2>2 DEF b
    <3>5. Remains(p, n - 1, r.body) /\ n - 1 \in 1 .. Len(p) /\ Len(p) - (n - 1) = Len(q) - n
      BY <1>1, <3>2, <3>3, <3>4, RemainsTail DEF p
    <3>6. hcb[t] = "api" /\ ApiCode(r) = 200 => n - 1 = Len(p)
      BY <1>1, <2>1, <2>2, <2>4, <3>2 DEF p
    <3>7. Followed("call", hcb[t], r, p)
      BY <3>3, <3>5, <3>6 DEF Followed, Holding
    <3> QED
      BY <1>1, <1>2, <1>5, <3>7, GotoConsumed DEF p
  <2> QED
    BY <2>5, <2>6, <2>7
<1> QED
  BY <1>3, <1>4, <1>5 DEF ReadFields

\* UHTTPSrv_DropBody: the body is gone.
LEMMA BodyConsumed ==
  ASSUME HttpIInv, Consumed, NEW t \in HttpTasks, DropBody(t)
  PROVE  Consumed'
<1> DEFINE q == hin[t]
           e == [hreq[t] EXCEPT !.state = "error"]
           n == IF hreq[t].state = "body" THEN hreq[t].body ELSE 0
           b == ReadBody(hreq[t], n)
           r == [b EXCEPT !.read = TRUE]
           in == SubSeq(q, n + 1, Len(q))
<1>1. HttpTypes /\ q \in Seq(Lines) /\ hreq[t] \in RequestType /\ n \in Nat /\ Len(q) \in Nat
  BY DEF HttpIInv, HttpTypes, RequestType
<1>2. hcb' = hcb /\ hpc[t] = "call" /\ hreq[t].state \in {"body", "status"}
      /\ Followed("call", hcb[t], hreq[t], q)
  BY DEF DropBody, WantsBody, Consumed
<1>3. CASE Goto(t, "call", q, e, NoResp)
  <2>1. e.state = "error"
    BY <1>1 DEF RequestType
  <2> HIDE DEF e, q
  <2>2. Followed("call", hcb[t], e, q)
    BY <2>1 DEF Followed, Holding
  <2> QED
    BY <1>1, <1>2, <1>3, <2>2, GotoConsumed
<1>4. CASE Goto(t, "call", in, r, NoResp)
  <2>1. b \in RequestType /\ (hreq[t].state = "body" => b.state = "status")
        /\ (hreq[t].state # "body" => b.state = "error")
    BY <1>1, BodyRead
  <2> HIDE DEF b
  <2>2. r.state = b.state
    BY <2>1 DEF RequestType
  <2>3. hreq[t].state = "body" => in = <<>>
    <3> SUFFICES ASSUME hreq[t].state = "body" PROVE in = <<>>
      OBVIOUS
    <3>1. Len(q) = n
      BY <1>2 DEF Followed
    <3> HIDE DEF n
    <3>2. Len(q) < n + 1 /\ n + 1 \in Int /\ Len(q) \in Int
      BY <1>1, <3>1
    <3> QED
      BY <3>2, SubSeqEmpty
  <2> HIDE DEF r, in, q, n
  <2>4. Followed("call", hcb[t], r, in)
    BY <1>2, <2>1, <2>2, <2>3 DEF Followed, Holding
  <2> QED
    BY <1>1, <1>2, <1>4, <2>4, GotoConsumed
<1> QED
  BY <1>3, <1>4 DEF DropBody

\* The web site: a callback that is not in error has read its whole request,
\* so the connection lives on with nothing left in it.
LEMMA WebsiteConsumed ==
  ASSUME HttpIInv, Consumed, NEW t \in HttpTasks,
         \/ WwwFiles(t) \/ WwwLock(t) \/ WwwHead(t) \/ WwwRead(t) \/ WwwSent(t) \/ WwwCut(t)
         \/ WwwAccept(t) \/ WwwEchoEnds(t)
  PROVE  Consumed'
<1>1. HttpTypes /\ hreq[t] \in RequestType /\ hout[t] \in AnswerType
  BY DEF HttpIInv, HttpTypes
<1>2. hcb' = hcb /\ Followed(hpc[t], hcb[t], hreq[t], hin[t])
  BY DEF WwwFiles, WwwLock, WwwHead, WwwRead, WwwSent, WwwCut, WwwAccept, WwwEchoEnds, Consumed
<1>3. ASSUME NEW pc \in {"lock", "read", "head", "send", "ws"}, NEW r, NEW o,
             Goto(t, pc, hin[t], r, o), pc # "ws" => r.state = "error" \/ hin[t] = <<>>
      PROVE  Consumed'
  <2>1. Followed(pc, hcb[t], r, hin[t])
    BY <1>3 DEF Followed, Holding
  <2> QED
    BY <1>1, <1>2, <1>3, <2>1, GotoConsumed
<1>4. hpc[t] \in Holding => hreq[t].state = "error" \/ hin[t] = <<>>
  BY <1>2 DEF Followed
<1>5. hpc[t] \in {"read", "send"} => hreq[t].state = "data" /\ hpc[t] \in Holding
  BY DEF HttpIInv, Serving, Stage, Holding
<1>6. CASE WwwFiles(t)
  <2> DEFINE u == FName(hreq[t].url)
             fp == FFS_Open(u)
             size == IF fp = 0 THEN 0 ELSE Files[u]
             code == IF fp = 0 THEN 404 ELSE 200
             r == [hreq[t] EXCEPT !.fp = fp, !.left = size]
  <2>1. PICK x \in SendStatus(r, hout[t], code, size) :
           \E y \in SendHeaderField(x) : Goto(t, "lock", hin[t], y[1], y[2])
    BY <1>6 DEF WwwFiles
  <2>2. PICK y \in SendHeaderField(x) : Goto(t, "lock", hin[t], y[1], y[2])
    BY <2>1
  <2>3. fp \in 0 .. PoolSize /\ (fp # 0 => u \in DOMAIN Files)
    BY OpenFree
  <2>4. size \in Nat /\ code \in Nat
    BY <2>3, HttpAssumption
  <2> HIDE DEF fp, size, code
  <2>5. r \in RequestType /\ r.state = hreq[t].state
    BY <1>1, <2>3, <2>4 DEF RequestType
  <2> HIDE DEF r
  <2>6. x[1] \in RequestType /\ x[2] \in AnswerType /\ (x[1].state = "hdr" => hreq[t].state # "error")
    BY <1>1, <2>4, <2>5, StatusSent
  <2>7. y[1].state \in {"hdr", "error"} /\ (y[1].state = "hdr" => hreq[t].state # "error")
    BY <2>6, FieldSent
  <2>8. hpc[t] = "call" /\ hreq[t].state \in {"status", "error"}
    BY <1>6 DEF WwwFiles, Reads
  <2>9. y[1].state = "error" \/ hin[t] = <<>>
    BY <1>2, <2>7, <2>8 DEF Followed
  <2> QED
    BY <1>3, <2>2, <2>9
<1>7. CASE WwwLock(t)
  <2>1. Goto(t, "head", hin[t], hreq[t], hout[t])
    <3>1. hin = [hin EXCEPT ![t] = hin[t]] /\ hreq = [hreq EXCEPT ![t] = hreq[t]]
          /\ hout = [hout EXCEPT ![t] = hout[t]]
      BY <1>1 DEF HttpTypes
    <3> QED
      BY <1>7, <3>1 DEF WwwLock, Goto
  <2>2. hreq[t].state = "error" \/ hin[t] = <<>>
    BY <1>4, <1>7 DEF WwwLock, Holding
  <2> QED
    BY <1>3, <2>1, <2>2
<1>8. CASE WwwHead(t)
  <2> DEFINE a == <<hreq[t], hout[t]>>
  <2>1. PICK x \in SendHeaderField(a) : \E y \in EndHeader(x) :
           Return(t, y) \/ Goto(t, "read", hin[t], y[1], y[2])
    BY <1>8 DEF WwwHead
  <2>2. PICK y \in EndHeader(x) : Return(t, y) \/ Goto(t, "read", hin[t], y[1], y[2])
    BY <2>1
  <2>3. a[1] = hreq[t] /\ a[2] = hout[t]
    OBVIOUS
  <2> HIDE DEF a
  <2>4. x[1] \in RequestType /\ x[2] = hout[t] /\ (x[1].state = "hdr" => hreq[t].state = "hdr")
    BY <1>1, <2>3, FieldSent
  <2>5. y[1].state # "error" => hreq[t].state = "hdr"
    BY <1>1, <2>4, HeaderEnded
  <2>6. hpc[t] \in Holding
    BY <1>8 DEF WwwHead, Holding
  <2>7. y[1].state = "error" \/ hin[t] = <<>>
    BY <1>4, <2>5, <2>6
  <2> QED
    BY <1>1, <1>2, <1>3, <2>2, <2>7, ReturnConsumed
<1>9. CASE WwwRead(t)
  <2> DEFINE x == <<hreq[t], hout[t]>>
  <2>1. Return(t, x) \/ Goto(t, "send", hin[t], hreq[t], hout[t])
    BY <1>9 DEF WwwRead
  <2>2. hin[t] = <<>>
    BY <1>4, <1>5, <1>9 DEF WwwRead
  <2> HIDE DEF x
  <2> QED
    BY <1>1, <1>2, <1>3, <2>1, <2>2, ReturnConsumed
<1>10. CASE WwwSent(t)
  <2> DEFINE s == SentReq(hreq[t], Len(fbuf))
             o == SentOut(hout[t], fbuf)
             x == <<s, o>>
  <2>1. Return(t, x) \/ Goto(t, "read", hin[t], s, o)
    BY <1>10 DEF WwwSent, SentReq, SentOut
  <2>2. hin[t] = <<>>
    BY <1>4, <1>5, <1>10 DEF WwwSent
  <2> HIDE DEF s, o, x
  <2> QED
    BY <1>1, <1>2, <1>3, <2>1, <2>2, ReturnConsumed
<1>11. CASE WwwCut(t)
  BY <1>1, <1>2, <1>11, CloseConsumed DEF WwwCut
<1>12. CASE WwwAccept(t)
  <2>1. Close(t) \/ \E r, o : Goto(t, "ws", hin[t], r, o)
    BY <1>12 DEF WwwAccept
  <2> QED
    BY <1>1, <1>2, <1>3, <2>1, CloseConsumed
<1>13. CASE WwwEchoEnds(t)
  BY <1>1, <1>2, <1>13, CloseConsumed DEF WwwEchoEnds
<1> QED
  BY <1>6, <1>7, <1>8, <1>9, <1>10, <1>11, <1>12, <1>13

\* The API: an answer that is done was made after the body was read, or to a
\* request that has none.
LEMMA ApiConsumed ==
  ASSUME HttpIInv, Consumed, NEW t \in HttpTasks, ApiAnswer(t)
  PROVE  Consumed'
<1> DEFINE code == ApiCode(hreq[t])
<1>1. HttpTypes /\ hreq[t] \in RequestType /\ hout[t] \in AnswerType /\ hcb' = hcb
      /\ hcb[t] = "api" /\ hpc[t] = "call"
  BY DEF HttpIInv, HttpTypes, ApiAnswer
<1>2. Followed("call", "api", hreq[t], hin[t])
  BY <1>1 DEF Consumed
<1>3. hreq[t].state = "error" \/ hin[t] = <<>>
  <2>1. \/ hreq[t].state \in {"status", "error"}
        \/ hreq[t].state = "body" /\ ApiCode(hreq[t]) = 200
    BY DEF ApiAnswer
  <2> QED
    BY <1>2, <2>1 DEF Followed
<1>4. PICK x \in SendStatus(hreq[t], hout[t], code, 0) :
          \E y \in IF code = 200 THEN SendHeaderField(x) ELSE {x} :
             \E z \in EndHeader(y) : Return(t, z)
  BY DEF ApiAnswer
<1>5. PICK y \in IF code = 200 THEN SendHeaderField(x) ELSE {x} :
             \E z \in EndHeader(y) : Return(t, z)
  BY <1>4
<1>6. PICK z \in EndHeader(y) : Return(t, z)
  BY <1>5
<1>7. code \in Nat
  BY DEF ApiCode
<1> HIDE DEF code
<1>8. x[1] \in RequestType /\ x[2] \in AnswerType /\ (x[1].state = "hdr" => hreq[t].state # "error")
  BY <1>1, <1>7, StatusSent
<1>9. y[1] \in RequestType /\ y[2] \in AnswerType /\ (y[1].state = "hdr" => hreq[t].state # "error")
  <2>1. CASE y = x
    BY <1>8, <2>1
  <2>2. CASE y \in SendHeaderField(x)
    BY <1>8, <2>2, FieldSent
  <2> QED
    BY <1>5, <2>1, <2>2
<1>10. z[1].state = "done" => hreq[t].state # "error"
  BY <1>9, HeaderEnded
<1> QED
  BY <1>1, <1>3, <1>6, <1>10, ReturnConsumed

\* Keep-alive: the next line a serving task reads as a request line is one,
\* however the previous request was answered (UHTTPSrv_ServeTask, the DropBody
\* calls of the callbacks).
THEOREM BodiesConsumed == ASSUME WellFormed PROVE HttpSpec => []InSync
<1>1. HttpInit => Consumed
  <2> SUFFICES ASSUME HttpInit, NEW t \in HttpTasks
               PROVE  Followed(hpc[t], hcb[t], hreq[t], hin[t])
    BY DEF Consumed
  <2>1. hpc[t] = "listen"
    BY DEF HttpInit, HttpStart
  <2>2. Followed("listen", hcb[t], hreq[t], hin[t])
    BY DEF Followed, Holding
  <2> QED
    BY <2>1, <2>2
<1>2. HttpIInv /\ Consumed /\ [HttpNext]_hvars => Consumed'
  <2> SUFFICES ASSUME HttpIInv, Consumed, [HttpNext]_hvars
               PROVE  Consumed'
    OBVIOUS
  <2>1. CASE UNCHANGED hvars
    BY <2>1 DEF hvars, Consumed
  <2>2. ASSUME NEW t \in HttpTasks, HttpStep(t) PROVE Consumed'
    BY <2>2, ServeConsumed, FieldsConsumed, BodyConsumed, WebsiteConsumed, ApiConsumed DEF HttpStep
  <2> QED
    BY <2>1, <2>2 DEF HttpNext
<1>3. HttpIInv /\ Consumed => InSync
  <2> SUFFICES ASSUME HttpIInv, Consumed, NEW t \in HttpTasks, hpc[t] = "line", hin[t] # <<>>
               PROVE  Head(hin[t])[1] = "req"
    BY DEF InSync
  <2>1. hin[t] \in Seq(Lines) /\ hin[t][1][1] = "req"
    BY DEF HttpIInv, HttpTypes, Consumed, Followed, Proper
  <2> QED
    BY <2>1, HeadTailProperties
<1> QED
  BY <1>1, <1>2, <1>3, HttpInvariant, PTL DEF HttpSpec

-----------------------------------------------------------------------------
(* Websockets: where a frame starts and ends.                               *)

\* What follows the first k bytes of frame f.
After(f, k) == IF k = FrameLen(f) THEN <<f + 1, 0>> ELSE <<f, k>>
\* The byte Recv reads next.
First(w, s) == IF w = <<>> THEN s ELSE w[1]
Ahead == First(win, wsent)

WsFrames == 1 .. Len(wpeer)
DataOps == {"text", "bin"}
RxType == [f : Nat, size : Nat, offs : Nat, op : WsOps \cup {"none"}]

WsPlaces == {"open", "recv", "hdr", "more", "pay", "send", "chdr", "cmore", "end"}

WsValues(pc, st, x, need, b, w, s) ==
  /\ pc \in WsPlaces /\ st \in {"open", "closed"} /\ (pc \notin {"open", "end"} => st = "open")
  /\ x \in RxType /\ need \in Nat /\ b \in Seq(Nat \X Nat)
  /\ w \in Seq(Nat \X Nat) /\ s \in Nat \X Nat
WsTypes ==
  /\ WsPlace /\ wpeer \in WsScripts
  /\ WsValues(wpc, wstate, wrx, wneed, wbuf, win, wsent)

\* The bytes w follow each other, up to byte s that comes next.
Follow(w, s) ==
  /\ \A i \in 1 .. Len(w) : w[i][1] \in WsFrames /\ w[i][2] < FrameLen(w[i][1])
  /\ \A i \in 1 .. Len(w) :
        After(w[i][1], w[i][2] + 1) = IF i = Len(w) THEN s ELSE w[i + 1]
  /\ s[1] \in 1 .. Len(wpeer) + 1
  /\ s[2] # 0 => s[1] \in WsFrames /\ s[2] < FrameLen(s[1])
WsStream == Follow(win, wsent)

\* rx_size and rx_opcode are those of frame x.f, which has the right mask bit.
Current(x) == /\ x.f \in WsFrames /\ x.size = wpeer[x.f].n /\ x.op = wpeer[x.f].op
              /\ wpeer[x.f].right

\* Between two calls of Recv: a frame was read to its end, or a part of it. The
\* next byte is p.
Between(x, p) ==
  IF x.offs = x.size THEN p[2] = 0
  ELSE /\ Current(x) /\ x.op \in DataOps /\ x.offs < x.size
       /\ p = After(x.f, HdrLen(x.f) + x.offs)

\* While the payload is read: b has what was taken of it, need bytes are left.
Paying(x, need, b, p) ==
  LET at == x.offs + Len(b)
  IN /\ Current(x) /\ x.op # "cont" /\ at + need <= x.size
     /\ at + need = x.size \/ x.op \in DataOps
     /\ x.op \notin DataOps => x.offs = 0
     /\ p = After(x.f, HdrLen(x.f) + at)
     /\ \A i \in 1 .. Len(b) : b[i] = <<x.f, x.offs + i - 1>>

\* The application has the part b of the frame, the last one that was read.
Handed(x, b) ==
  /\ x.f \in WsFrames /\ Len(b) <= x.offs
  /\ \A i \in 1 .. Len(b) : b[i] = <<x.f, x.offs - Len(b) + i - 1>>

\* How far the frame has come, for each place of the task.
Where(pc, x, need, b, p) ==
  /\ pc \notin {"pay", "send", "end"} => b = <<>>
  /\ pc \notin {"pay", "end"} => need = 0
  /\ pc = "open" => p[2] = 0 /\ x = NoFrame
  /\ pc \in {"hdr", "chdr"} => p[2] = 0
  /\ pc \in {"recv", "send"} => Between(x, p)
  /\ pc \in {"more", "cmore"} => Current(x) /\ x.offs = 0 /\ p = After(x.f, 2)
  /\ pc = "pay" => Paying(x, need, b, p)
  /\ pc = "send" => Handed(x, b)
WsWhere == Where(wpc, wrx, wneed, wbuf, Ahead)

\* The rest of Framed.
Fits(x, need, b) ==
  /\ x.offs <= x.size /\ need <= x.size
  /\ \A i \in 1 .. Len(b) : b[i][1] = x.f \/ x.f = 0

WsIInv == WsTypes /\ WsStream /\ WsWhere /\ Fits(wrx, wneed, wbuf)

\* Quotient and remainder.
LEMMA ModDef ==
  ASSUME NEW a \in Nat, NEW m \in Nat \ {0}
  PROVE  /\ a \div m \in Nat /\ a % m \in 0 .. m - 1
         /\ a = m * (a \div m) + (a % m)
  OBVIOUS

\* There is only one remainder.
LEMMA ModUnique ==
  ASSUME NEW m \in Nat \ {0}, NEW q \in Nat, NEW r \in 0 .. m - 1, NEW p \in Nat, NEW s \in 0 .. m - 1,
         m * q + r = m * p + s
  PROVE  r = s
<1>1. ASSUME NEW x \in Nat, NEW y \in Nat, x < y PROVE m * x + m <= m * y
  <2>1. PICK d \in Nat : y = x + 1 + d
    <3> DEFINE d == y - x - 1
    <3>1. d \in Nat /\ y = x + 1 + d
      BY <1>1
    <3> QED BY <3>1
  <2>2. m * y = m * x + m + m * d
    BY <2>1
  <2>3. m * d \in Nat /\ m * x \in Nat
    OBVIOUS
  <2> QED BY <2>2, <2>3
<1>2. m * q \in Nat /\ m * p \in Nat
  OBVIOUS
<1>3. CASE q < p
  <2>1. m * q + m <= m * p
    BY <1>1, <1>3
  <2> QED BY <1>2, <2>1
<1>4. CASE p < q
  <2>1. m * p + m <= m * q
    BY <1>1, <1>4
  <2> QED BY <1>2, <2>1
<1>5. CASE p = q
  BY <1>2, <1>5
<1> QED BY <1>3, <1>4, <1>5

\* A multiple of the key can be left out.
LEMMA ModAdd ==
  ASSUME NEW a \in Nat, NEW i \in Nat, NEW m \in Nat \ {0}, a % m = 0
  PROVE  (a + i) % m = i % m
<1> DEFINE q == a \div m
           p == i \div m
           t == (a + i) \div m
           r == i % m
           s == (a + i) % m
<1>1. q \in Nat /\ a = m * q
  BY ModDef
<1>2. p \in Nat /\ r \in 0 .. m - 1 /\ i = m * p + r
  BY ModDef
<1>3. t \in Nat /\ s \in 0 .. m - 1 /\ a + i = m * t + s
  <2>1. a + i \in Nat
    OBVIOUS
  <2> QED BY <2>1, ModDef
<1> HIDE DEF q, p, t, r, s
<1>4. m * (q + p) = m * q + m * p /\ q + p \in Nat
  BY <1>1, <1>2
<1>5. m * (q + p) + r = m * t + s
  <2>1. m * q \in Nat /\ m * p \in Nat /\ m * t \in Nat
    BY <1>1, <1>2, <1>3
  <2> QED BY <1>1, <1>2, <1>3, <1>4, <2>1
<1>6. r = s
  <2> DEFINE w == q + p
  <2>1. w \in Nat /\ m * w + r = m * t + s
    BY <1>4, <1>5
  <2> HIDE DEF w
  <2> QED BY <1>2, <1>3, <2>1, ModUnique
<1> QED BY <1>6 DEF r, s

\* The lesser of two numbers is one of them.
LEMMA LesserNat ==
  ASSUME NEW a \in Nat, NEW b \in Nat
  PROVE  /\ Lesser(a, b) \in Nat /\ Lesser(a, b) <= a /\ Lesser(a, b) <= b
         /\ Lesser(a, b) = a \/ Lesser(a, b) = b
BY DEF Lesser

\* A frame is its header and its payload.
LEMMA Lengths ==
  ASSUME WsTypes, NEW f \in WsFrames
  PROVE  /\ wpeer[f] \in WsFrame /\ wpeer[f].n \in Nat /\ wpeer[f].op \in WsOps
         /\ HdrLen(f) \in Nat /\ HdrLen(f) >= 2
         /\ FrameLen(f) \in Nat /\ FrameLen(f) = HdrLen(f) + wpeer[f].n
         /\ More(f) \in Nat
<1>1. wpeer \in Seq(WsFrame) /\ f \in 1 .. Len(wpeer) /\ f \in DOMAIN wpeer
  BY WsAssumption DEF WsTypes, WsFrames
<1>2. wpeer[f] \in WsFrame
  BY <1>1, ElementOfSeq
<1>3. wpeer[f].n \in Nat /\ wpeer[f].op \in WsOps /\ wpeer[f].right \in BOOLEAN
  BY <1>2 DEF WsFrame
<1>4. SizeLen(f) \in Nat /\ KeyLen(f) \in Nat /\ MaskLen \in Nat
  BY WsAssumption DEF SizeLen, KeyLen
<1>5. HdrLen(f) \in Nat /\ HdrLen(f) >= 2
  BY <1>4 DEF HdrLen
<1>6. FrameLen(f) \in Nat /\ FrameLen(f) = HdrLen(f) + wpeer[f].n
  BY <1>3, <1>5 DEF FrameLen
<1>7. More(f) \in Nat
  BY <1>4 DEF More, MoreHeader, MoreHeaderRole
<1> QED BY <1>2, <1>3, <1>5, <1>6, <1>7

\* The header is what RecvHeader reads, when the mask bit is right and the size
\* has less than 64 bits; with 64 bits it is longer.
LEMMA HeaderLength ==
  ASSUME WsTypes, NEW f \in WsFrames, wpeer[f].right
  PROVE  IF wpeer[f].n >= Long THEN HdrLen(f) > 2 + More(f) ELSE HdrLen(f) = 2 + More(f)
<1>1. SizeLen(f) \in Nat /\ KeyLen(f) \in Nat /\ MaskLen \in Nat
  BY WsAssumption DEF SizeLen, KeyLen
<1>2. KeyLen(f) = IF Masked THEN MaskLen ELSE 0
  <2>1. wpeer \in Seq(WsFrame) /\ f \in 1 .. Len(wpeer) /\ f \in DOMAIN wpeer
    BY WsAssumption DEF WsTypes, WsFrames
  <2>2. wpeer[f] \in WsFrame
    BY <2>1, ElementOfSeq
  <2>3. wpeer[f].right = TRUE
    BY <2>2 DEF WsFrame
  <2> QED BY <2>3 DEF KeyLen, Masked
<1>3. wlib = "uhttpsrv" => Masked
  BY DEF WsTypes, WsPlace, Masked
<1>4. More(f) = KeyLen(f) + (IF wpeer[f].n >= Long THEN 4 ELSE SizeLen(f))
  BY <1>1, <1>2, <1>3 DEF More, MoreHeader, MoreHeaderRole
<1>5. wpeer[f].n >= Long => SizeLen(f) = 8
  BY DEF SizeLen
<1> QED BY <1>1, <1>4, <1>5 DEF HdrLen

\* The lengths of the frames depend on nothing that changes.
LEMMA SameLengths ==
  ASSUME UNCHANGED <<wlib, wrole, wpeer>>
  PROVE  /\ \A f : HdrLen(f)' = HdrLen(f) /\ FrameLen(f)' = FrameLen(f) /\ More(f)' = More(f)
         /\ \A f, k : After(f, k)' = After(f, k)
         /\ WsFrames' = WsFrames /\ WsPlace' = WsPlace
<1>1. wlib' = wlib /\ wrole' = wrole /\ wpeer' = wpeer
  OBVIOUS
<1>2. \A f : HdrLen(f)' = HdrLen(f)
  BY <1>1 DEF HdrLen, SizeLen, KeyLen, Masked
<1>3. \A f : FrameLen(f)' = FrameLen(f)
  BY <1>1, <1>2 DEF FrameLen
<1>4. \A f : More(f)' = More(f)
  BY <1>1 DEF More, MoreHeader, MoreHeaderRole, SizeLen, Masked
<1>5. \A f, k : After(f, k)' = After(f, k)
  BY <1>3 DEF After
<1>6. WsFrames' = WsFrames /\ WsPlace' = WsPlace
  BY <1>1 DEF WsFrames, WsPlace
<1> QED BY <1>2, <1>3, <1>4, <1>5, <1>6

\* What is known of each byte that waits in the socket.
LEMMA Waiting ==
  ASSUME WsTypes, WsStream, NEW i \in 1 .. Len(win)
  PROVE  /\ Len(win) \in Nat /\ win[i] \in Nat \X Nat /\ win[i] = <<win[i][1], win[i][2]>>
         /\ win[i][1] \in WsFrames /\ win[i][2] \in Nat /\ win[i][2] < FrameLen(win[i][1])
         /\ After(win[i][1], win[i][2] + 1) = (IF i = Len(win) THEN wsent ELSE win[i + 1])
<1>1. win \in Seq(Nat \X Nat) /\ Len(win) \in Nat
  BY DEF WsTypes, WsValues
<1>2. win[i] \in Nat \X Nat
  BY <1>1
<1>3. win[i] = <<win[i][1], win[i][2]>> /\ win[i][2] \in Nat
  BY <1>2
<1> QED BY <1>1, <1>2, <1>3 DEF WsStream, Follow

\* The bytes that wait are the next ones of the frame, as far as it goes.
LEMMA Run ==
  ASSUME WsTypes, WsStream, win # <<>>, NEW f, NEW k, win[1] = <<f, k>>
  PROVE  /\ f \in WsFrames /\ k \in Nat /\ k < FrameLen(f) /\ Len(win) \in Nat /\ Len(win) >= 1
         /\ \A j \in 1 .. Len(win) : k + j - 1 < FrameLen(f) => win[j] = <<f, k + j - 1>>
         /\ \A m \in 1 .. Len(win) : k + m <= FrameLen(f) =>
               After(f, k + m) = (IF m = Len(win) THEN wsent ELSE win[m + 1])
<1>1. Len(win) \in Nat /\ Len(win) >= 1 /\ 1 \in 1 .. Len(win)
  <2>1. win \in Seq(Nat \X Nat) /\ Len(win) \in Nat
    BY DEF WsTypes, WsValues
  <2>2. Len(win) # 0
    BY <2>1, EmptySeq
  <2> QED BY <2>1, <2>2
<1>2. f \in WsFrames /\ k \in Nat /\ k < FrameLen(f)
  <2>1. win[1][1] = f /\ win[1][2] = k
    OBVIOUS
  <2> QED BY <1>1, <2>1, Waiting
<1>3. FrameLen(f) \in Nat
  BY <1>2, Lengths
<1> DEFINE P(j) == j + 1 <= Len(win) /\ k + j < FrameLen(f) => win[j + 1] = <<f, k + j>>
           S == {j \in Nat : P(j)}
<1>4. 0 \in S
  BY <1>2
<1>5. ASSUME NEW j \in Nat, j \in S PROVE j + 1 \in S
  <2> SUFFICES ASSUME (j + 1) + 1 <= Len(win), k + (j + 1) < FrameLen(f)
               PROVE  win[(j + 1) + 1] = <<f, k + (j + 1)>>
    OBVIOUS
  <2>1. win[j + 1] = <<f, k + j>>
    BY <1>1, <1>2, <1>3, <1>5
  <2>2. j + 1 \in 1 .. Len(win) /\ j + 1 # Len(win)
    BY <1>1
  <2>3. win[j + 1][1] = f /\ win[j + 1][2] = k + j
    BY <2>1
  <2>4. After(f, (k + j) + 1) = win[(j + 1) + 1]
    BY <2>2, <2>3, Waiting
  <2>5. (k + j) + 1 = k + (j + 1) /\ (k + j) + 1 # FrameLen(f)
    BY <1>2, <1>3
  <2> QED BY <2>4, <2>5 DEF After
<1>6. Nat \subseteq S
  <2> HIDE DEF S
  <2> QED BY <1>4, <1>5, NatInduct
<1>7. ASSUME NEW j \in 1 .. Len(win), k + j - 1 < FrameLen(f) PROVE win[j] = <<f, k + j - 1>>
  <2>1. j - 1 \in Nat /\ (j - 1) + 1 = j /\ j <= Len(win) /\ k + (j - 1) = k + j - 1
    BY <1>1, <1>2
  <2>2. P(j - 1)
    BY <1>6, <2>1
  <2> QED BY <1>7, <2>1, <2>2
<1>8. ASSUME NEW m \in 1 .. Len(win), k + m <= FrameLen(f)
      PROVE  After(f, k + m) = (IF m = Len(win) THEN wsent ELSE win[m + 1])
  <2>1. k + m - 1 < FrameLen(f) /\ (k + m - 1) + 1 = k + m
    BY <1>1, <1>2, <1>3, <1>8
  <2>2. win[m] = <<f, k + m - 1>>
    BY <1>7, <2>1
  <2>3. win[m][1] = f /\ win[m][2] = k + m - 1
    BY <2>2
  <2> QED BY <2>1, <2>3, Waiting
<1> QED BY <1>1, <1>2, <1>7, <1>8

\* The first n bytes, or as many as wait, are taken from the socket.
LEMMA Take ==
  ASSUME WsTypes, WsStream, win # <<>>, NEW f, NEW k, win[1] = <<f, k>>,
         NEW n \in Nat, n > 0, k + n <= FrameLen(f)
  PROVE  LET m == Len(Got(n))
         IN /\ m \in 1 .. n /\ m <= Len(win) /\ Got(n) \in Seq(Nat \X Nat)
            /\ \A i \in 1 .. m : Got(n)[i] = <<f, k + i - 1>>
            /\ m = n \/ m = Len(win)
            /\ Rest(n) = SubSeq(win, m + 1, Len(win))
<1> DEFINE m == Lesser(n, Len(win))
<1>1. win \in Seq(Nat \X Nat) /\ Len(win) \in Nat /\ Len(win) >= 1 /\ k \in Nat /\ f \in WsFrames
  BY Run DEF WsTypes, WsValues
<1>2. m \in 1 .. n /\ m <= Len(win) /\ m \in Nat /\ (m = n \/ m = Len(win))
  BY <1>1 DEF Lesser
<1>3. FrameLen(f) \in Nat /\ HdrLen(f) \in Nat
  BY <1>1, Lengths
<1> HIDE DEF m
<1>4. /\ Got(n) = SubSeq(win, 1, m) /\ Got(n) \in Seq(Nat \X Nat) /\ Len(Got(n)) = m
      /\ \A i \in 1 .. m : Got(n)[i] = win[i]
  <2>1. Got(n) = SubSeq(win, 1, m)
    BY DEF Got, m
  <2> QED BY <1>1, <1>2, <2>1
<1>5. ASSUME NEW i \in 1 .. m PROVE Got(n)[i] = <<f, k + i - 1>>
  <2>1. i \in Nat /\ i >= 1 /\ i <= m /\ m \in Nat /\ m <= n
    BY <1>2
  <2>2. i \in 1 .. Len(win)
    BY <1>1, <1>2, <2>1
  <2>3. k + i - 1 < FrameLen(f)
    BY <1>1, <1>3, <2>1
  <2>4. win[i] = <<f, k + i - 1>>
    BY <2>2, <2>3, Run
  <2> QED BY <1>4, <2>4
<1>7. Rest(n) = SubSeq(win, m + 1, Len(win))
  BY DEF Rest, m
<1> QED BY <1>2, <1>4, <1>5, <1>7

\* What is left when the first m bytes were taken follows on.
LEMMA Drop ==
  ASSUME WsTypes, WsStream, win # <<>>, NEW f, NEW k, win[1] = <<f, k>>,
         NEW m \in 1 .. Len(win), k + m <= FrameLen(f)
  PROVE  LET w == SubSeq(win, m + 1, Len(win))
         IN w \in Seq(Nat \X Nat) /\ Follow(w, wsent) /\ First(w, wsent) = After(f, k + m)
<1> DEFINE w == SubSeq(win, m + 1, Len(win))
<1>1. win \in Seq(Nat \X Nat) /\ Len(win) \in Nat /\ Len(win) >= 1 /\ k \in Nat /\ f \in WsFrames
  BY Run DEF WsTypes, WsValues
<1>2. /\ m \in Nat /\ w \in Seq(Nat \X Nat) /\ Len(w) = Len(win) - m /\ Len(w) \in Nat
      /\ \A i \in 1 .. Len(w) : w[i] = win[m + i]
  <2>1. m + 1 \in 1 .. Len(win) + 1 /\ Len(win) \in m .. Len(win) /\ m \in Nat /\ m <= Len(win)
    BY <1>1
  <2>2. w \in Seq(Nat \X Nat) /\ Len(w) = Len(win) - m
    <3>1. w \in Seq(Nat \X Nat)
      BY <1>1, <2>1, SubSeqProperties
    <3>2. Len(w) = (IF m + 1 <= Len(win) THEN Len(win) - (m + 1) + 1 ELSE 0)
      BY <1>1, <2>1, SubSeqProperties
    <3> QED BY <1>1, <2>1, <3>1, <3>2
  <2>3. \A i \in 1 .. Len(win) - m : w[i] = win[m + i]
    BY <1>1, <2>1
  <2> HIDE DEF w
  <2> QED BY <1>1, <2>1, <2>2, <2>3
<1> HIDE DEF w
<1>4. Follow(w, wsent)
  <2>1. ASSUME NEW i \in 1 .. Len(w)
        PROVE  /\ w[i][1] \in WsFrames /\ w[i][2] < FrameLen(w[i][1])
               /\ After(w[i][1], w[i][2] + 1) = (IF i = Len(w) THEN wsent ELSE w[i + 1])
    <3>1. m + i \in 1 .. Len(win) /\ w[i] = win[m + i]
      BY <1>1, <1>2
    <3>2. i = Len(w) <=> m + i = Len(win)
      BY <1>1, <1>2
    <3>3. i # Len(w) => w[i + 1] = win[(m + i) + 1]
      <4>1. i # Len(w) => i + 1 \in 1 .. Len(w) /\ m + (i + 1) = (m + i) + 1
        <5>1. Len(w) \in Nat /\ m \in Nat
          BY <1>2
        <5> QED BY <5>1
      <4> QED BY <1>2, <4>1
    <3> QED BY <3>1, <3>2, <3>3, Waiting
  <2> QED BY <2>1 DEF WsStream, Follow
<1>5. First(w, wsent) = After(f, k + m)
  <2>1. After(f, k + m) = (IF m = Len(win) THEN wsent ELSE win[m + 1])
    BY Run
  <2>2. CASE m = Len(win)
    <3>1. w = <<>>
      BY <1>1, <1>2, <2>2, EmptySeq
    <3> QED BY <2>1, <2>2, <3>1 DEF First
  <2>3. CASE m # Len(win)
    <3>1. Len(w) # 0 /\ 1 \in 1 .. Len(w)
      BY <1>1, <1>2, <2>3
    <3>2. w # <<>> /\ w[1] = win[m + 1]
      BY <1>2, <3>1
    <3> QED BY <2>1, <2>3, <3>2 DEF First
  <2> QED BY <2>2, <2>3
<1> QED BY <1>2, <1>4, <1>5 DEF w

\* Follow is about the bytes only.
LEMMA StreamNext ==
  ASSUME UNCHANGED <<wlib, wrole, wpeer>>, NEW w, NEW s, Follow(w, s), win' = w, wsent' = s
  PROVE  WsStream' /\ Ahead' = First(w, s)
<1>1. wrole' = wrole /\ wpeer' = wpeer
  OBVIOUS
<1>2. Ahead' = First(w, s)
  BY DEF Ahead, First
<1>3. WsStream'
  BY <1>1 DEF WsStream, Follow, After, WsFrames, FrameLen, HdrLen, SizeLen, KeyLen, Masked
<1> QED BY <1>2, <1>3

\* The invariant is about the values of the variables.
LEMMA Settled ==
  ASSUME WsIInv, UNCHANGED <<wlib, wrole, wpeer>>,
         NEW pc, NEW st, NEW x, NEW need, NEW b, NEW w, NEW s,
         wpc' = pc, wstate' = st, wrx' = x, wneed' = need, wbuf' = b, win' = w, wsent' = s,
         WsValues(pc, st, x, need, b, w, s), Follow(w, s),
         Where(pc, x, need, b, First(w, s)), Fits(x, need, b)
  PROVE  WsIInv'
<1>1. WsTypes'
  <2>1. WsPlace' /\ wpeer' \in WsScripts
    BY SameLengths DEF WsIInv, WsTypes
  <2> QED BY <2>1 DEF WsTypes, WsValues
<1>2. WsStream' /\ Ahead' = First(w, s)
  BY StreamNext
<1>3. WsWhere'
  <2>1. wrole' = wrole /\ wpeer' = wpeer
    OBVIOUS
  <2> QED BY <1>2, <2>1 DEF WsWhere, Where, Between, Paying, Handed, Current, After, WsFrames, FrameLen,
             HdrLen, SizeLen, KeyLen, Masked
<1>4. Fits(wrx, wneed, wbuf)'
  BY DEF Fits
<1> QED BY <1>1, <1>2, <1>3, <1>4 DEF WsIInv

\* The parts of the invariant.
LEMMA Parts ==
  ASSUME WsIInv
  PROVE  /\ WsTypes /\ WsStream /\ wpeer \in WsScripts
         /\ WsValues(wpc, wstate, wrx, wneed, wbuf, win, wsent) /\ Follow(win, wsent)
         /\ Where(wpc, wrx, wneed, wbuf, First(win, wsent)) /\ Fits(wrx, wneed, wbuf)
BY DEF WsIInv, WsTypes, WsStream, WsWhere, Ahead

\* NoFrame is a frame that was read to its end.
LEMMA NoFrameType == NoFrame \in RxType /\ NoFrame.f = 0 /\ NoFrame.size = 0 /\ NoFrame.offs = 0
BY DEF NoFrame, RxType

\* The invariant holds before the connection is opened.
LEMMA WsInitInv == WsInit => WsIInv
<1> SUFFICES ASSUME WsInit PROVE WsIInv
  OBVIOUS
<1>1. /\ WsPlace /\ wpeer \in WsScripts /\ wsent = <<1, 0>> /\ win = <<>> /\ wstate = "closed"
      /\ wpc = "open" /\ wrx = NoFrame /\ wneed = 0 /\ wbuf = <<>>
  BY DEF WsInit, WsStart
<1>2. win \in Seq(Nat \X Nat) /\ wbuf \in Seq(Nat \X Nat) /\ Len(win) = 0 /\ Len(wbuf) = 0
  BY <1>1, EmptySeq
<1>3. wsent \in Nat \X Nat /\ wsent[1] = 1 /\ wsent[2] = 0 /\ wsent[1] \in 1 .. Len(wpeer) + 1
  <2>1. wpeer \in Seq(WsFrame) /\ Len(wpeer) \in Nat
    BY <1>1, WsAssumption
  <2> QED BY <1>1, <2>1
<1>4. WsTypes
  BY <1>1, <1>2, <1>3, NoFrameType DEF WsTypes, WsValues, WsPlaces
<1>5. WsStream
  BY <1>2, <1>3 DEF WsStream, Follow
<1>6. WsWhere
  BY <1>1, <1>3 DEF WsWhere, Where, Ahead, First
<1>7. Fits(wrx, wneed, wbuf)
  BY <1>1, <1>2, NoFrameType DEF Fits
<1> QED BY <1>4, <1>5, <1>6, <1>7 DEF WsIInv

\* A step that ends the connection.
LEMMA Ended ==
  ASSUME WsIInv, WsEnd, UNCHANGED <<wlib, wrole, wpeer, wsent, wneed>>,
         NEW x \in RxType, NEW b \in Seq(Nat \X Nat), NEW w \in Seq(Nat \X Nat),
         wrx' = x, wbuf' = b, win' = w, Fits(x, wneed, b), Follow(w, wsent)
  PROVE  WsIInv'
<1>1. wpc' = "end" /\ wstate' = "closed" /\ wsent' = wsent /\ wneed' = wneed
  BY DEF WsEnd
<1>2. WsValues("end", "closed", x, wneed, b, w, wsent)
  BY Parts DEF WsValues, WsPlaces
<1>3. Where("end", x, wneed, b, First(w, wsent))
  BY DEF Where
<1> QED BY <1>1, <1>2, <1>3, Settled

\* A step that does not touch the frame or the socket.
LEMMA Stayed ==
  ASSUME WsIInv, NEW pc \in WsPlaces, wpc' = pc,
         wstate' \in {"open", "closed"}, pc \notin {"open", "end"} => wstate' = "open",
         UNCHANGED <<wlib, wrole, wpeer, wsent, win, wrx, wneed, wbuf>>,
         Where(pc, wrx, wneed, wbuf, First(win, wsent))
  PROVE  WsIInv'
<1>1. WsValues(pc, wstate', wrx, wneed, wbuf, win, wsent)
  BY Parts DEF WsValues
<1>2. Follow(win, wsent) /\ Fits(wrx, wneed, wbuf)
  BY Parts
<1>3. wsent' = wsent /\ win' = win /\ wrx' = wrx /\ wneed' = wneed /\ wbuf' = wbuf
  OBVIOUS
<1> QED BY <1>1, <1>2, <1>3, Settled

\* Accept, WsListen and WsConnect.
LEMMA OpensKeep ==
  ASSUME WsIInv, Accept \/ WsListen \/ WsConnect
  PROVE  WsIInv'
<1>1. /\ wpc = "open" /\ UNCHANGED <<wlib, wrole, wpeer, wsent, win, wneed, wbuf>>
      /\ wrx' = wrx \/ wrx' = NoFrame
      /\ (wstate' = "open" /\ wpc' = "recv") \/ (wstate' = "closed" /\ wpc' = "end")
  BY DEF Accept, WsListen, WsConnect
<1>2. wrx = NoFrame /\ wneed = 0 /\ wbuf = <<>> /\ First(win, wsent)[2] = 0
  BY <1>1, Parts DEF Where
<1>3. wrx' = wrx
  BY <1>1, <1>2
<1>4. Where("recv", wrx, wneed, wbuf, First(win, wsent)) /\ Where("end", wrx, wneed, wbuf, First(win, wsent))
  BY <1>2, NoFrameType DEF Where, Between
<1>5. "recv" \in WsPlaces /\ "end" \in WsPlaces
  BY DEF WsPlaces
<1> QED BY <1>1, <1>3, <1>4, <1>5, Stayed

\* RecvFails and CloseFails.
LEMMA FailsKeep ==
  ASSUME WsIInv, RecvFails \/ CloseFails
  PROVE  WsIInv'
<1>1. /\ wpc' = "end" /\ wstate' = "closed"
      /\ UNCHANGED <<wlib, wrole, wpeer, wsent, win, wrx, wneed, wbuf>>
  BY DEF RecvFails, CloseFails, WsEnd
<1>2. Where("end", wrx, wneed, wbuf, First(win, wsent)) /\ "end" \in WsPlaces
  BY DEF Where, WsPlaces
<1> QED BY <1>1, <1>2, Stayed

\* SendPing.
LEMMA PingKeeps ==
  ASSUME WsIInv, SendPing
  PROVE  WsIInv'
<1>1. UNCHANGED <<wlib, wrole, wpeer, wsent, win, wrx, wneed, wbuf>> /\ wpc' = wpc /\ wstate' = wstate
  BY DEF SendPing
<1>2. /\ wpc \in WsPlaces /\ wstate \in {"open", "closed"} /\ (wpc \notin {"open", "end"} => wstate = "open")
      /\ Where(wpc, wrx, wneed, wbuf, First(win, wsent))
  BY Parts DEF WsValues
<1> QED BY <1>1, <1>2, Stayed

\* AppClose.
LEMMA CloseKeeps ==
  ASSUME WsIInv, AppClose
  PROVE  WsIInv'
<1>1. /\ wpc = "recv" /\ wrx.size = wrx.offs
      /\ UNCHANGED <<wlib, wrole, wpeer, wsent, win, wrx, wneed, wbuf>>
      /\ (wpc' = "chdr" /\ wstate' = wstate) \/ (wpc' = "end" /\ wstate' = "closed")
  BY DEF AppClose, WsEnd
<1>2. wstate = "open" /\ wneed = 0 /\ wbuf = <<>> /\ First(win, wsent)[2] = 0
  BY <1>1, Parts DEF WsValues, Where, Between
<1>3. Where("chdr", wrx, wneed, wbuf, First(win, wsent)) /\ Where("end", wrx, wneed, wbuf, First(win, wsent))
  BY <1>2 DEF Where
<1>4. "chdr" \in WsPlaces /\ "end" \in WsPlaces
  BY DEF WsPlaces
<1> QED BY <1>1, <1>2, <1>3, <1>4, Stayed

\* Deliver: the bytes that arrive follow those that wait, and the next byte Recv
\* reads is the same.
LEMMA DeliverKeeps ==
  ASSUME WsIInv, Deliver
  PROVE  WsIInv' /\ Ahead' = Ahead
<1> DEFINE f == wsent[1]
           k == wsent[2]
<1>1. /\ WsTypes /\ Follow(win, wsent) /\ win \in Seq(Nat \X Nat) /\ Len(win) \in Nat
      /\ wsent \in Nat \X Nat /\ wpeer \in Seq(WsFrame)
  BY Parts, WsAssumption DEF WsValues
<1>2. f \in WsFrames /\ k \in Nat /\ wsent = <<f, k>> /\ f \in Nat
  <2>1. f \in Nat /\ k \in Nat /\ wsent = <<f, k>>
    BY <1>1
  <2>2. f <= Len(wpeer) /\ f # 0 /\ Len(wpeer) \in Nat
    BY <1>1 DEF Deliver, Follow
  <2> QED BY <2>1, <2>2 DEF WsFrames
<1>3. FrameLen(f) \in Nat /\ HdrLen(f) \in Nat /\ HdrLen(f) >= 2 /\ FrameLen(f) >= HdrLen(f)
  BY <1>1, <1>2, Lengths
<1>4. PICK to \in k + 1 .. FrameLen(f) :
        /\ win' = win \o [i \in 1 .. to - k |-> <<f, k + i - 1>>]
        /\ wsent' = IF to = FrameLen(f) THEN <<f + 1, 0>> ELSE <<f, to>>
  BY DEF Deliver
<1> DEFINE n == to - k
           p == [i \in 1 .. n |-> <<f, k + i - 1>>]
           w == win \o p
           s == After(f, to)
           l == Len(win)
<1> HIDE DEF f, k
<1>5. to \in Nat /\ n \in Nat /\ n >= 1 /\ k + n = to /\ to <= FrameLen(f) /\ k < FrameLen(f)
  BY <1>2, <1>3
<1>6. p \in Seq(Nat \X Nat) /\ Len(p) = n /\ \A i \in 1 .. n : p[i] = <<f, k + i - 1>>
  <2> HIDE DEF n
  <2>1. \A i \in 1 .. n : <<f, k + i - 1>> \in Nat \X Nat
    BY <1>2, <1>5
  <2>2. p \in [1 .. n -> Nat \X Nat]
    BY <2>1
  <2>3. \A i \in 1 .. n : p[i] = <<f, k + i - 1>>
    OBVIOUS
  <2> HIDE DEF p
  <2> QED BY <1>5, <2>2, <2>3, FunctionSeq
<1> HIDE DEF n, p
<1>7. /\ w \in Seq(Nat \X Nat) /\ Len(w) = l + n /\ l \in Nat
      /\ \A i \in 1 .. l : w[i] = win[i]
      /\ \A i \in 1 .. n : w[l + i] = <<f, k + i - 1>>
  <2>1. w \in Seq(Nat \X Nat) /\ Len(w) = Len(win) + Len(p)
    BY <1>1, <1>6, ConcatProperties
  <2>2. \A i \in 1 .. Len(win) + Len(p) : w[i] = IF i <= Len(win) THEN win[i] ELSE p[i - Len(win)]
    BY <1>1, <1>6, ConcatProperties
  <2>3. \A i \in 1 .. l : w[i] = win[i]
    BY <1>1, <1>5, <1>6, <2>2
  <2>4. ASSUME NEW i \in 1 .. n PROVE w[l + i] = <<f, k + i - 1>>
    <3>1. l + i \in 1 .. Len(win) + Len(p) /\ ~(l + i <= Len(win)) /\ (l + i) - Len(win) = i
      BY <1>1, <1>5, <1>6
    <3> QED BY <1>6, <2>2, <3>1
  <2> QED BY <1>1, <1>6, <2>1, <2>3, <2>4
<1>8. win' = w /\ wsent' = s
  BY <1>4 DEF n, p, After
<1> HIDE DEF w
<1>9. s \in Nat \X Nat /\ s[1] \in 1 .. Len(wpeer) + 1
  <2>1. f + 1 \in Nat /\ f \in 1 .. Len(wpeer) + 1 /\ f + 1 \in 1 .. Len(wpeer) + 1
    BY <1>1, <1>2 DEF WsFrames
  <2> QED BY <1>2, <1>5, <2>1 DEF After
<1>10. s[2] # 0 => s[1] \in WsFrames /\ s[2] < FrameLen(s[1])
  <2>1. CASE to = FrameLen(f)
    BY <2>1 DEF After
  <2>2. CASE to # FrameLen(f)
    <3>1. s[1] = f /\ s[2] = to
      BY <2>2 DEF After
    <3>2. to < FrameLen(f)
      BY <1>3, <1>5, <2>2
    <3> QED BY <1>2, <3>1, <3>2
  <2> QED BY <2>1, <2>2
<1> HIDE DEF s
<1>11. ASSUME NEW i \in 1 .. Len(w)
       PROVE  /\ w[i][1] \in WsFrames /\ w[i][2] < FrameLen(w[i][1])
              /\ After(w[i][1], w[i][2] + 1) = (IF i = Len(w) THEN s ELSE w[i + 1])
  <2>1. CASE i <= l
    <3>0. Len(w) = l + n /\ l \in Nat
      BY <1>7
    <3>1. i \in 1 .. l /\ w[i] = win[i] /\ i # Len(w)
      <4>1. i \in 1 .. l /\ i # Len(w)
        BY <1>5, <2>1, <3>0
      <4> QED BY <1>7, <4>1
    <3>2. w[i + 1] = IF i = l THEN wsent ELSE win[i + 1]
      <4>1. CASE i = l
        <5>1. w[l + 1] = <<f, k + 1 - 1>> /\ k + 1 - 1 = k
          BY <1>2, <1>5, <1>7
        <5> QED BY <1>2, <4>1, <5>1
      <4>2. CASE i # l
        <5>1. i + 1 \in 1 .. l
          BY <1>7, <2>1, <4>2
        <5> QED BY <1>7, <4>2, <5>1
      <4> QED BY <4>1, <4>2
    <3>3. /\ win[i][1] \in WsFrames /\ win[i][2] < FrameLen(win[i][1])
          /\ After(win[i][1], win[i][2] + 1) = (IF i = Len(win) THEN wsent ELSE win[i + 1])
      BY <1>1, <3>1 DEF Follow
    <3> QED BY <3>1, <3>2, <3>3
  <2>2. CASE ~(i <= l)
    <3> DEFINE j == i - l
    <3>1. j \in 1 .. n /\ l + j = i /\ j \in Nat
      BY <1>5, <1>7, <2>2
    <3> HIDE DEF j
    <3>2. w[i] = <<f, k + j - 1>>
      BY <1>7, <3>1
    <3>3. w[i][1] = f /\ w[i][2] = k + j - 1 /\ (k + j - 1) + 1 = k + j
      BY <1>2, <3>1, <3>2
    <3>4. k + j - 1 < FrameLen(f)
      BY <1>2, <1>3, <1>5, <3>1
    <3>5. CASE i = Len(w)
      <4>1. j = n
        BY <1>5, <1>7, <3>1, <3>5
      <4>2. k + j = to
        BY <1>5, <4>1
      <4> QED BY <1>2, <3>3, <3>4, <3>5, <4>2 DEF s
    <3>6. CASE i # Len(w)
      <4>1. j + 1 \in 1 .. n /\ l + (j + 1) = i + 1 /\ k + (j + 1) - 1 = k + j /\ k + j # FrameLen(f)
        <5>1. Len(w) = l + n /\ l \in Nat
          BY <1>7
        <5>2. j # n /\ j + 1 \in 1 .. n
          BY <1>5, <3>1, <3>6, <5>1
        <5> QED BY <1>2, <1>3, <1>5, <3>1, <5>1, <5>2
      <4>2. w[i + 1] = <<f, k + j>>
        BY <1>7, <4>1
      <4>3. After(f, k + j) = <<f, k + j>>
        BY <4>1 DEF After
      <4> QED BY <1>2, <3>3, <3>4, <3>6, <4>2, <4>3
    <3> QED BY <3>5, <3>6
  <2> QED BY <2>1, <2>2
<1>12. Follow(w, s)
  BY <1>9, <1>10, <1>11 DEF Follow
<1>13. First(w, s) = First(win, wsent)
  <2>1. w # <<>>
    BY <1>5, <1>7
  <2>2. CASE win = <<>>
    <3>1. l = 0 /\ l + 1 = 1 /\ 1 \in 1 .. n /\ k + 1 - 1 = k
      BY <1>2, <1>5, <2>2
    <3>2. w[1] = <<f, k>>
      BY <1>7, <3>1
    <3> QED BY <1>2, <2>1, <2>2, <3>2 DEF First
  <2>3. CASE win # <<>>
    <3>1. 1 \in 1 .. l
      BY <1>1, <2>3, EmptySeq
    <3> QED BY <1>7, <2>1, <2>3, <3>1 DEF First
  <2> QED BY <2>2, <2>3
<1>14. UNCHANGED <<wlib, wrole, wpeer>> /\ wstate' = wstate /\ wpc' = wpc /\ wrx' = wrx /\ wneed' = wneed
       /\ wbuf' = wbuf
  BY DEF Deliver
<1>15. WsValues(wpc, wstate, wrx, wneed, wbuf, w, s)
  BY <1>7, <1>9, Parts DEF WsValues
<1>16. Where(wpc, wrx, wneed, wbuf, First(w, s)) /\ Fits(wrx, wneed, wbuf)
  BY <1>13, Parts
<1>17. Ahead' = Ahead
  BY <1>8, <1>13 DEF Ahead, First
<1> QED BY <1>8, <1>12, <1>14, <1>15, <1>16, <1>17, Settled

\* Zero is a multiple of the key.
LEMMA ZeroMod == 0 % MaskLen = 0
BY WsAssumption

\* RecvStart.
LEMMA RecvStartKeeps ==
  ASSUME WsIInv, RecvStart
  PROVE  WsIInv'
<1>1. /\ wpc = "recv" /\ wneed = 0 /\ wbuf = <<>> /\ wstate = "open" /\ wrx \in RxType
      /\ Between(wrx, First(win, wsent)) /\ wsent \in Nat \X Nat /\ win \in Seq(Nat \X Nat)
      /\ Follow(win, wsent) /\ Fits(wrx, wneed, wbuf) /\ WsTypes
  BY Parts DEF RecvStart, WsValues, Where
<1>2. /\ UNCHANGED <<wlib, wrole, wpeer>> /\ wsent' = wsent /\ win' = win /\ wstate' = wstate
      /\ wrx' = wrx /\ wbuf' = <<>>
  BY DEF RecvStart
<1>3. wrx.size \in Nat /\ wrx.offs \in Nat /\ wrx.f \in Nat
  BY <1>1 DEF RxType
<1>4. CASE wrx.size = wrx.offs
  <2>1. wpc' = "hdr" /\ wneed' = wneed
    BY <1>4 DEF RecvStart
  <2>2. Where("hdr", wrx, wneed, wbuf, First(win, wsent)) /\ "hdr" \in WsPlaces
    BY <1>1, <1>4 DEF Where, Between, WsPlaces
  <2>3. UNCHANGED <<wlib, wrole, wpeer, wsent, win, wrx, wneed, wbuf>>
    BY <1>1, <1>2, <2>1
  <2> QED BY <1>1, <1>2, <2>1, <2>2, <2>3, Stayed
<1>5. CASE wrx.size # wrx.offs
  <2> DEFINE need == Lesser(AppBuf, wrx.size - wrx.offs)
             p == First(win, wsent)
  <2>1. wpc' = "pay" /\ wneed' = need
    BY <1>5 DEF RecvStart
  <2>2. /\ Current(wrx) /\ wrx.op \in DataOps /\ wrx.offs < wrx.size
        /\ p = After(wrx.f, HdrLen(wrx.f) + wrx.offs)
    BY <1>1, <1>5 DEF Between
  <2>3. wrx.size - wrx.offs \in Nat /\ AppBuf \in Nat
    BY <1>3, <2>2, WsAssumption
  <2>4. need \in Nat /\ need <= wrx.size - wrx.offs /\ (need = AppBuf \/ need = wrx.size - wrx.offs)
    BY <2>3, LesserNat
  <2> HIDE DEF need, p
  <2>6. Len(<<>>) = 0 /\ wrx.offs + Len(<<>>) = wrx.offs /\ <<>> \in Seq(Nat \X Nat)
    BY <1>3, EmptySeq
  <2>7. wrx.offs + need <= wrx.size /\ need <= wrx.size
        /\ (wrx.offs + need = wrx.size \/ need = AppBuf)
    BY <1>3, <2>3, <2>4
  <2>8. wrx.op # "cont"
    BY <2>2 DEF DataOps
  <2>9. Paying(wrx, need, <<>>, p)
    BY <2>2, <2>6, <2>7, <2>8 DEF Paying
  <2>10. Where("pay", wrx, need, <<>>, p)
    BY <2>9 DEF Where
  <2>11. WsValues("pay", "open", wrx, need, <<>>, win, wsent)
    BY <1>1, <2>4, <2>6 DEF WsValues, WsPlaces
  <2>12. Fits(wrx, need, <<>>)
    BY <1>1, <2>6, <2>7 DEF Fits
  <2> QED BY <1>1, <1>2, <2>1, <2>10, <2>11, <2>12, Settled DEF p
<1> QED BY <1>4, <1>5

\* A sequence of two.
LEMMA PairSeq ==
  ASSUME NEW S, NEW s \in Seq(S), Len(s) = 2
  PROVE  s = <<s[1], s[2]>>
OBVIOUS

\* RecvHdr and CloseHdr: at the first byte of a frame a header is found, or
\* something that is not handled.
LEMMA RecvHeaderKeeps ==
  ASSUME WsIInv, ~wodd', NEW back, RecvHeader(back),
         (wpc = "hdr" /\ back = "more") \/ (wpc = "chdr" /\ back = "cmore")
  PROVE  WsIInv'
<1> DEFINE f == Head(win)[1]
<1>1. /\ wneed = 0 /\ wbuf = <<>> /\ wstate = "open" /\ First(win, wsent)[2] = 0 /\ win # <<>>
      /\ wsent \in Nat \X Nat /\ win \in Seq(Nat \X Nat) /\ WsTypes /\ WsStream
  BY Parts DEF RecvHeader, WsValues, Where
<1>2. win[1] = <<f, 0>> /\ f \in WsFrames
  <2>1. 1 \in 1 .. Len(win)
    BY <1>1, EmptySeq
  <2>2. win[1] = <<win[1][1], win[1][2]>> /\ win[1][1] \in WsFrames
    BY <1>1, <2>1, Waiting
  <2>3. Head(win) = win[1] /\ win[1][2] = 0
    BY <1>1 DEF First
  <2> QED BY <2>2, <2>3
<1>3. /\ wpeer[f].n \in Nat /\ wpeer[f].op \in WsOps /\ HdrLen(f) \in Nat /\ HdrLen(f) >= 2
      /\ FrameLen(f) \in Nat /\ FrameLen(f) >= 2 /\ f \in Nat /\ f # 0
  BY <1>1, <1>2, Lengths DEF WsFrames
<1> HIDE DEF f
<1> DEFINE m == Len(Got(2))
           w == SubSeq(win, 2 + 1, Len(win))
           x == [f |-> f, size |-> wpeer[f].n, offs |-> 0, op |-> wpeer[f].op]
<1>4. /\ m \in 1 .. 2 /\ m <= Len(win) /\ Got(2) \in Seq(Nat \X Nat)
      /\ \A i \in 1 .. m : Got(2)[i] = <<f, 0 + i - 1>>
      /\ Rest(2) = SubSeq(win, m + 1, Len(win))
  <2> DEFINE k == 0
             n == 2
  <2>1. win[1] = <<f, k>> /\ n \in Nat /\ n > 0 /\ k + n <= FrameLen(f)
    BY <1>2, <1>3
  <2> HIDE DEF k, n
  <2>2. LET l == Len(Got(n))
        IN /\ l \in 1 .. n /\ l <= Len(win) /\ Got(n) \in Seq(Nat \X Nat)
           /\ \A i \in 1 .. l : Got(n)[i] = <<f, k + i - 1>>
           /\ l = n \/ l = Len(win)
           /\ Rest(n) = SubSeq(win, l + 1, Len(win))
    BY <1>1, <2>1, Take
  <2> QED BY <2>2, Zenon DEF k, n
<1>5. ASSUME ~(m < 2) PROVE Got(2) = <<<<f, 0>>, <<f, 1>>>> /\ Rest(2) = w /\ 2 <= Len(win)
  <2>1. m = 2
    <3> HIDE DEF m
    <3> QED BY <1>4, <1>5
  <2>2. Got(2)[1] = <<f, 0>> /\ Got(2)[2] = <<f, 1>>
    BY <1>4, <2>1
  <2>3. Got(2) = <<Got(2)[1], Got(2)[2]>>
    BY <1>4, <2>1, PairSeq
  <2> QED BY <1>4, <2>1, <2>2, <2>3
<1>6. /\ Got(2) = <<<<f, 0>>, <<f, 1>>>> /\ wpeer[f].right
      /\ wrx' = x /\ wpc' = back /\ win' = Rest(2) /\ UNCHANGED <<wlib, wrole, wpeer>> /\ wsent' = wsent
      /\ wstate' = wstate /\ wneed' = wneed /\ wbuf' = wbuf
  <2>1. CASE Got(2) = <<<<f, 0>>, <<f, 1>>>>
    BY <2>1 DEF RecvHeader, f
  <2>2. CASE Got(2) # <<<<f, 0>>, <<f, 1>>>>
    <3>1. wodd' = (wodd \/ m < 2)
      BY <2>2 DEF RecvHeader, f
    <3>2. ~(m < 2)
      BY <3>1, Zenon
    <3> QED BY <1>5, <2>2, <3>2
  <2> QED BY <2>1, <2>2
<1>7. Rest(2) = w /\ 2 <= Len(win)
  <2>1. Len(Got(2)) = 2
    BY <1>6
  <2>2. ~(m < 2)
    BY <2>1
  <2> QED BY <1>5, <2>2
<1> HIDE DEF m
<1>8. w \in Seq(Nat \X Nat) /\ Follow(w, wsent) /\ First(w, wsent) = After(f, 2)
  <2>1. Len(win) \in Nat /\ 2 \in 1 .. Len(win) /\ 0 + 2 <= FrameLen(f) /\ 0 + 2 = 2
    BY <1>1, <1>3, <1>7
  <2>2. First(w, wsent) = After(f, 0 + 2) /\ w \in Seq(Nat \X Nat) /\ Follow(w, wsent)
    BY <1>1, <1>2, <2>1, Drop
  <2> QED BY <2>1, <2>2
<1>9. x \in RxType /\ x.f = f /\ x.size = wpeer[f].n /\ x.offs = 0 /\ x.op = wpeer[f].op /\ x.size \in Nat
  BY <1>3 DEF RxType
<1> HIDE DEF w, x
<1>10. Where(back, x, wneed, wbuf, First(w, wsent))
  BY <1>1, <1>2, <1>6, <1>8, <1>9 DEF Where, Current
<1>11. WsValues(back, "open", x, wneed, wbuf, w, wsent)
  BY <1>1, <1>8, <1>9, Parts DEF WsValues, WsPlaces
<1>12. Fits(x, wneed, wbuf)
  BY <1>1, <1>9 DEF Fits
<1>13. win' = w /\ wstate' = "open"
  BY <1>1, <1>6, <1>7
<1> QED BY <1>1, <1>6, <1>8, <1>10, <1>11, <1>12, <1>13, Settled

\* A call returns all it asked for, or all there is.
LEMMA GotAll ==
  ASSUME win \in Seq(Nat \X Nat), NEW n \in Nat, ~(Len(Got(n)) < n)
  PROVE  Len(win) >= n
<1>1. Len(win) \in Nat /\ Lesser(n, Len(win)) \in Nat /\ Lesser(n, Len(win)) <= Len(win)
  BY LesserNat
<1>2. Len(Got(n)) = Lesser(n, Len(win))
  BY <1>1 DEF Got
<1> QED BY <1>1, <1>2

\* The bytes behind the first two of a header, when all of them have come.
LEMMA Exactly ==
  ASSUME WsIInv, NEW f \in WsFrames, First(win, wsent) = After(f, 2),
         NEW n \in Nat, 2 + n <= FrameLen(f), Len(win) >= n
  PROVE  /\ Got(n) = [i \in 1 .. n |-> <<f, i + 1>>]
         /\ Rest(n) \in Seq(Nat \X Nat) /\ Follow(Rest(n), wsent)
         /\ First(Rest(n), wsent) = After(f, 2 + n)
<1>1. /\ WsTypes /\ WsStream /\ Follow(win, wsent) /\ win \in Seq(Nat \X Nat) /\ Len(win) \in Nat
  BY Parts DEF WsValues
<1>2. HdrLen(f) \in Nat /\ HdrLen(f) >= 2 /\ FrameLen(f) \in Nat
  BY <1>1, Lengths
<1>3. CASE n = 0
  <2>1. Lesser(n, Len(win)) = 0 /\ 2 + n = 2
    BY <1>1, <1>3 DEF Lesser
  <2>2. Got(n) = <<>>
    BY <1>1, <2>1 DEF Got
  <2>3. Rest(n) = win
    BY <1>1, <2>1 DEF Rest
  <2>4. [i \in 1 .. n |-> <<f, i + 1>>] = <<>>
    BY <1>3
  <2> QED BY <1>1, <2>1, <2>2, <2>3, <2>4
<1>4. CASE n > 0
  <2>0. win # <<>>
    BY <1>1, <1>4, EmptySeq
  <2>1. win[1] = <<f, 2>> /\ win # <<>>
    BY <1>2, <1>4, <2>0 DEF First, After
  <2> DEFINE m == Len(Got(n))
  <2>2. /\ m \in 1 .. n /\ m <= Len(win) /\ Got(n) \in Seq(Nat \X Nat)
        /\ \A i \in 1 .. m : Got(n)[i] = <<f, 2 + i - 1>>
        /\ m = n \/ m = Len(win)
        /\ Rest(n) = SubSeq(win, m + 1, Len(win))
    BY <1>1, <1>4, <2>1, Take
  <2>3. m = n
    <3>1. Len(win) >= n => m = n
      BY <1>1 DEF Got, Lesser
    <3> HIDE DEF m
    <3> QED BY <1>2, <2>2, <3>1
  <2>4. Got(n) = [i \in 1 .. n |-> <<f, i + 1>>]
    <3>1. \A i \in 1 .. n : Got(n)[i] = <<f, i + 1>>
      <4>1. \A i \in 1 .. n : 2 + i - 1 = i + 1
        OBVIOUS
      <4> QED BY <2>2, <2>3, <4>1
    <3>2. DOMAIN Got(n) = 1 .. n
      BY <2>2, <2>3
    <3> QED BY <2>2, <3>1, <3>2
  <2>5. Rest(n) \in Seq(Nat \X Nat) /\ Follow(Rest(n), wsent) /\ First(Rest(n), wsent) = After(f, 2 + n)
    <3>1. n \in 1 .. Len(win)
      BY <1>1, <1>4, <2>2, <2>3
    <3>2. Rest(n) = SubSeq(win, n + 1, Len(win))
      BY <2>2, <2>3
    <3> QED BY <1>1, <2>1, <3>1, <3>2, Drop
  <2> QED BY <2>4, <2>5
<1> QED BY <1>3, <1>4

\* The rest of the header comes whole, or something that is not handled.
LEMMA HeaderRest ==
  ASSUME WsIInv, Current(wrx), First(win, wsent) = After(wrx.f, 2), ~OddRest(wrx.f, More(wrx.f))
  PROVE  /\ Got(More(wrx.f)) = HdrRest(wrx.f) /\ HdrLen(wrx.f) = 2 + More(wrx.f)
         /\ Len(win) >= More(wrx.f)
<1> DEFINE f == wrx.f
           n == More(f)
<1>1. WsTypes /\ win \in Seq(Nat \X Nat) /\ f \in WsFrames /\ wpeer[f].right
  BY Parts DEF WsValues, Current
<1>2. ~(Len(Got(n)) < n) /\ ~(wpeer[f].n >= Long)
  BY DEF OddRest
<1>3. /\ n \in Nat /\ HdrLen(f) = 2 + n /\ FrameLen(f) = HdrLen(f) + wpeer[f].n /\ wpeer[f].n \in Nat
  BY <1>1, <1>2, Lengths, HeaderLength
<1> HIDE DEF f, n
<1>4. Len(win) >= n /\ 2 + n <= FrameLen(f) /\ HdrLen(f) - 2 = n
  BY <1>1, <1>2, <1>3, GotAll
<1>5. Got(n) = [i \in 1 .. n |-> <<f, i + 1>>]
  BY <1>1, <1>3, <1>4, Exactly DEF f
<1> QED BY <1>3, <1>4, <1>5 DEF HdrRest, f, n

\* What is the rest of the header came whole.
LEMMA WholeRest ==
  ASSUME WsTypes, NEW f \in WsFrames, wpeer[f].right, win \in Seq(Nat \X Nat), Got(More(f)) = HdrRest(f)
  PROVE  ~OddRest(f, More(f))
<1> DEFINE n == More(f)
           h == HdrLen(f) - 2
<1>1. n \in Nat /\ h \in Nat /\ h >= n /\ (wpeer[f].n >= Long => h > n)
  BY Lengths, HeaderLength
<1> HIDE DEF n, h
<1>2. Len(Got(n)) <= n /\ Len(Got(n)) \in Nat
  <2>0. Len(win) \in Nat
    OBVIOUS
  <2>1. Lesser(n, Len(win)) \in Nat /\ Lesser(n, Len(win)) <= n /\ Lesser(n, Len(win)) <= Len(win)
    BY <1>1, <2>0, LesserNat
  <2>2. Len(Got(n)) = Lesser(n, Len(win))
    BY <2>1 DEF Got
  <2> QED BY <2>0, <2>1, <2>2
<1>3. Len(Got(n)) = h
  <2>1. Got(n) = [i \in 1 .. h |-> <<f, i + 1>>]
    BY DEF HdrRest, n, h
  <2>2. DOMAIN Got(n) = 1 .. h
    BY <2>1
  <2>3. Got(n) \in Seq(Nat \X Nat)
    <3>0. Len(win) \in Nat
      OBVIOUS
    <3>1. Lesser(n, Len(win)) \in Nat /\ Lesser(n, Len(win)) <= Len(win)
      BY <1>1, <3>0, LesserNat
    <3> QED BY <3>0, <3>1 DEF Got
  <2>4. DOMAIN Got(n) = 1 .. Len(Got(n))
    BY <2>3
  <2> QED BY <1>1, <1>2, <2>2, <2>4
<1>4. ~(Len(Got(n)) < n) /\ ~(wpeer[f].n >= Long)
  BY <1>1, <1>2, <1>3
<1> QED BY <1>4 DEF OddRest, n

\* RecvMore.
LEMMA RecvMoreKeeps ==
  ASSUME WsIInv, ~wodd', RecvMore
  PROVE  WsIInv'
<1> DEFINE f == wrx.f
           n == More(f)
           w == Rest(n)
           need == Payload(f)
<1>1. /\ wpc = "more" /\ wneed = 0 /\ wbuf = <<>> /\ wstate = "open" /\ wrx \in RxType
      /\ Current(wrx) /\ wrx.offs = 0 /\ First(win, wsent) = After(f, 2)
      /\ wsent \in Nat \X Nat /\ WsTypes /\ Fits(wrx, wneed, wbuf) /\ wbuf \in Seq(Nat \X Nat)
      /\ win \in Seq(Nat \X Nat)
  BY Parts DEF RecvMore, WsValues, Where
<1>2. f \in WsFrames /\ wrx.size = wpeer[f].n /\ wrx.op = wpeer[f].op
  BY <1>1 DEF Current
<1>3. /\ wrx.size \in Nat /\ HdrLen(f) \in Nat /\ HdrLen(f) >= 2 /\ FrameLen(f) \in Nat
      /\ FrameLen(f) = HdrLen(f) + wrx.size /\ wrx.op \in WsOps /\ n \in Nat
  BY <1>1, <1>2, Lengths
<1>4. Got(n) = HdrRest(f)
  <2> SUFFICES ASSUME Got(n) # HdrRest(f) PROVE FALSE
    OBVIOUS
  <2>1. wodd' = (wodd \/ OddRest(f, n))
    BY DEF RecvMore
  <2>2. ~OddRest(f, n)
    BY <2>1, Zenon
  <2> QED BY <1>1, <2>2, HeaderRest
<1>5. /\ HdrLen(f) = 2 + n /\ Len(win) >= n
  <2>1. f \in WsFrames /\ wpeer[f].right
    BY <1>1 DEF Current
  <2>2. ~OddRest(f, n)
    BY <1>1, <1>4, <2>1, WholeRest
  <2> QED BY <1>1, <2>2, HeaderRest
<1>7. /\ win' = w /\ UNCHANGED <<wlib, wrole, wpeer>> /\ wsent' = wsent /\ wrx' = wrx /\ wbuf' = wbuf
      /\ wodd' = (wodd \/ OddControl(f))
      /\ IF wrx.op = "cont" THEN WsEnd /\ wneed' = wneed
         ELSE wpc' = "pay" /\ wneed' = need /\ wstate' = wstate
  BY <1>4 DEF RecvMore
<1> HIDE DEF f, n, w, need
<1>6. w \in Seq(Nat \X Nat) /\ Follow(w, wsent) /\ First(w, wsent) = After(f, HdrLen(f))
  <2>1. 2 + n <= FrameLen(f)
    BY <1>3, <1>5
  <2> QED BY <1>1, <1>2, <1>3, <1>5, <2>1, Exactly DEF w
<1>10. wrx.op \in {"ping", "close"} => wrx.size <= CtlMax
  <2>1. ~OddControl(f)
    BY <1>7, Zenon
  <2>2. CtlMax \in Nat
    BY WsAssumption
  <2> QED BY <1>2, <1>3, <2>1, <2>2 DEF OddControl
<1>8. CASE wrx.op = "cont"
  <2>1. WsEnd /\ UNCHANGED <<wlib, wrole, wpeer, wsent, wneed>>
    BY <1>7, <1>8
  <2> QED BY <1>1, <1>6, <1>7, <2>1, Ended
<1>9. CASE wrx.op # "cont"
  <2>1. /\ need \in Nat /\ need <= wrx.size
        /\ need = wrx.size \/ (wrx.op \in DataOps /\ need = AppBuf)
    <3>1. wrx.op \in DataOps => need = Lesser(AppBuf, wrx.size)
      BY <1>2 DEF need, Payload, DataOps
    <3>2. wrx.op = "pong" => need = wrx.size
      BY <1>2 DEF need, Payload
    <3>3. wrx.op \in {"ping", "close"} => need = Lesser(CtlMax, wrx.size)
      BY <1>2 DEF need, Payload
    <3>4. wrx.op \in DataOps \/ wrx.op = "pong" \/ wrx.op \in {"ping", "close"}
      BY <1>3, <1>9 DEF WsOps, DataOps
    <3>5. AppBuf \in Nat /\ CtlMax \in Nat
      BY WsAssumption
    <3>6. /\ Lesser(AppBuf, wrx.size) \in Nat /\ Lesser(AppBuf, wrx.size) <= wrx.size
          /\ Lesser(AppBuf, wrx.size) = wrx.size \/ Lesser(AppBuf, wrx.size) = AppBuf
      BY <1>3, <3>5, LesserNat
    <3>7. wrx.size <= CtlMax => Lesser(CtlMax, wrx.size) = wrx.size
      BY <1>3, <3>5 DEF Lesser
    <3> QED BY <1>3, <1>10, <3>1, <3>2, <3>3, <3>4, <3>6, <3>7
  <2>2. /\ Len(wbuf) = 0 /\ wrx.offs + Len(wbuf) = 0 /\ HdrLen(f) + 0 = HdrLen(f)
        /\ 0 + need = need
    BY <1>1, <1>3, <2>1, EmptySeq
  <2>4. Paying(wrx, need, wbuf, First(w, wsent))
    BY <1>1, <1>6, <1>9, <2>1, <2>2 DEF Paying, f
  <2>5. Where("pay", wrx, need, wbuf, First(w, wsent))
    BY <2>4 DEF Where
  <2>6. WsValues("pay", "open", wrx, need, wbuf, w, wsent)
    BY <1>1, <1>6, <2>1 DEF WsValues, WsPlaces
  <2>7. Fits(wrx, need, wbuf)
    BY <1>1, <2>1 DEF Fits
  <2> QED BY <1>1, <1>6, <1>7, <1>9, <2>5, <2>6, <2>7, Settled
<1> QED BY <1>8, <1>9

\* CloseDrop.
LEMMA CloseDropKeeps ==
  ASSUME WsIInv, ~wodd', CloseDrop
  PROVE  WsIInv'
<1> DEFINE f == wrx.f
           n == More(f)
           l == n + wrx.size
           w == Rest(l)
<1>1. /\ wpc = "cmore" /\ wneed = 0 /\ wbuf = <<>> /\ wstate = "open" /\ wrx \in RxType
      /\ Current(wrx) /\ First(win, wsent) = After(f, 2) /\ win \in Seq(Nat \X Nat)
      /\ wsent \in Nat \X Nat /\ WsTypes /\ Fits(wrx, wneed, wbuf) /\ wbuf \in Seq(Nat \X Nat)
  BY Parts DEF CloseDrop, WsValues, Where
<1>2. f \in WsFrames /\ wrx.size = wpeer[f].n /\ wpeer[f].right
  BY <1>1 DEF Current
<1>3. /\ wrx.size \in Nat /\ HdrLen(f) \in Nat /\ FrameLen(f) = HdrLen(f) + wrx.size /\ n \in Nat
  BY <1>1, <1>2, Lengths
<1>4. Got(n) = HdrRest(f)
  <2> SUFFICES ASSUME Got(n) # HdrRest(f) PROVE FALSE
    OBVIOUS
  <2>1. wodd' = (wodd \/ OddRest(f, n))
    BY DEF CloseDrop
  <2>2. ~OddRest(f, n)
    BY <2>1, Zenon
  <2> QED BY <1>1, <2>2, HeaderRest
<1>5. HdrLen(f) = 2 + n
  BY <1>1, <1>2, <1>4, WholeRest, HeaderRest
<1>6. l \in Nat /\ 2 + l = FrameLen(f) /\ 2 + l <= FrameLen(f)
  BY <1>3, <1>5
<1>7. /\ win' = w /\ UNCHANGED <<wlib, wrole, wpeer>> /\ wsent' = wsent /\ wrx' = wrx /\ wbuf' = wbuf
      /\ Len(win) >= l /\ wneed' = wneed /\ (WsEnd \/ (wpc' = "chdr" /\ wstate' = wstate))
  BY <1>4 DEF CloseDrop
<1> HIDE DEF f, n, l, w
<1>8. /\ w \in Seq(Nat \X Nat) /\ Follow(w, wsent) /\ First(w, wsent) = After(f, FrameLen(f))
  <2>1. First(w, wsent) = After(f, 2 + l) /\ w \in Seq(Nat \X Nat) /\ Follow(w, wsent)
    BY <1>1, <1>2, <1>6, <1>7, Exactly DEF w
  <2> QED BY <1>6, <2>1
<1>9. UNCHANGED <<wlib, wrole, wpeer>> /\ wsent' = wsent /\ wneed' = wneed
  BY <1>7
<1>10. CASE WsEnd
  <2>1. UNCHANGED <<wlib, wrole, wpeer, wsent, wneed>>
    BY <1>9
  <2> QED BY <1>1, <1>7, <1>8, <1>9, <1>10, <2>1, Ended
<1>11. CASE wpc' = "chdr" /\ wstate' = wstate
  <2>1. First(w, wsent)[2] = 0
    BY <1>8 DEF After
  <2>2. Where("chdr", wrx, wneed, wbuf, First(w, wsent))
    BY <1>1, <2>1 DEF Where
  <2>3. WsValues("chdr", "open", wrx, wneed, wbuf, w, wsent)
    BY <1>1, <1>8 DEF WsValues, WsPlaces
  <2> QED BY <1>1, <1>7, <1>8, <1>9, <1>11, <2>2, <2>3, Settled
<1> QED BY <1>7, <1>10, <1>11

\* AppSend.
LEMMA AppSendKeeps ==
  ASSUME WsIInv, AppSend
  PROVE  WsIInv'
<1>1. /\ wpc = "send" /\ wneed = 0 /\ wstate = "open" /\ wrx \in RxType /\ win \in Seq(Nat \X Nat)
      /\ Between(wrx, First(win, wsent)) /\ wsent \in Nat \X Nat /\ Follow(win, wsent)
      /\ Fits(wrx, wneed, wbuf)
  BY Parts DEF AppSend, WsValues, Where
<1>2. /\ UNCHANGED <<wlib, wrole, wpeer>> /\ wsent' = wsent /\ win' = win /\ wrx' = wrx /\ wneed' = wneed
      /\ wbuf' = <<>> /\ (WsEnd \/ (wpc' = "recv" /\ wstate' = wstate))
  BY <1>1 DEF AppSend
<1>3. <<>> \in Seq(Nat \X Nat) /\ Len(<<>>) = 0
  BY EmptySeq
<1>4. Fits(wrx, wneed, <<>>)
  BY <1>1, <1>3 DEF Fits
<1>5. CASE WsEnd
  <2>1. UNCHANGED <<wlib, wrole, wpeer, wsent, wneed>>
    BY <1>2
  <2> QED BY <1>1, <1>2, <1>3, <1>4, <1>5, <2>1, Ended
<1>6. CASE wpc' = "recv" /\ wstate' = wstate
  <2>1. Where("recv", wrx, wneed, <<>>, First(win, wsent))
    BY <1>1 DEF Where
  <2>2. WsValues("recv", "open", wrx, wneed, <<>>, win, wsent)
    BY <1>1, <1>3 DEF WsValues, WsPlaces
  <2> QED BY <1>1, <1>2, <1>4, <1>6, <2>1, <2>2, Settled
<1> QED BY <1>2, <1>5, <1>6

\* RecvDone: a control frame was read to its end, of a data frame a part.
LEMMA RecvDoneKeeps ==
  ASSUME WsIInv, RecvDone
  PROVE  WsIInv'
<1> DEFINE f == wrx.f
           at == wrx.offs + Len(wbuf)
           p == First(win, wsent)
<1>1. /\ wpc = "pay" /\ wneed = 0 /\ wstate = "open" /\ wrx \in RxType /\ win \in Seq(Nat \X Nat)
      /\ Paying(wrx, wneed, wbuf, p) /\ wsent \in Nat \X Nat /\ Follow(win, wsent)
      /\ wbuf \in Seq(Nat \X Nat) /\ WsTypes
  BY Parts DEF RecvDone, WsValues, Where
<1>2. wrx.offs \in Nat /\ wrx.size \in Nat /\ Len(wbuf) \in Nat /\ at \in Nat /\ at + 0 = at
  BY <1>1 DEF RxType
<1>3. /\ Current(wrx) /\ at <= wrx.size /\ (at = wrx.size \/ wrx.op \in DataOps)
      /\ p = After(f, HdrLen(f) + at) /\ \A i \in 1 .. Len(wbuf) : wbuf[i] = <<f, wrx.offs + i - 1>>
  BY <1>1, <1>2 DEF Paying
<1>4. f \in WsFrames /\ wrx.size = wpeer[f].n /\ FrameLen(f) = HdrLen(f) + wrx.size
  BY <1>1, <1>3, Lengths DEF Current
<1>5. at = wrx.size => p[2] = 0
  BY <1>3, <1>4 DEF After
<1>6. /\ UNCHANGED <<wlib, wrole, wpeer>> /\ wsent' = wsent /\ win' = win /\ wneed' = wneed
      /\ UNCHANGED <<wlib, wrole, wpeer, wsent, wneed>>
  BY DEF RecvDone
<1>7. CASE wrx.op \in DataOps
  <2> DEFINE x == [wrx EXCEPT !.offs = at]
  <2>1. wrx' = x /\ wpc' = "send" /\ wbuf' = wbuf /\ wstate' = wstate
    BY <1>7 DEF RecvDone, DataOps
  <2>2. x \in RxType /\ x.offs = at /\ x.f = f /\ x.size = wrx.size /\ x.op = wrx.op
    BY <1>1, <1>2 DEF RxType
  <2> HIDE DEF x, at, f, p
  <2>3. Between(x, p)
    <3>1. Current(x)
      BY <1>3, <1>4, <2>2 DEF Current, f
    <3>2. at # wrx.size => at < wrx.size
      BY <1>2, <1>3
    <3> QED BY <1>3, <1>5, <1>7, <2>2, <3>1, <3>2 DEF Between
  <2>4. Handed(x, wbuf)
    <3>1. Len(wbuf) <= at /\ at - Len(wbuf) = wrx.offs
      BY <1>2 DEF at
    <3> QED BY <1>3, <1>4, <2>2, <3>1 DEF Handed
  <2>5. Where("send", x, wneed, wbuf, p)
    BY <1>1, <2>3, <2>4 DEF Where
  <2>6. WsValues("send", "open", x, wneed, wbuf, win, wsent)
    BY <1>1, <2>2 DEF WsValues, WsPlaces
  <2>7. Fits(x, wneed, wbuf)
    <3>1. \A i \in 1 .. Len(wbuf) : wbuf[i][1] = f
      BY <1>3
    <3> QED BY <1>1, <1>2, <1>3, <2>2, <3>1 DEF Fits
  <2> QED BY <1>1, <1>6, <2>1, <2>5, <2>6, <2>7, Settled DEF p
<1>8. CASE wrx.op \notin DataOps
  <2>1. /\ wrx' = NoFrame /\ wbuf' = <<>>
        /\ (WsEnd \/ (wpc' = "recv" /\ wstate' = wstate))
    BY <1>8 DEF RecvDone, DataOps
  <2>2. <<>> \in Seq(Nat \X Nat) /\ Len(<<>>) = 0
    BY EmptySeq
  <2>3. Fits(NoFrame, wneed, <<>>)
    BY <1>1, <2>2, NoFrameType DEF Fits
  <2>4. p[2] = 0
    BY <1>3, <1>5, <1>8
  <2>5. CASE WsEnd
    BY <1>1, <1>6, <2>1, <2>2, <2>3, <2>5, NoFrameType, Ended
  <2>6. CASE wpc' = "recv" /\ wstate' = wstate
    <3>1. Where("recv", NoFrame, wneed, <<>>, p)
      BY <1>1, <2>4, NoFrameType DEF Where, Between
    <3>2. WsValues("recv", "open", NoFrame, wneed, <<>>, win, wsent)
      BY <1>1, <2>2, NoFrameType DEF WsValues, WsPlaces
    <3> QED BY <1>1, <1>6, <2>1, <2>3, <2>6, <3>1, <3>2, Settled
  <2> QED BY <2>1, <2>5, <2>6
<1> QED BY <1>7, <1>8

\* The places of the bytes of a piece follow each other, and they meet the bytes
\* of the key that are theirs if the piece starts at a multiple of the key.
LEMMA Placed ==
  ASSUME WsTypes, NEW f \in WsFrames, NEW a \in Nat, NEW b \in Seq(Nat \X Nat),
         \A i \in 1 .. Len(b) : b[i] = <<f, HdrLen(f) + a + i - 1>>
  PROVE  LET u == [i \in 1 .. Len(b) |-> <<b[i][1], Place(b[i])>>]
         IN /\ u \in Seq(Nat \X Nat) /\ Len(u) = Len(b)
            /\ \A i \in 1 .. Len(b) : u[i] = <<f, a + i - 1>>
            /\ a % MaskLen = 0 => Unmask(b)
<1> DEFINE u == [i \in 1 .. Len(b) |-> <<b[i][1], Place(b[i])>>]
           g == [i \in 1 .. Len(b) |-> <<f, a + i - 1>>]
<1>1. HdrLen(f) \in Nat /\ Len(b) \in Nat /\ f \in Nat /\ MaskLen \in Nat \ {0}
  BY Lengths, WsAssumption DEF WsFrames
<1>2. ASSUME NEW i \in 1 .. Len(b)
      PROVE  Place(b[i]) = a + i - 1 /\ b[i][1] = f /\ i - 1 \in Nat /\ a + (i - 1) = a + i - 1
  <2>1. b[i][1] = f /\ b[i][2] = HdrLen(f) + a + i - 1
    OBVIOUS
  <2>2. i - 1 \in Nat /\ a + (i - 1) = a + i - 1
    BY <1>1
  <2>3. b[i][2] - HdrLen(b[i][1]) = a + i - 1
    BY <1>1, <2>1
  <2> QED BY <2>1, <2>2, <2>3 DEF Place
<1>3. u = g
  BY <1>2
<1>4. ASSUME a % MaskLen = 0 PROVE Unmask(b)
  <2> SUFFICES ASSUME NEW i \in 1 .. Len(b) PROVE Place(b[i]) % MaskLen = KeyByte(i)
    BY DEF Unmask
  <2>1. (a + (i - 1)) % MaskLen = (i - 1) % MaskLen
    BY <1>1, <1>2, <1>4, ModAdd
  <2> QED BY <1>2, <2>1 DEF KeyByte
<1>6. \A i \in 1 .. Len(b) : <<f, a + i - 1>> \in Nat \X Nat
  <2> SUFFICES ASSUME NEW i \in 1 .. Len(b) PROVE a + i - 1 \in Nat
    BY <1>1
  <2> QED BY <1>1
<1>7. g \in [1 .. Len(b) -> Nat \X Nat] /\ \A i \in 1 .. Len(b) : g[i] = <<f, a + i - 1>>
  BY <1>6
<1> HIDE DEF g
<1>8. g \in Seq(Nat \X Nat) /\ Len(g) = Len(b)
  BY <1>1, <1>7, FunctionSeq
<1> QED BY <1>3, <1>4, <1>7, <1>8

\* RecvPayload: the piece that is read is the next one of the frame, and meets
\* the right bytes of the key if it starts at a multiple of it.
LEMMA RecvPayloadKeeps ==
  ASSUME WsIInv, RecvPayload
  PROVE  /\ WsIInv'
         /\ LET b == Got(Lesser(RcvBuf, wneed))
            IN /\ wrx.offs + Len(wbuf') = wrx.offs + Len(wbuf) + Len(b)
               /\ (wrx.offs + Len(wbuf)) % MaskLen = 0 => Unmask(b)
<1> DEFINE f == wrx.f
           at == wrx.offs + Len(wbuf)
           p == First(win, wsent)
           n == Lesser(RcvBuf, wneed)
           k == HdrLen(f) + at
           g == Got(n)
           m == Len(g)
           u == [i \in 1 .. Len(g) |-> <<g[i][1], Place(g[i])>>]
           b == wbuf \o u
           w == Rest(n)
           need == wneed - m
<1>1. /\ wpc = "pay" /\ wneed > 0 /\ wneed \in Nat /\ wstate = "open" /\ wrx \in RxType
      /\ win \in Seq(Nat \X Nat) /\ win # <<>> /\ Paying(wrx, wneed, wbuf, p)
      /\ wsent \in Nat \X Nat /\ Follow(win, wsent) /\ wbuf \in Seq(Nat \X Nat) /\ WsTypes /\ WsStream
      /\ Fits(wrx, wneed, wbuf)
  BY Parts DEF RecvPayload, WsValues, Where
<1>2. wrx.offs \in Nat /\ wrx.size \in Nat /\ Len(wbuf) \in Nat /\ at \in Nat
  BY <1>1 DEF RxType
<1>3. /\ Current(wrx) /\ wrx.op # "cont" /\ at + wneed <= wrx.size
      /\ at + wneed = wrx.size \/ wrx.op \in DataOps
      /\ wrx.op \notin DataOps => wrx.offs = 0
      /\ p = After(f, k) /\ \A i \in 1 .. Len(wbuf) : wbuf[i] = <<f, wrx.offs + i - 1>>
  BY <1>1 DEF Paying
<1>4. /\ f \in WsFrames /\ HdrLen(f) \in Nat /\ FrameLen(f) \in Nat
      /\ FrameLen(f) = HdrLen(f) + wrx.size
  BY <1>1, <1>3, Lengths DEF Current
<1>5. RcvBuf \in Nat /\ RcvBuf > 0
  BY WsAssumption
<1>6. n \in Nat /\ n > 0 /\ n <= wneed /\ (n = wneed \/ n = RcvBuf)
  BY <1>1, <1>5 DEF Lesser
<1>7. /\ wbuf' = b /\ wneed' = need /\ win' = w /\ UNCHANGED <<wlib, wrole, wpeer>> /\ wsent' = wsent
      /\ wstate' = wstate /\ wpc' = wpc /\ wrx' = wrx
  BY DEF RecvPayload
<1> HIDE DEF f, at, p, n
<1>8. k \in Nat /\ k + n <= FrameLen(f) /\ k # FrameLen(f)
  <2>1. wneed \in Nat /\ at + wneed <= wrx.size
    BY <1>1, <1>3
  <2> QED BY <1>2, <1>4, <1>6, <2>1
<1>9. win[1] = <<f, k>>
  BY <1>1, <1>3, <1>8 DEF First, After, p
<1> HIDE DEF k
<1>10. /\ m \in 1 .. n /\ m <= Len(win) /\ g \in Seq(Nat \X Nat)
       /\ \A i \in 1 .. m : g[i] = <<f, k + i - 1>>
       /\ w = SubSeq(win, m + 1, Len(win))
  <2>1. WsTypes /\ WsStream /\ win # <<>> /\ n \in Nat /\ n > 0
    BY <1>1, <1>6
  <2>2. LET l == Len(Got(n))
        IN /\ l \in 1 .. n /\ l <= Len(win) /\ Got(n) \in Seq(Nat \X Nat)
           /\ \A i \in 1 .. l : Got(n)[i] = <<f, k + i - 1>>
           /\ l = n \/ l = Len(win)
           /\ Rest(n) = SubSeq(win, l + 1, Len(win))
    BY <1>8, <1>9, <2>1, Take
  <2> QED BY <2>2, Zenon
<1>11. \A i \in 1 .. Len(g) : g[i] = <<f, HdrLen(f) + at + i - 1>>
  BY <1>10 DEF k
<1> HIDE DEF g, w
<1>12. /\ u \in Seq(Nat \X Nat) /\ Len(u) = m
       /\ \A i \in 1 .. m : u[i] = <<f, at + i - 1>>
       /\ at % MaskLen = 0 => Unmask(g)
  <2>1. WsTypes /\ f \in WsFrames /\ at \in Nat /\ g \in Seq(Nat \X Nat)
    BY <1>1, <1>2, <1>4, <1>10
  <2> QED BY <1>11, <2>1, Placed
<1> HIDE DEF u, m
<1>13. m \in Nat /\ m <= n /\ m >= 1 /\ need \in Nat /\ Len(win) \in Nat /\ m \in 1 .. Len(win)
  <2>1. m \in 1 .. n /\ m <= Len(win) /\ Len(win) \in Nat
    BY <1>1, <1>10
  <2> QED BY <1>1, <1>6, <2>1
<1>14. w \in Seq(Nat \X Nat) /\ Follow(w, wsent) /\ First(w, wsent) = After(f, k + m)
  <2>1. k + m <= FrameLen(f)
    BY <1>4, <1>6, <1>8, <1>13
  <2> QED BY <1>1, <1>9, <1>10, <1>13, <2>1, Drop
<1>15. b \in Seq(Nat \X Nat) /\ Len(b) = Len(wbuf) + m
  BY <1>1, <1>12, ConcatProperties
<1>16. ASSUME NEW i \in 1 .. Len(b) PROVE b[i] = <<f, wrx.offs + i - 1>>
  <2>1. b[i] = IF i <= Len(wbuf) THEN wbuf[i] ELSE u[i - Len(wbuf)]
    BY <1>1, <1>12, <1>15, ConcatProperties
  <2>2. CASE i <= Len(wbuf)
    <3>1. i \in 1 .. Len(wbuf)
      BY <1>2, <1>13, <1>15, <2>2
    <3> QED BY <1>3, <2>1, <2>2, <3>1
  <2>3. CASE ~(i <= Len(wbuf))
    <3>1. i - Len(wbuf) \in 1 .. m
      BY <1>2, <1>13, <1>15, <2>3
    <3>2. at + (i - Len(wbuf)) - 1 = wrx.offs + i - 1
      <4>1. i \in Nat /\ Len(wbuf) \in Nat /\ wrx.offs \in Nat
        BY <1>2, <1>15
      <4> QED BY <4>1 DEF at
    <3>3. u[i - Len(wbuf)] = <<f, at + (i - Len(wbuf)) - 1>>
      BY <1>12, <3>1
    <3> QED BY <2>1, <2>3, <3>2, <3>3
  <2> QED BY <2>2, <2>3
<1> HIDE DEF b
<1>18. /\ wrx.offs + Len(b) = at + m /\ (at + m) + need = at + wneed /\ HdrLen(f) + (at + m) = k + m
       /\ need <= wrx.size
  <2>1. wneed \in Nat /\ at + wneed <= wrx.size /\ Len(b) = Len(wbuf) + m /\ m \in Nat
    BY <1>1, <1>3, <1>13, <1>15
  <2>2. wrx.offs + Len(b) = at + m
    BY <1>2, <2>1 DEF at
  <2>3. HdrLen(f) + (at + m) = k + m
    BY <1>2, <1>4, <2>1 DEF k
  <2>4. (at + m) + need = at + wneed /\ need <= wrx.size
    BY <1>2, <2>1
  <2> QED BY <2>2, <2>3, <2>4
<1> HIDE DEF need
<1>19. Paying(wrx, need, b, First(w, wsent))
  <2>1. \A i \in 1 .. Len(b) : b[i] = <<wrx.f, wrx.offs + i - 1>>
    BY <1>16 DEF f
  <2>2. First(w, wsent) = After(wrx.f, HdrLen(wrx.f) + (at + m))
    BY <1>14, <1>18 DEF f
  <2> QED BY <1>3, <1>18, <2>1, <2>2 DEF Paying
<1>20. Where("pay", wrx, need, b, First(w, wsent))
  BY <1>19 DEF Where
<1>21. WsValues("pay", "open", wrx, need, b, w, wsent)
  BY <1>1, <1>13, <1>14, <1>15 DEF WsValues, WsPlaces
<1>22. Fits(wrx, need, b)
  <2>1. \A i \in 1 .. Len(b) : b[i][1] = wrx.f
    BY <1>16 DEF f
  <2> QED BY <1>1, <1>18, <2>1 DEF Fits
<1>23. WsIInv'
  BY <1>1, <1>7, <1>14, <1>20, <1>21, <1>22, Settled
<1>24. /\ wrx.offs + Len(wbuf') = wrx.offs + Len(wbuf) + Len(g)
       /\ (wrx.offs + Len(wbuf)) % MaskLen = 0 => Unmask(g)
  BY <1>7, <1>12, <1>18 DEF at, m
<1> QED BY <1>23, <1>24 DEF g, n

\* What came that is not handled stays.
LEMMA OddStays ==
  ASSUME [WsNext]_wvars, ~wodd'
  PROVE  ~wodd
<1>1. CASE RecvHdr \/ CloseHdr
  <2>1. wodd' = wodd \/ wodd' = TRUE \/ wodd' = (wodd \/ Len(Got(2)) < 2)
    BY <1>1 DEF RecvHdr, CloseHdr, RecvHeader
  <2> QED BY <2>1, Zenon
<1>2. CASE RecvMore \/ CloseDrop
  <2>1. \/ wodd' = wodd
        \/ wodd' = (wodd \/ OddRest(wrx.f, More(wrx.f)))
        \/ wodd' = (wodd \/ OddControl(wrx.f))
    BY <1>2 DEF RecvMore, CloseDrop
  <2> QED BY <2>1, Zenon
<1>3. CASE Deliver \/ Accept \/ WsListen \/ WsConnect \/ RecvStart \/ SendPing \/ RecvFails
             \/ RecvPayload \/ RecvDone \/ AppSend \/ AppClose \/ CloseFails \/ UNCHANGED wvars
  <2>1. wodd' = wodd
    BY <1>3 DEF Deliver, Accept, WsListen, WsConnect, RecvStart, SendPing, RecvFails, RecvPayload, RecvDone,
                AppSend, AppClose, CloseFails, wvars, whist
  <2> QED BY <2>1, Zenon
<1> QED BY <1>1, <1>2, <1>3 DEF WsNext

\* Every step keeps the invariant, as long as what comes is handled.
LEMMA WsStep ==
  ASSUME WsIInv, ~wodd', [WsNext]_wvars
  PROVE  WsIInv'
<1>1. CASE Deliver
  BY <1>1, DeliverKeeps
<1>2. CASE Accept \/ WsListen \/ WsConnect
  BY <1>2, OpensKeep
<1>3. CASE RecvStart
  BY <1>3, RecvStartKeeps
<1>4. CASE RecvHdr \/ CloseHdr
  <2>1. CASE RecvHdr
    BY <2>1, RecvHeaderKeeps DEF RecvHdr
  <2>2. CASE CloseHdr
    BY <2>2, RecvHeaderKeeps DEF CloseHdr
  <2> QED BY <1>4, <2>1, <2>2
<1>5. CASE RecvMore
  BY <1>5, RecvMoreKeeps
<1>6. CASE SendPing
  BY <1>6, PingKeeps
<1>7. CASE RecvFails \/ CloseFails
  BY <1>7, FailsKeep
<1>8. CASE RecvPayload
  BY <1>8, RecvPayloadKeeps
<1>9. CASE RecvDone
  BY <1>9, RecvDoneKeeps
<1>10. CASE AppSend
  BY <1>10, AppSendKeeps
<1>11. CASE AppClose
  BY <1>11, CloseKeeps
<1>12. CASE CloseDrop
  BY <1>12, CloseDropKeeps
<1>13. CASE UNCHANGED wvars
  <2>1. UNCHANGED <<wlib, wrole, wpeer, wsent, win, wrx, wneed, wbuf>> /\ wpc' = wpc /\ wstate' = wstate
    BY <1>13 DEF wvars
  <2>2. /\ wpc \in WsPlaces /\ wstate \in {"open", "closed"} /\ (wpc \notin {"open", "end"} => wstate = "open")
        /\ Where(wpc, wrx, wneed, wbuf, First(win, wsent))
    BY Parts DEF WsValues
  <2> QED BY <2>1, <2>2, Stayed
<1> QED BY <1>1, <1>2, <1>3, <1>4, <1>5, <1>6, <1>7, <1>8, <1>9, <1>10, <1>11, <1>12, <1>13 DEF WsNext

\* The invariant says that no frame boundary was lost.
LEMMA WsIInvFramed == WsIInv => Framed
<1> SUFFICES ASSUME WsIInv PROVE Framed
  OBVIOUS
<1>1. WsValues(wpc, wstate, wrx, wneed, wbuf, win, wsent) /\ Fits(wrx, wneed, wbuf)
  BY Parts
<1> QED BY <1>1 DEF Framed, WsTypeOK, WsValues, WsPlaces, Fits

\* The receiving engine of uhttpsrv/ws.c and of net/websocket, in either role,
\* never loses the frame boundary: RecvHeader always reads a header and
\* RecvPayload the payload of that frame, for every sequence of frames, every
\* size of the buffers and however the socket cuts the stream, until a header
\* arrives in parts, or a frame with a 64-bit size, with a wrong mask bit or
\* with more control data than fits (wodd).
THEOREM FramesKept == WsSpec => []Framed
<1>1. WsInit => (~wodd => WsIInv)
  BY WsInitInv
<1>2. (~wodd => WsIInv) /\ [WsNext]_wvars => (~wodd => WsIInv)'
  BY WsStep, OddStays
<1>3. (~wodd => WsIInv) => Framed
  BY WsIInvFramed DEF Framed
<1> QED BY <1>1, <1>2, <1>3, PTL DEF WsSpec

-----------------------------------------------------------------------------
(* Websockets: what is sent back.                                           *)

\* A frame that was sent.
OutType == [op : WsOps \cup {"none"}, pld : Seq(Nat \X Nat)]

\* The first m bytes of the payload of frame f, the payload of the first g
\* frames whose opcodes are in K, and what the frames o of kinds K carry.
Part(f, m) == [i \in 1 .. m |-> <<f, i - 1>>]
Told1(f, K) == IF wpeer[f].op \in K THEN Part(f, wpeer[f].n) ELSE <<>>
Heard(g, K) == FlattenSeq([f \in 1 .. g |-> Told1(f, K)])
Said1(r, K) == IF r.op \in K THEN r.pld ELSE <<>>
Said(o, K) == FlattenSeq([i \in 1 .. Len(o) |-> Said1(o[i], K)])

Right(o) ==
  /\ IsPrefix(Said(o, DataOps), Heard(Len(wpeer), DataOps))
  /\ IsPrefix(Said(o, {"pong"}), Heard(Len(wpeer), {"ping"}))

\* The first g frames and m bytes of the next one have been answered.
Echoed(g, m, o) ==
  /\ g \in 0 .. Len(wpeer) /\ m \in Nat
  /\ m > 0 => g + 1 \in WsFrames /\ wpeer[g + 1].op \in DataOps /\ m <= wpeer[g + 1].n
  /\ Said(o, DataOps) = Heard(g, DataOps) \o Part(g + 1, m)
  /\ Said(o, {"pong"}) = Heard(g, {"ping"})

EchoWhere(pc, x, b, p, o) ==
  /\ pc \in {"open", "hdr"} => Echoed(p[1] - 1, 0, o)
  /\ pc = "recv" => IF x.offs = x.size THEN Echoed(p[1] - 1, 0, o) ELSE Echoed(x.f - 1, x.offs, o)
  /\ pc \in {"more", "pay"} => Echoed(x.f - 1, x.offs, o)
  /\ pc = "send" => /\ Echoed(x.f - 1, x.offs - Len(b), o) /\ Current(x) /\ x.op \in DataOps
                    /\ p = After(x.f, HdrLen(x.f) + x.offs)

WsEInv == /\ WsIInv /\ wout \in Seq(OutType) /\ Right(wout)
          /\ EchoWhere(wpc, wrx, wbuf, Ahead, wout)

\* The bytes of a part.
LEMMA PartType ==
  ASSUME NEW f \in Nat, NEW m \in Nat
  PROVE  /\ Part(f, m) \in Seq(Nat \X Nat) /\ Len(Part(f, m)) = m
         /\ \A i \in 1 .. m : Part(f, m)[i] = <<f, i - 1>>
<1>1. \A i \in 1 .. m : <<f, i - 1>> \in Nat \X Nat
  OBVIOUS
<1>2. Part(f, m) \in [1 .. m -> Nat \X Nat] /\ \A i \in 1 .. m : Part(f, m)[i] = <<f, i - 1>>
  BY <1>1 DEF Part
<1> QED BY <1>2, FunctionSeq

\* A part and the bytes that follow it.
LEMMA PartJoin ==
  ASSUME NEW f \in Nat, NEW m \in Nat, NEW b \in Seq(Nat \X Nat),
         \A i \in 1 .. Len(b) : b[i] = <<f, m + i - 1>>
  PROVE  Part(f, m) \o b = Part(f, m + Len(b))
<1> DEFINE s == Part(f, m)
           n == m + Len(b)
           t == Part(f, n)
           c == s \o b
<1>1. Len(b) \in Nat /\ n \in Nat
  OBVIOUS
<1>2. s \in Seq(Nat \X Nat) /\ Len(s) = m /\ \A i \in 1 .. m : s[i] = <<f, i - 1>>
  BY PartType
<1>3. t \in Seq(Nat \X Nat) /\ Len(t) = n /\ \A i \in 1 .. n : t[i] = <<f, i - 1>>
  BY <1>1, PartType
<1> HIDE DEF s, t
<1>4. c \in Seq(Nat \X Nat) /\ Len(c) = n
  BY <1>2, ConcatProperties
<1>5. ASSUME NEW i \in 1 .. n PROVE c[i] = t[i]
  <2>1. c[i] = IF i <= Len(s) THEN s[i] ELSE b[i - Len(s)]
    BY <1>2, <1>4, ConcatProperties
  <2>2. CASE i <= m
    <3>1. i \in 1 .. m
      BY <1>1, <2>2
    <3> QED BY <1>2, <1>3, <2>1, <2>2, <3>1
  <2>3. CASE ~(i <= m)
    <3>1. i - m \in 1 .. Len(b) /\ m + (i - m) - 1 = i - 1
      BY <1>1, <2>3
    <3>2. b[i - m] = <<f, i - 1>>
      BY <3>1
    <3> QED BY <1>2, <1>3, <2>1, <2>3, <3>2
  <2> QED BY <2>2, <2>3
<1> HIDE DEF c, n
<1>6. c = t
  BY <1>1, <1>3, <1>4, <1>5, SeqEqual
<1> QED BY <1>6 DEF c, t, s, n

\* The payload of one frame.
LEMMA Told1Type ==
  ASSUME WsTypes, NEW f \in WsFrames, NEW K
  PROVE  Told1(f, K) \in Seq(Nat \X Nat)
<1>1. f \in Nat /\ wpeer[f].n \in Nat
  BY Lengths DEF WsFrames
<1>2. Part(f, wpeer[f].n) \in Seq(Nat \X Nat)
  BY <1>1, PartType
<1> QED BY <1>2, EmptySeq DEF Told1

\* One more frame is heard.
LEMMA HeardNext ==
  ASSUME WsTypes, NEW g \in Nat, g + 1 \in WsFrames, NEW K
  PROVE  Heard(g + 1, K) = Heard(g, K) \o Told1(g + 1, K) /\ Heard(g, K) \in Seq(Nat \X Nat)
<1> DEFINE U == Nat \X Nat
           ss == [f \in 1 .. g |-> Told1(f, K)]
           tt == [f \in 1 .. g + 1 |-> Told1(f, K)]
           c == Told1(g + 1, K)
<1>1. \A f \in 1 .. g + 1 : f \in WsFrames
  BY WsAssumption DEF WsFrames, WsTypes
<1>2. \A f \in 1 .. g + 1 : Told1(f, K) \in Seq(U)
  BY <1>1, Told1Type
<1>3. ss \in [1 .. g -> Seq(U)] /\ tt \in [1 .. g + 1 -> Seq(U)] /\ c \in Seq(U)
  BY <1>2
<1>4. /\ \A f \in 1 .. g : ss[f] = Told1(f, K)
      /\ \A f \in 1 .. g + 1 : tt[f] = Told1(f, K)
  OBVIOUS
<1>5. Heard(g, K) = FlattenSeq(ss) /\ Heard(g + 1, K) = FlattenSeq(tt)
  BY DEF Heard
<1> HIDE DEF ss, tt, U
<1>6. ss \in Seq(Seq(U)) /\ Len(ss) = g
  BY <1>3, FunctionSeq
<1>7. tt \in Seq(Seq(U)) /\ Len(tt) = g + 1
  BY <1>3, FunctionSeq
<1>8. tt = Append(ss, c)
  <2> DEFINE a == Append(ss, c)
  <2>1. /\ a \in Seq(Seq(U)) /\ Len(a) = g + 1 /\ a[g + 1] = c /\ \A i \in 1 .. g : a[i] = ss[i]
    BY <1>3, <1>6, AppendProperties
  <2> HIDE DEF a
  <2>2. ASSUME NEW i \in 1 .. g + 1 PROVE a[i] = tt[i]
    <3>1. CASE i = g + 1
      BY <1>4, <2>1, <3>1
    <3>2. CASE i # g + 1
      <4>1. i \in 1 .. g
        BY <3>2
      <4> QED BY <1>4, <2>1, <4>1
    <3> QED BY <3>1, <3>2
  <2>3. a = tt
    BY <1>7, <2>1, <2>2, SeqEqual
  <2> QED BY <2>3 DEF a
<1>9. FlattenSeq(tt) = FlattenSeq(ss) \o c /\ FlattenSeq(ss) \in Seq(U)
  BY <1>3, <1>6, <1>8, FlattenAppend, FlattenType
<1> QED BY <1>5, <1>9 DEF U

\* What was heard is a sequence of bytes, and nothing at first.
LEMMA HeardType ==
  ASSUME WsTypes, NEW g \in 0 .. Len(wpeer), NEW K
  PROVE  Heard(g, K) \in Seq(Nat \X Nat) /\ Heard(0, K) = <<>>
<1> DEFINE ss == [f \in 1 .. g |-> Told1(f, K)]
           zz == [f \in 1 .. 0 |-> Told1(f, K)]
           U == Nat \X Nat
<1>0. Len(wpeer) \in Nat
  BY WsAssumption DEF WsTypes
<1>1. \A f \in 1 .. g : Told1(f, K) \in Seq(U)
  <2>1. \A f \in 1 .. g : f \in WsFrames
    BY <1>0 DEF WsFrames
  <2> QED BY <2>1, Told1Type
<1>2. ss \in [1 .. g -> Seq(U)] /\ g \in Nat
  BY <1>0, <1>1
<1>3. zz = <<>>
  OBVIOUS
<1>4. <<>> \in Seq(Seq(U)) /\ Len(<<>>) = 0
  BY EmptySeq
<1> HIDE DEF ss, U, zz
<1>5. ss \in Seq(Seq(U))
  BY <1>2, FunctionSeq
<1>6. FlattenSeq(ss) \in Seq(U) /\ FlattenSeq(zz) = <<>>
  BY <1>3, <1>4, <1>5, FlattenType
<1> QED BY <1>6 DEF Heard, ss, zz, U

\* What was heard first is a prefix of all there is to hear.
LEMMA HeardOn ==
  ASSUME WsTypes, NEW g \in 0 .. Len(wpeer), NEW K
  PROVE  \E u \in Seq(Nat \X Nat) : Heard(Len(wpeer), K) = Heard(g, K) \o u
<1> DEFINE U == Nat \X Nat
           l == Len(wpeer)
           Q(d) == g + d <= l => \E u \in Seq(U) : Heard(g + d, K) = Heard(g, K) \o u
           P == {d \in Nat : Q(d)}
<1>0. l \in Nat /\ g \in Nat /\ g <= l
  <2>1. l \in Nat
    BY WsAssumption DEF WsTypes
  <2> QED BY <2>1
<1>1. Heard(g, K) \in Seq(U)
  BY HeardType
<1>2. 0 \in P
  <2>1. Heard(g, K) = Heard(g, K) \o <<>> /\ <<>> \in Seq(U) /\ g + 0 = g
    BY <1>0, <1>1, ConcatEmptySeq, EmptySeq
  <2> QED BY <2>1
<1>3. ASSUME NEW d \in Nat, d \in P PROVE d + 1 \in P
  <2> SUFFICES ASSUME g + (d + 1) <= l PROVE \E u \in Seq(U) : Heard(g + (d + 1), K) = Heard(g, K) \o u
    OBVIOUS
  <2>1. g + d <= l /\ g + d \in Nat /\ (g + d) + 1 \in 1 .. l /\ (g + d) + 1 = g + (d + 1)
    BY <1>0
  <2>2. PICK u \in Seq(U) : Heard(g + d, K) = Heard(g, K) \o u
    BY <1>3, <2>1
  <2>3. (g + d) + 1 \in WsFrames
    BY <2>1 DEF WsFrames
  <2>4. Heard((g + d) + 1, K) = Heard(g + d, K) \o Told1((g + d) + 1, K)
    BY <2>1, <2>3, HeardNext
  <2> DEFINE c == Told1((g + d) + 1, K)
  <2>5. c \in Seq(U)
    BY <2>3, Told1Type
  <2> HIDE DEF c, U
  <2>6. (Heard(g, K) \o u) \o c = Heard(g, K) \o (u \o c)
    <3> DEFINE h == Heard(g, K)
    <3>1. h \in Seq(U) /\ u \in Seq(U)
      BY <1>1
    <3> HIDE DEF h
    <3>2. (h \o u) \o c = h \o (u \o c)
      BY <2>5, <3>1, JoinAssoc
    <3> QED BY <3>2 DEF h
  <2>7. u \o c \in Seq(U)
    BY <2>5, ConcatProperties
  <2>8. Heard(g + (d + 1), K) = Heard(g, K) \o (u \o c)
    BY <2>1, <2>2, <2>4, <2>6 DEF c
  <2> QED BY <2>7, <2>8
<1>4. l - g \in P
  <2> HIDE DEF P
  <2>1. l - g \in Nat
    BY <1>0
  <2>2. Nat \subseteq P
    BY <1>2, <1>3, NatInduct
  <2> QED BY <2>1, <2>2
<1>5. g + (l - g) = l /\ l <= l
  BY <1>0
<1>6. Q(l - g)
  BY <1>4
<1> HIDE DEF l
<1>7. \E u \in Seq(U) : Heard(l, K) = Heard(g, K) \o u
  BY <1>5, <1>6
<1> QED BY <1>7 DEF l

\* What comes first is a prefix.
LEMMA PrefixJoin ==
  ASSUME NEW U, NEW s \in Seq(U), NEW u \in Seq(U)
  PROVE  IsPrefix(s, s \o u)
<1>1. Len(s) \in Nat /\ Len(u) \in Nat /\ Len(s \o u) = Len(s) + Len(u)
  BY ConcatProperties
<1>2. SubSeq(s \o u, 1, Len(s)) = s
  BY CatFront DEF Cat
<1>3. SubSeq(s, 1, Len(s)) = s
  OBVIOUS
<1> QED BY <1>1, <1>2, <1>3 DEF IsPrefix

\* One more frame is sent.
LEMMA SaidNext ==
  ASSUME NEW o \in Seq(OutType), NEW r \in OutType, NEW K
  PROVE  /\ Append(o, r) \in Seq(OutType) /\ Said(o, K) \in Seq(Nat \X Nat)
         /\ Said(Append(o, r), K) = Said(o, K) \o Said1(r, K)
<1> DEFINE U == Nat \X Nat
           n == Len(o)
           q == Append(o, r)
           ss == [i \in 1 .. n |-> Said1(o[i], K)]
           tt == [i \in 1 .. n + 1 |-> Said1(q[i], K)]
           c == Said1(r, K)
<1>1. /\ q \in Seq(OutType) /\ Len(q) = n + 1 /\ q[n + 1] = r /\ n \in Nat
      /\ \A i \in 1 .. n : q[i] = o[i]
  BY AppendProperties
<1>2. \A x \in OutType : Said1(x, K) \in Seq(U)
  BY EmptySeq DEF OutType, Said1
<1>3. \A i \in 1 .. n : o[i] \in OutType
  BY <1>1, ElementOfSeq
<1>4. \A i \in 1 .. n + 1 : q[i] \in OutType
  BY <1>1, ElementOfSeq
<1>5. Said(o, K) = FlattenSeq(ss) /\ Said(q, K) = FlattenSeq(tt)
  BY <1>1 DEF Said
<1> HIDE DEF q, n, U
<1>6. /\ ss \in [1 .. n -> Seq(U)] /\ tt \in [1 .. n + 1 -> Seq(U)] /\ c \in Seq(U)
      /\ \A i \in 1 .. n : ss[i] = Said1(o[i], K)
      /\ \A i \in 1 .. n + 1 : tt[i] = Said1(q[i], K)
  BY <1>2, <1>3, <1>4
<1> HIDE DEF ss, tt, c
<1>7. ss \in Seq(Seq(U)) /\ Len(ss) = n /\ tt \in Seq(Seq(U)) /\ Len(tt) = n + 1 /\ n + 1 \in Nat
  BY <1>1, <1>6, FunctionSeq
<1>8. tt = Append(ss, c)
  <2> DEFINE a == Append(ss, c)
  <2>1. /\ a \in Seq(Seq(U)) /\ Len(a) = n + 1 /\ a[n + 1] = c /\ \A i \in 1 .. n : a[i] = ss[i]
    BY <1>6, <1>7, AppendProperties
  <2> HIDE DEF a
  <2>2. ASSUME NEW i \in 1 .. n + 1 PROVE a[i] = tt[i]
    <3>1. CASE i = n + 1
      BY <1>1, <1>6, <2>1, <3>1 DEF c
    <3>2. CASE i # n + 1
      <4>1. i \in 1 .. n
        BY <1>1, <3>2
      <4> QED BY <1>1, <1>6, <2>1, <4>1
    <3> QED BY <3>1, <3>2
  <2>3. a = tt
    BY <1>7, <2>1, <2>2, SeqEqual
  <2> QED BY <2>3 DEF a
<1>9. FlattenSeq(tt) = FlattenSeq(ss) \o c /\ FlattenSeq(ss) \in Seq(U)
  BY <1>6, <1>7, <1>8, FlattenAppend, FlattenType
<1> QED BY <1>1, <1>5, <1>9 DEF U, q, c

\* What was said is a sequence of bytes.
LEMMA SaidType ==
  ASSUME NEW o \in Seq(OutType), NEW K
  PROVE  Said(o, K) \in Seq(Nat \X Nat)
<1>1. <<>> \in Seq(Nat \X Nat)
  BY EmptySeq
<1>2. [op |-> "none", pld |-> <<>>] \in OutType
  BY <1>1 DEF OutType
<1> QED BY <1>2, SaidNext

\* What was answered so far is right.
LEMMA EchoedRight ==
  ASSUME WsTypes, NEW g, NEW m, NEW o, Echoed(g, m, o)
  PROVE  Right(o)
<1> DEFINE U == Nat \X Nat
<1>1. g \in 0 .. Len(wpeer) /\ m \in Nat /\ Len(wpeer) \in Nat /\ g \in Nat /\ g + 1 \in Nat
  <2>1. Len(wpeer) \in Nat
    BY WsAssumption DEF WsTypes
  <2> QED BY <2>1 DEF Echoed
<1>2. IsPrefix(Said(o, {"pong"}), Heard(Len(wpeer), {"ping"}))
  <2>1. PICK u \in Seq(U) : Heard(Len(wpeer), {"ping"}) = Heard(g, {"ping"}) \o u
    BY <1>1, HeardOn
  <2>2. Heard(g, {"ping"}) \in Seq(U)
    BY <1>1, HeardType
  <2>3. IsPrefix(Heard(g, {"ping"}), Heard(g, {"ping"}) \o u)
    BY <2>2, PrefixJoin
  <2> QED BY <2>1, <2>3 DEF Echoed
<1>3. IsPrefix(Said(o, DataOps), Heard(Len(wpeer), DataOps))
  <2> DEFINE h == Heard(g, DataOps)
             c == Part(g + 1, m)
  <2>1. h \in Seq(U) /\ c \in Seq(U) /\ Said(o, DataOps) = h \o c
    BY <1>1, HeardType, PartType DEF Echoed
  <2> HIDE DEF h, c
  <2>2. h \o c \in Seq(U)
    BY <2>1, ConcatProperties
  <2>3. \E v \in Seq(U) : Heard(Len(wpeer), DataOps) = (h \o c) \o v
    <3>1. CASE m = 0
      <4>1. c = <<>>
        BY <3>1 DEF c, Part
      <4>2. h \o c = h
        BY <2>1, <4>1, ConcatEmptySeq
      <4> QED BY <1>1, <4>2, HeardOn DEF h
    <3>2. CASE m > 0
      <4>1. g + 1 \in WsFrames /\ wpeer[g + 1].op \in DataOps /\ m <= wpeer[g + 1].n
        BY <3>2 DEF Echoed
      <4> DEFINE n == wpeer[g + 1].n
                 d == [i \in 1 .. n - m |-> <<g + 1, m + i - 1>>]
      <4>2. n \in Nat /\ n - m \in Nat
        BY <1>1, <4>1, Lengths
      <4>3. d \in Seq(U) /\ Len(d) = n - m /\ \A i \in 1 .. n - m : d[i] = <<g + 1, m + i - 1>>
        <5> HIDE DEF n
        <5>1. \A i \in 1 .. n - m : <<g + 1, m + i - 1>> \in Nat \X Nat
          BY <1>1, <4>2
        <5>2. d \in [1 .. n - m -> U] /\ \A i \in 1 .. n - m : d[i] = <<g + 1, m + i - 1>>
          BY <5>1
        <5> HIDE DEF d, U
        <5> QED BY <4>2, <5>2, FunctionSeq
      <4> HIDE DEF d, n
      <4>4. c \o d = Part(g + 1, n)
        <5>0. \A i \in 1 .. Len(d) : d[i] = <<g + 1, m + i - 1>>
          BY <4>3
        <5>1. c \o d = Part(g + 1, m + Len(d))
          BY <1>1, <4>3, <5>0, PartJoin DEF c
        <5>2. m + Len(d) = n
          BY <1>1, <4>2, <4>3
        <5> QED BY <5>1, <5>2
      <4>5. Told1(g + 1, DataOps) = c \o d
        BY <4>1, <4>4 DEF Told1, n
      <4>6. Heard(g + 1, DataOps) = h \o (c \o d)
        BY <1>1, <4>1, <4>5, HeardNext DEF h
      <4>7. h \o (c \o d) = (h \o c) \o d
        <5> HIDE DEF U
        <5>1. h \in Seq(U) /\ c \in Seq(U) /\ d \in Seq(U)
          BY <2>1, <4>3
        <5> QED BY <5>1, JoinAssoc
      <4>8. g + 1 \in 0 .. Len(wpeer)
        BY <1>1, <4>1 DEF WsFrames
      <4>9. PICK u \in Seq(U) : Heard(Len(wpeer), DataOps) = Heard(g + 1, DataOps) \o u
        BY <4>8, HeardOn
      <4>10. ((h \o c) \o d) \o u = (h \o c) \o (d \o u) /\ d \o u \in Seq(U)
        <5>1. d \o u \in Seq(U)
          BY <4>3, ConcatProperties
        <5> DEFINE e == h \o c
        <5>2. e \in Seq(U)
          BY <2>2
        <5> HIDE DEF U, e
        <5>3. (e \o d) \o u = e \o (d \o u)
          <6>1. d \in Seq(U) /\ u \in Seq(U)
            BY <4>3
          <6> QED BY <5>2, <6>1, JoinAssoc
        <5> QED BY <5>1, <5>3 DEF e
      <4>11. Heard(Len(wpeer), DataOps) = (h \o c) \o (d \o u)
        BY <4>6, <4>7, <4>9, <4>10
      <4> HIDE DEF U
      <4> QED BY <4>10, <4>11
    <3>3. m = 0 \/ m > 0
      BY <1>1
    <3> HIDE DEF U
    <3> QED BY <3>1, <3>2, <3>3
  <2>4. PICK v \in Seq(U) : Heard(Len(wpeer), DataOps) = (h \o c) \o v
    BY <2>3
  <2>5. IsPrefix(h \o c, (h \o c) \o v)
    BY <2>2, PrefixJoin
  <2> QED BY <2>1, <2>4, <2>5
<1> QED BY <1>2, <1>3 DEF Right

\* The next frame carries nothing, or all of it has been answered.
LEMMA EchoedNext ==
  ASSUME WsTypes, NEW g \in Nat, g + 1 \in WsFrames, NEW o,
         Said(o, DataOps) = Heard(g, DataOps) \o Told1(g + 1, DataOps),
         Said(o, {"pong"}) = Heard(g, {"ping"}) \o Told1(g + 1, {"ping"})
  PROVE  Echoed(g + 1, 0, o)
<1>1. Heard(g + 1, DataOps) = Said(o, DataOps) /\ Heard(g + 1, {"ping"}) = Said(o, {"pong"})
  BY HeardNext
<1>2. g + 1 \in 0 .. Len(wpeer)
  BY DEF WsFrames
<1>3. Heard(g + 1, DataOps) \in Seq(Nat \X Nat)
  BY <1>2, HeardType
<1>4. Part((g + 1) + 1, 0) = <<>>
  BY DEF Part
<1>5. Heard(g + 1, DataOps) \o Part((g + 1) + 1, 0) = Heard(g + 1, DataOps)
  BY <1>3, <1>4, ConcatEmptySeq
<1> QED BY <1>1, <1>2, <1>5 DEF Echoed

\* The invariant is about the values of the variables.
LEMMA EchoSettled ==
  ASSUME WsEInv, WsIInv', UNCHANGED <<wlib, wrole, wpeer>>,
         NEW pc, NEW x, NEW b, NEW p, NEW o \in Seq(OutType),
         wpc' = pc, wrx' = x, wbuf' = b, Ahead' = p, wout' = o,
         Right(o), EchoWhere(pc, x, b, p, o)
  PROVE  WsEInv'
<1>1. wrole' = wrole /\ wpeer' = wpeer
  OBVIOUS
<1>2. Right(wout)'
  BY <1>1 DEF Right, Said, Said1, Heard, Told1, Part
<1>3. EchoWhere(wpc, wrx, wbuf, Ahead, wout)'
  BY <1>1 DEF EchoWhere, Echoed, Said, Said1, Heard, Told1, Part, Current, After, WsFrames, FrameLen, HdrLen,
     SizeLen, KeyLen, Masked
<1> QED BY <1>2, <1>3 DEF WsEInv

\* The parts of the invariant.
LEMMA EchoParts ==
  ASSUME WsEInv
  PROVE  /\ WsIInv /\ WsTypes /\ wout \in Seq(OutType) /\ Right(wout)
         /\ EchoWhere(wpc, wrx, wbuf, Ahead, wout)
         /\ WsValues(wpc, wstate, wrx, wneed, wbuf, win, wsent)
         /\ Where(wpc, wrx, wneed, wbuf, Ahead)
BY Parts DEF WsEInv, Ahead

\* Nothing is sent.
LEMMA Silent ==
  ASSUME WsEInv, WsIInv', UNCHANGED <<wlib, wrole, wpeer>>, wout' = wout,
         NEW pc, NEW x, NEW b, NEW p,
         wpc' = pc, wrx' = x, wbuf' = b, Ahead' = p, EchoWhere(pc, x, b, p, wout)
  PROVE  WsEInv'
<1>1. wout \in Seq(OutType) /\ Right(wout)
  BY EchoParts
<1> QED BY <1>1, EchoSettled

\* From here on nothing is echoed any more.
LEMMA Over ==
  ASSUME WsEInv, WsIInv', UNCHANGED <<wlib, wrole, wpeer>>, wpc' \in {"chdr", "cmore", "end"},
         NEW o \in Seq(OutType), wout' = o, Right(o)
  PROVE  WsEInv'
<1>1. EchoWhere(wpc', wrx', wbuf', Ahead', o)
  BY DEF EchoWhere
<1> QED BY <1>1, EchoSettled

\* Nothing is sent, and nothing is echoed any more.
LEMMA SilentOver ==
  ASSUME WsEInv, WsIInv', UNCHANGED <<wlib, wrole, wpeer>>, wpc' \in {"chdr", "cmore", "end"},
         wout' = wout
  PROVE  WsEInv'
BY EchoParts, Over

\* A close frame is no echo.
LEMMA ClosedRight ==
  ASSUME WsEInv, NEW b \in Seq(Nat \X Nat)
  PROVE  LET o == Append(wout, [op |-> "close", pld |-> b])
         IN o \in Seq(OutType) /\ Right(o)
<1> DEFINE r == [op |-> "close", pld |-> b]
           o == Append(wout, r)
<1>1. r \in OutType /\ r.op = "close"
  BY DEF OutType, WsOps
<1>2. wout \in Seq(OutType) /\ Right(wout)
  BY EchoParts
<1>3. Said1(r, DataOps) = <<>> /\ Said1(r, {"pong"}) = <<>>
  BY <1>1 DEF Said1, DataOps
<1> HIDE DEF r
<1>4. /\ o \in Seq(OutType) /\ Said(wout, DataOps) \in Seq(Nat \X Nat) /\ Said(wout, {"pong"}) \in Seq(Nat \X Nat)
      /\ Said(o, DataOps) = Said(wout, DataOps) \o <<>>
      /\ Said(o, {"pong"}) = Said(wout, {"pong"}) \o <<>>
  BY <1>1, <1>2, <1>3, SaidNext
<1>5. Said(o, DataOps) = Said(wout, DataOps) /\ Said(o, {"pong"}) = Said(wout, {"pong"})
  BY <1>4, ConcatEmptySeq
<1> QED BY <1>2, <1>4, <1>5 DEF Right, r

\* Nothing is heard or said before the connection is opened.
LEMMA WsInitEcho == WsInit => WsEInv
<1> SUFFICES ASSUME WsInit PROVE WsEInv
  OBVIOUS
<1>1. WsIInv /\ wout = <<>> /\ wpc = "open" /\ win = <<>> /\ wsent = <<1, 0>>
  BY WsInitInv DEF WsInit, WsStart
<1>2. WsTypes /\ Len(wpeer) \in Nat
  BY <1>1, WsAssumption DEF WsIInv, WsTypes
<1>3. Ahead[1] - 1 = 0
  BY <1>1 DEF Ahead, First
<1>4. wout \in Seq(OutType)
  BY <1>1, EmptySeq
<1>5. Said(wout, DataOps) = <<>> /\ Said(wout, {"pong"}) = <<>>
  <2>1. <<>> \in Seq(Seq(Nat)) /\ Len(<<>>) = 0
    BY EmptySeq
  <2>2. FlattenSeq(<<>>) = <<>>
    BY <2>1, FlattenType
  <2>3. ASSUME NEW K PROVE [i \in 1 .. Len(wout) |-> Said1(wout[i], K)] = <<>>
    BY <1>1, <2>1
  <2> QED BY <2>2, <2>3 DEF Said
<1>6. 0 \in 0 .. Len(wpeer) /\ 0 \in Nat
  BY <1>2
<1>7. Heard(0, DataOps) = <<>> /\ Heard(0, {"ping"}) = <<>>
  BY <1>2, <1>6, HeardType
<1>8. Part(0 + 1, 0) = <<>> /\ <<>> \o <<>> = <<>>
  BY EmptySeq, ConcatEmptySeq DEF Part
<1>9. Echoed(0, 0, wout)
  BY <1>5, <1>6, <1>7, <1>8 DEF Echoed
<1>10. Right(wout)
  BY <1>2, <1>9, EchoedRight
<1>11. EchoWhere(wpc, wrx, wbuf, Ahead, wout)
  BY <1>1, <1>3, <1>9 DEF EchoWhere
<1> QED BY <1>1, <1>4, <1>10, <1>11 DEF WsEInv

\* The steps that leave the socket and what was sent alone.
LEMMA PlainEcho ==
  ASSUME WsEInv, WsIInv',
         Accept \/ WsListen \/ WsConnect \/ RecvStart \/ SendPing \/ RecvFails \/ CloseFails
  PROVE  WsEInv'
<1>1. EchoWhere(wpc, wrx, wbuf, Ahead, wout) /\ Where(wpc, wrx, wneed, wbuf, Ahead)
  BY EchoParts
<1>2. CASE Accept \/ WsListen \/ WsConnect
  <2>1. /\ wpc = "open" /\ UNCHANGED <<wlib, wrole, wpeer>> /\ wsent' = wsent /\ win' = win /\ wout' = wout
        /\ wrx' = wrx \/ wrx' = NoFrame
        /\ wpc' = "recv" \/ wpc' = "end"
    BY <1>2 DEF Accept, WsListen, WsConnect
  <2>2. wrx' = NoFrame /\ Ahead' = Ahead
    BY <1>1, <2>1 DEF Where, Ahead
  <2>3. EchoWhere("recv", NoFrame, wbuf', Ahead, wout)
    BY <1>1, <2>1, NoFrameType DEF EchoWhere
  <2>4. CASE wpc' = "recv"
    BY <2>1, <2>2, <2>3, <2>4, Silent
  <2>5. CASE wpc' = "end"
    BY <2>1, <2>5, SilentOver
  <2> QED BY <2>1, <2>4, <2>5
<1>3. CASE RecvStart
  <2>1. /\ wpc = "recv" /\ UNCHANGED <<wlib, wrole, wpeer>> /\ wsent' = wsent /\ win' = win /\ wout' = wout
        /\ wrx' = wrx /\ wpc' = (IF wrx.size = wrx.offs THEN "hdr" ELSE "pay")
    BY <1>3 DEF RecvStart
  <2>2. Ahead' = Ahead
    BY <2>1 DEF Ahead
  <2>3. EchoWhere(wpc', wrx, wbuf', Ahead, wout)
    BY <1>1, <2>1 DEF EchoWhere
  <2> QED BY <2>1, <2>2, <2>3, Silent
<1>4. CASE SendPing
  <2>1. /\ UNCHANGED <<wlib, wrole, wpeer>> /\ wsent' = wsent /\ win' = win /\ wout' = wout
        /\ wrx' = wrx /\ wpc' = wpc /\ wbuf' = wbuf
    BY <1>4 DEF SendPing
  <2>2. Ahead' = Ahead
    BY <2>1 DEF Ahead
  <2> QED BY <1>1, <2>1, <2>2, Silent
<1>5. CASE RecvFails \/ CloseFails
  <2>1. UNCHANGED <<wlib, wrole, wpeer>> /\ wout' = wout /\ wpc' = "end"
    BY <1>5 DEF RecvFails, CloseFails, WsEnd
  <2> QED BY <2>1, SilentOver
<1> QED BY <1>2, <1>3, <1>4, <1>5

\* Deliver.
LEMMA DeliverEcho ==
  ASSUME WsEInv, Deliver
  PROVE  WsEInv'
<1>1. WsIInv' /\ Ahead' = Ahead /\ EchoWhere(wpc, wrx, wbuf, Ahead, wout)
  BY EchoParts, DeliverKeeps
<1>2. UNCHANGED <<wlib, wrole, wpeer>> /\ wout' = wout /\ wpc' = wpc /\ wrx' = wrx /\ wbuf' = wbuf
  BY DEF Deliver
<1> QED BY <1>1, <1>2, Silent

\* The steps that read.
LEMMA ReadEcho ==
  ASSUME WsEInv, WsIInv', ~wodd', RecvHdr \/ CloseHdr \/ RecvMore \/ RecvPayload \/ CloseDrop
  PROVE  WsEInv'
<1>1. EchoWhere(wpc, wrx, wbuf, Ahead, wout) /\ Where(wpc, wrx, wneed, wbuf, Ahead)
  BY EchoParts
<1>2. wpc' \in WsPlaces
  BY DEF WsIInv, WsTypes, WsValues
<1>3. wpc' # "lost"
  BY <1>2 DEF WsPlaces
<1>4. CASE RecvHdr
  <2> DEFINE f == Head(win)[1]
  <2>1. /\ wpc = "hdr" /\ UNCHANGED <<wlib, wrole, wpeer>> /\ wout' = wout /\ wpc' = "more"
        /\ wrx' = [f |-> f, size |-> wpeer[f].n, offs |-> 0, op |-> wpeer[f].op] /\ win # <<>>
    <3>1. ~(wodd' = TRUE)
      BY Zenon
    <3> QED BY <1>3, <1>4, <3>1 DEF RecvHdr, RecvHeader
  <2>2. f = Ahead[1]
    BY <2>1, EchoParts DEF WsValues, Ahead, First
  <2>3. wrx'.f = f /\ wrx'.offs = 0
    BY <2>1
  <2> HIDE DEF f
  <2>4. EchoWhere("more", wrx', wbuf', Ahead', wout)
    BY <1>1, <2>1, <2>2, <2>3 DEF EchoWhere
  <2> QED BY <2>1, <2>4, Silent
<1>5. CASE CloseHdr
  <2>1. UNCHANGED <<wlib, wrole, wpeer>> /\ wout' = wout /\ wpc' \in {"cmore", "end"}
    BY <1>3, <1>5 DEF CloseHdr, RecvHeader, WsEnd
  <2> QED BY <2>1, SilentOver
<1>6. CASE RecvMore
  <2>1. /\ wpc = "more" /\ UNCHANGED <<wlib, wrole, wpeer>> /\ wout' = wout /\ wrx' = wrx
        /\ wpc' = "pay" \/ wpc' = "end"
    BY <1>3, <1>6 DEF RecvMore, WsEnd
  <2>2. EchoWhere("pay", wrx, wbuf', Ahead', wout)
    BY <1>1, <2>1 DEF EchoWhere
  <2>3. CASE wpc' = "pay"
    BY <2>1, <2>2, <2>3, Silent
  <2>4. CASE wpc' = "end"
    BY <2>1, <2>4, SilentOver
  <2> QED BY <2>1, <2>3, <2>4
<1>7. CASE RecvPayload
  <2>1. wpc = "pay" /\ UNCHANGED <<wlib, wrole, wpeer>> /\ wout' = wout /\ wrx' = wrx /\ wpc' = wpc
    BY <1>7 DEF RecvPayload
  <2>2. EchoWhere("pay", wrx, wbuf', Ahead', wout)
    BY <1>1, <2>1 DEF EchoWhere
  <2> QED BY <2>1, <2>2, Silent
<1>8. CASE CloseDrop
  <2>1. UNCHANGED <<wlib, wrole, wpeer>> /\ wout' = wout /\ (wpc' = "chdr" \/ wpc' = "end")
    BY <1>3, <1>8 DEF CloseDrop, WsEnd
  <2> QED BY <2>1, SilentOver
<1> QED BY <1>4, <1>5, <1>6, <1>7, <1>8

\* AppClose.
LEMMA CloseEcho ==
  ASSUME WsEInv, WsIInv', AppClose
  PROVE  WsEInv'
<1>1. /\ UNCHANGED <<wlib, wrole, wpeer>> /\ (wpc' = "chdr" \/ wpc' = "end")
      /\ wout' = Append(wout, [op |-> "close", pld |-> <<>>]) \/ wout' = wout
  BY DEF AppClose, Reply, WsEnd
<1>2. <<>> \in Seq(Nat \X Nat)
  BY EmptySeq
<1> QED BY <1>1, <1>2, ClosedRight, Over, SilentOver

\* RecvDone: a ping is answered with all of its payload.
LEMMA DoneEcho ==
  ASSUME WsEInv, WsIInv', RecvDone
  PROVE  WsEInv'
<1> DEFINE f == wrx.f
           g == f - 1
           n == wrx.size
<1>1. /\ wpc = "pay" /\ wneed = 0 /\ WsTypes /\ wout \in Seq(OutType) /\ wbuf \in Seq(Nat \X Nat)
      /\ wrx \in RxType /\ Paying(wrx, wneed, wbuf, Ahead) /\ Echoed(g, wrx.offs, wout)
  BY EchoParts DEF RecvDone, WsValues, Where, EchoWhere
<1>2. wrx.offs \in Nat /\ n \in Nat /\ Len(wbuf) \in Nat
  BY <1>1 DEF RxType
<1>3. /\ Current(wrx) /\ (wrx.op \in DataOps \/ (wrx.offs = 0 /\ Len(wbuf) = n))
      /\ Ahead = After(f, HdrLen(f) + (wrx.offs + Len(wbuf)))
      /\ \A i \in 1 .. Len(wbuf) : wbuf[i] = <<f, wrx.offs + i - 1>>
  BY <1>1, <1>2 DEF Paying
<1>4. /\ f \in WsFrames /\ n = wpeer[f].n /\ wrx.op = wpeer[f].op /\ FrameLen(f) = HdrLen(f) + n
      /\ HdrLen(f) \in Nat
  BY <1>1, <1>3, Lengths DEF Current
<1>5. f \in Nat /\ g \in Nat /\ g + 1 = f
  <2>1. Len(wpeer) \in Nat
    BY <1>1, WsAssumption DEF WsTypes
  <2> QED BY <1>4, <2>1 DEF WsFrames
<1>6. UNCHANGED <<wlib, wrole, wpeer>> /\ Ahead' = Ahead
  BY DEF RecvDone, Ahead
<1> HIDE DEF f, g, n
<1>7. CASE wrx.op \in DataOps
  <2> DEFINE x == [wrx EXCEPT !.offs = @ + Len(wbuf)]
  <2>1. wrx' = x /\ wpc' = "send" /\ wbuf' = wbuf /\ wout' = wout
    BY <1>7 DEF RecvDone, DataOps
  <2>2. /\ x.offs = wrx.offs + Len(wbuf) /\ x.offs - Len(wbuf) = wrx.offs /\ x.f = f /\ x.size = n
        /\ x.op = wrx.op
    BY <1>1, <1>2 DEF RxType, f, n
  <2> HIDE DEF x
  <2>3. Current(x) /\ Echoed(x.f - 1, x.offs - Len(wbuf), wout)
    BY <1>1, <1>3, <1>4, <2>2 DEF Current, f, g
  <2>4. EchoWhere("send", x, wbuf, Ahead, wout)
    BY <1>3, <1>7, <2>2, <2>3 DEF EchoWhere
  <2> QED BY <1>6, <2>1, <2>4, Silent
<1>8. CASE wrx.op \notin DataOps
  <2>1. wrx.offs = 0 /\ Len(wbuf) = n
    BY <1>3, <1>8
  <2>2. Ahead[1] - 1 = g + 1
    <3>1. HdrLen(f) + (wrx.offs + Len(wbuf)) = FrameLen(f)
      BY <1>2, <1>4, <2>1
    <3>2. Ahead = <<f + 1, 0>>
      BY <1>3, <3>1 DEF After
    <3> QED BY <1>5, <3>2
  <2>3. Part(f, n) = wbuf
    <3> DEFINE z == 0
               b == wbuf
    <3>1. z \in Nat /\ f \in Nat /\ b \in Seq(Nat \X Nat) /\ \A i \in 1 .. Len(b) : b[i] = <<f, z + i - 1>>
      BY <1>1, <1>3, <1>5, <2>1
    <3>2. Part(f, z) = <<>>
      BY DEF Part
    <3>3. <<>> \o b = b
      BY <1>1, ConcatEmptySeq
    <3>4. z + Len(b) = n
      BY <1>2, <2>1
    <3> HIDE DEF z, b
    <3>5. Part(f, z) \o b = Part(f, z + Len(b))
      BY <3>1, PartJoin
    <3>6. Part(f, n) = b
      BY <3>2, <3>3, <3>4, <3>5
    <3> QED BY <3>6 DEF b
  <2>4. /\ Said(wout, DataOps) = Heard(g, DataOps) /\ Said(wout, {"pong"}) = Heard(g, {"ping"})
        /\ Heard(g, DataOps) \in Seq(Nat \X Nat) /\ Heard(g, {"ping"}) \in Seq(Nat \X Nat)
    <3>1. /\ Said(wout, DataOps) = Heard(g, DataOps) \o Part(g + 1, 0) /\ g \in 0 .. Len(wpeer)
          /\ Said(wout, {"pong"}) = Heard(g, {"ping"})
      BY <1>1, <2>1 DEF Echoed
    <3>2. Heard(g, DataOps) \in Seq(Nat \X Nat) /\ Heard(g, {"ping"}) \in Seq(Nat \X Nat)
      BY <1>1, <3>1, HeardType
    <3>3. Part(g + 1, 0) = <<>>
      BY DEF Part
    <3> QED BY <3>1, <3>2, <3>3, ConcatEmptySeq
  <2>5. Told1(f, DataOps) = <<>>
    BY <1>4, <1>8 DEF Told1
  <2>6. CASE wrx.op = "pong"
    <3>1. wrx' = NoFrame /\ wpc' = "recv" /\ wout' = wout
      BY <2>6 DEF RecvDone
    <3>2. Told1(f, {"ping"}) = <<>>
      BY <1>4, <2>6 DEF Told1
    <3>3. Echoed(g + 1, 0, wout)
      <4>1. /\ Said(wout, DataOps) = Heard(g, DataOps) \o Told1(g + 1, DataOps)
            /\ Said(wout, {"pong"}) = Heard(g, {"ping"}) \o Told1(g + 1, {"ping"})
        BY <1>5, <2>4, <2>5, <3>2, ConcatEmptySeq
      <4> QED BY <1>1, <1>4, <1>5, <4>1, EchoedNext
    <3>4. EchoWhere("recv", NoFrame, wbuf', Ahead, wout)
      BY <2>2, <3>3, NoFrameType DEF EchoWhere
    <3> QED BY <1>6, <3>1, <3>4, Silent
  <2>7. CASE wrx.op = "ping"
    <3> DEFINE r == [op |-> "pong", pld |-> wbuf]
               o == Append(wout, r)
    <3>1. wrx' = NoFrame /\ ((wout' = o /\ wpc' = "recv") \/ (wpc' = "end" /\ wout' = wout))
      BY <2>7 DEF RecvDone, Reply, WsEnd
    <3>2. r \in OutType /\ r.op = "pong" /\ r.pld = wbuf
      BY <1>1 DEF OutType, WsOps
    <3> HIDE DEF r
    <3>3. Said1(r, DataOps) = <<>> /\ Said1(r, {"pong"}) = wbuf
      BY <3>2 DEF Said1, DataOps
    <3>4. /\ o \in Seq(OutType) /\ Said(o, DataOps) = Said(wout, DataOps) \o <<>>
          /\ Said(o, {"pong"}) = Said(wout, {"pong"}) \o wbuf
      <4>1. o \in Seq(OutType) /\ Said(o, DataOps) = Said(wout, DataOps) \o Said1(r, DataOps)
        BY <1>1, <3>2, SaidNext
      <4>2. Said(o, {"pong"}) = Said(wout, {"pong"}) \o Said1(r, {"pong"})
        BY <1>1, <3>2, SaidNext
      <4> QED BY <3>3, <4>1, <4>2
    <3>5. Told1(f, {"ping"}) = wbuf
      BY <1>4, <2>3, <2>7 DEF Told1
    <3> HIDE DEF o
    <3>6. Echoed(g + 1, 0, o)
      <4>1. /\ Said(o, DataOps) = Heard(g, DataOps) \o Told1(g + 1, DataOps)
            /\ Said(o, {"pong"}) = Heard(g, {"ping"}) \o Told1(g + 1, {"ping"})
        BY <1>5, <2>4, <2>5, <3>4, <3>5
      <4> QED BY <1>1, <1>4, <1>5, <4>1, EchoedNext
    <3>7. EchoWhere("recv", NoFrame, wbuf', Ahead, o)
      BY <2>2, <3>6, NoFrameType DEF EchoWhere
    <3>8. Right(o)
      BY <1>1, <3>6, EchoedRight
    <3>9. CASE wout' = o /\ wpc' = "recv"
      BY <1>6, <3>1, <3>4, <3>7, <3>8, <3>9, EchoSettled
    <3>10. CASE wpc' = "end" /\ wout' = wout
      BY <1>6, <3>10, SilentOver
    <3> QED BY <3>1, <3>9, <3>10
  <2>8. CASE wrx.op = "close"
    <3>1. wpc' = "end" /\ (wout' = Append(wout, [op |-> "close", pld |-> wbuf]) \/ wout' = wout)
      BY <2>8 DEF RecvDone, Reply, WsEnd
    <3> QED BY <1>1, <1>6, <3>1, ClosedRight, Over, SilentOver
  <2>9. wrx.op \in {"pong", "ping", "close"}
    BY <1>8 DEF RecvDone, DataOps
  <2> QED BY <2>6, <2>7, <2>8, <2>9
<1> QED BY <1>7, <1>8

\* AppSend: the part that was read is sent back, right behind the one before it.
LEMMA SendEcho ==
  ASSUME WsEInv, WsIInv', AppSend
  PROVE  WsEInv'
<1> DEFINE f == wrx.f
           g == f - 1
           n == wrx.size
           l == Len(wbuf)
           at == wrx.offs
           r == [op |-> wrx.op, pld |-> wbuf]
           o == Append(wout, r)
<1>1. /\ wpc = "send" /\ WsTypes /\ wout \in Seq(OutType) /\ wbuf \in Seq(Nat \X Nat)
      /\ wrx \in RxType /\ wstate = "open" /\ Handed(wrx, wbuf) /\ Between(wrx, Ahead)
      /\ Echoed(g, at - l, wout) /\ Current(wrx) /\ wrx.op \in DataOps
      /\ Ahead = After(f, HdrLen(f) + at)
  BY EchoParts DEF AppSend, WsValues, Where, EchoWhere
<1>2. at \in Nat /\ n \in Nat /\ l \in Nat /\ l <= at /\ at - l \in Nat /\ (at - l) + l = at
  BY <1>1 DEF RxType, Handed
<1>3. /\ f \in WsFrames /\ n = wpeer[f].n /\ wrx.op = wpeer[f].op /\ FrameLen(f) = HdrLen(f) + n
      /\ at <= n
  BY <1>1, EchoParts, Lengths DEF Current, WsIInv, Fits
<1>4. f \in Nat /\ g \in Nat /\ g + 1 = f
  <2>1. Len(wpeer) \in Nat
    BY <1>1, WsAssumption DEF WsTypes
  <2> QED BY <1>3, <2>1 DEF WsFrames
<1>5. /\ UNCHANGED <<wlib, wrole, wpeer>> /\ Ahead' = Ahead /\ wrx' = wrx
      /\ (wout' = o /\ wpc' = "recv") \/ (wout' = wout /\ wpc' = "end")
  BY <1>1 DEF AppSend, Reply, WsEnd, Ahead
<1>6. r \in OutType /\ r.op \in DataOps /\ r.op # "pong" /\ r.pld = wbuf
  BY <1>1 DEF OutType, WsOps, DataOps
<1>7. \A i \in 1 .. Len(wbuf) : wbuf[i] = <<f, (at - l) + i - 1>>
  BY <1>1 DEF Handed
<1> HIDE DEF f, g, n, l, at, r
<1>8. Part(f, at - l) \o wbuf = Part(f, at)
  <2> DEFINE m == at - l
             b == wbuf
  <2>1. m \in Nat /\ f \in Nat /\ b \in Seq(Nat \X Nat) /\ \A i \in 1 .. Len(b) : b[i] = <<f, m + i - 1>>
    BY <1>1, <1>2, <1>4, <1>7
  <2>2. m + Len(b) = at
    BY <1>2 DEF l
  <2> HIDE DEF m, b
  <2>3. Part(f, m) \o b = Part(f, m + Len(b))
    BY <2>1, PartJoin
  <2>4. Part(f, m) \o b = Part(f, at)
    BY <2>2, <2>3
  <2> QED BY <2>4 DEF m, b
<1>9. Said1(r, DataOps) = wbuf /\ Said1(r, {"pong"}) = <<>>
  BY <1>6 DEF Said1
<1>10. /\ o \in Seq(OutType) /\ Said(o, DataOps) = Said(wout, DataOps) \o wbuf
       /\ Said(o, {"pong"}) = Said(wout, {"pong"}) \o <<>>
  BY <1>1, <1>6, <1>9, SaidNext
<1>11. /\ Said(wout, DataOps) = Heard(g, DataOps) \o Part(f, at - l)
       /\ Said(wout, {"pong"}) = Heard(g, {"ping"}) /\ g \in 0 .. Len(wpeer)
  BY <1>1, <1>4 DEF Echoed
<1>12. Heard(g, DataOps) \in Seq(Nat \X Nat) /\ Heard(g, {"ping"}) \in Seq(Nat \X Nat)
  BY <1>1, <1>11, HeardType
<1> HIDE DEF o
<1>13. Said(o, DataOps) = Heard(g, DataOps) \o Part(f, at)
  <2> DEFINE h == Heard(g, DataOps)
             c == Part(f, at - l)
             U == Nat \X Nat
  <2>1. h \in Seq(U) /\ c \in Seq(U) /\ wbuf \in Seq(U)
    BY <1>1, <1>2, <1>4, <1>12, PartType
  <2>2. Said(o, DataOps) = (h \o c) \o wbuf
    BY <1>10, <1>11
  <2>3. c \o wbuf = Part(f, at)
    BY <1>8
  <2> HIDE DEF h, c, U
  <2>4. (h \o c) \o wbuf = h \o (c \o wbuf)
    BY <2>1, JoinAssoc
  <2> QED BY <2>2, <2>3, <2>4 DEF h
<1>14. Said(o, {"pong"}) = Heard(g, {"ping"})
  BY <1>10, <1>11, <1>12, ConcatEmptySeq
<1>15. CASE at = n
  <2>1. Ahead[1] - 1 = g + 1
    <3>1. Ahead = <<f + 1, 0>>
      BY <1>1, <1>3, <1>15 DEF After, f, at
    <3> QED BY <1>4, <3>1
  <2>2. Told1(f, DataOps) = Part(f, at) /\ Told1(f, {"ping"}) = <<>>
    BY <1>1, <1>3, <1>15 DEF Told1, DataOps
  <2>3. Echoed(g + 1, 0, o)
    <3>1. /\ Said(o, DataOps) = Heard(g, DataOps) \o Told1(g + 1, DataOps)
          /\ Said(o, {"pong"}) = Heard(g, {"ping"}) \o Told1(g + 1, {"ping"})
      BY <1>4, <1>12, <1>13, <1>14, <2>2, ConcatEmptySeq
    <3> QED BY <1>1, <1>3, <1>4, <3>1, EchoedNext
  <2>4. EchoWhere("recv", wrx, wbuf', Ahead, o)
    BY <1>15, <2>1, <2>3 DEF EchoWhere, at, n
  <2>5. Right(o)
    BY <1>1, <2>3, EchoedRight
  <2>6. CASE wout' = o /\ wpc' = "recv"
    BY <1>5, <1>10, <2>4, <2>5, <2>6, EchoSettled
  <2>7. CASE wout' = wout /\ wpc' = "end"
    BY <1>5, <2>7, SilentOver
  <2> QED BY <1>5, <2>6, <2>7
<1>16. CASE at # n
  <2>1. Echoed(g, at, o)
    BY <1>1, <1>2, <1>3, <1>4, <1>11, <1>13, <1>14 DEF Echoed
  <2>2. EchoWhere("recv", wrx, wbuf', Ahead, o)
    BY <1>16, <2>1 DEF EchoWhere, at, n, g, f
  <2>3. Right(o)
    BY <1>1, <2>1, EchoedRight
  <2>4. CASE wout' = o /\ wpc' = "recv"
    BY <1>5, <1>10, <2>2, <2>3, <2>4, EchoSettled
  <2>5. CASE wout' = wout /\ wpc' = "end"
    BY <1>5, <2>5, SilentOver
  <2> QED BY <1>5, <2>4, <2>5
<1> QED BY <1>15, <1>16

\* Every step keeps the invariant.
LEMMA EchoStep ==
  ASSUME WsEInv, ~wodd', [WsNext]_wvars
  PROVE  WsEInv'
<1>1. WsIInv'
  BY WsStep, EchoParts
<1>2. CASE Deliver
  BY <1>2, DeliverEcho
<1>3. CASE Accept \/ WsListen \/ WsConnect \/ RecvStart \/ SendPing \/ RecvFails \/ CloseFails
  BY <1>1, <1>3, PlainEcho
<1>4. CASE RecvHdr \/ CloseHdr \/ RecvMore \/ RecvPayload \/ CloseDrop
  BY <1>1, <1>4, ReadEcho
<1>5. CASE RecvDone
  BY <1>1, <1>5, DoneEcho
<1>6. CASE AppSend
  BY <1>1, <1>6, SendEcho
<1>7. CASE AppClose
  BY <1>1, <1>7, CloseEcho
<1>8. CASE UNCHANGED wvars
  <2>1. /\ UNCHANGED <<wlib, wrole, wpeer>> /\ wsent' = wsent /\ win' = win /\ wout' = wout
        /\ wrx' = wrx /\ wpc' = wpc /\ wbuf' = wbuf
    BY <1>8 DEF wvars
  <2>2. Ahead' = Ahead /\ EchoWhere(wpc, wrx, wbuf, Ahead, wout)
    BY <2>1, EchoParts DEF Ahead
  <2> QED BY <1>1, <2>1, <2>2, Silent
<1> QED BY <1>2, <1>3, <1>4, <1>5, <1>6, <1>7, <1>8 DEF WsNext

\* Which bytes of the key a piece meets: as long as none was torn, every part of
\* a frame that is read starts at a multiple of the key.
OnKey(x, at) == at # x.size => at % MaskLen = 0
Keyed ==
  /\ ~Masked => ~wgarbled
  /\ Masked /\ ~wtorn => /\ ~wgarbled
                         /\ wpc \in {"recv", "send"} => OnKey(wrx, wrx.offs)
                         /\ wpc = "pay" => OnKey(wrx, wrx.offs + Len(wbuf))

\* RecvPayload keeps Keyed.
LEMMA PayloadKeyed ==
  ASSUME WsIInv, Keyed, RecvPayload
  PROVE  Keyed'
<1> DEFINE g == Got(Lesser(RcvBuf, wneed))
           at == wrx.offs + Len(wbuf)
           to == wrx.offs + Len(wbuf) + Len(g)
           u == IF wlib = "uhttpsrv" THEN Unmask(g) ELSE UnmaskRole(g)
<1>1. /\ wrx.offs + Len(wbuf') = to /\ (at % MaskLen = 0 => Unmask(g)) /\ WsIInv'
  BY RecvPayloadKeeps
<1>2. /\ wpc = "pay" /\ wpc' = "pay" /\ wrx' = wrx /\ wrole' = wrole /\ wneed > 0
      /\ wgarbled' = (wgarbled \/ ~u)
      /\ wtorn' = (wtorn \/ (Masked /\ to < wrx.size /\ to % MaskLen # 0))
  BY DEF RecvPayload
<1>3. Masked' = Masked /\ (wlib = "uhttpsrv" => Masked)
  BY <1>2, Parts DEF Masked, WsTypes, WsPlace
<1>4. at # wrx.size
  <2>1. /\ Paying(wrx, wneed, wbuf, First(win, wsent)) /\ wneed \in Nat /\ wrx \in RxType
        /\ wbuf \in Seq(Nat \X Nat)
    BY <1>2, Parts DEF Where, WsValues
  <2>2. at + wneed <= wrx.size
    BY <2>1 DEF Paying
  <2>3. wrx.offs \in Nat /\ wrx.size \in Nat /\ Len(wbuf) \in Nat
    BY <2>1 DEF RxType
  <2> QED BY <1>2, <2>1, <2>2, <2>3
<1>5. to \in Nat /\ wrx.size \in Nat /\ to <= wrx.size
  <2>1. Paying(wrx, wneed, wbuf, First(win, wsent))' /\ wrx \in RxType /\ wneed' \in Nat /\ (wbuf \in Seq(Nat \X Nat))'
    <3>1. Where(wpc, wrx, wneed, wbuf, First(win, wsent))' /\ WsValues(wpc, wstate, wrx, wneed, wbuf, win, wsent)'
      BY <1>1 DEF WsIInv, WsWhere, WsTypes, Ahead
    <3> QED BY <1>2, <3>1 DEF Where, WsValues
  <2>2. wrx.offs + Len(wbuf') + wneed' <= wrx.size
    BY <1>2, <2>1 DEF Paying
  <2>3. wrx.offs \in Nat /\ wrx.size \in Nat /\ Len(wbuf') \in Nat
    BY <2>1 DEF RxType
  <2> QED BY <1>1, <2>1, <2>2, <2>3
<1> HIDE DEF g, to, at
<1>6. ASSUME ~Masked PROVE ~wgarbled'
  <2>1. u
    BY <1>3, <1>6 DEF UnmaskRole
  <2>2. ~wgarbled
    BY <1>6 DEF Keyed
  <2> QED BY <1>2, <2>1, <2>2, Zenon
<1>7. ASSUME Masked, ~wtorn' PROVE ~wgarbled' /\ OnKey(wrx, to)
  <2>1. ~wtorn /\ ~(to < wrx.size /\ to % MaskLen # 0)
    BY <1>2, <1>7, Zenon
  <2>2. ~wgarbled /\ OnKey(wrx, at)
    BY <1>2, <1>7, <2>1 DEF Keyed, at
  <2>3. Unmask(g)
    BY <1>1, <1>4, <2>2 DEF OnKey
  <2>4. u
    BY <2>3 DEF UnmaskRole
  <2>5. ~wgarbled'
    BY <1>2, <2>2, <2>4, Zenon
  <2>6. OnKey(wrx, to)
    BY <1>5, <2>1 DEF OnKey
  <2> QED BY <2>5, <2>6
<1>8. OnKey(wrx, to) => OnKey(wrx', wrx'.offs + Len(wbuf'))
  BY <1>1, <1>2
<1>9. wpc' \notin {"recv", "send"}
  BY <1>2
<1> QED BY <1>3, <1>6, <1>7, <1>8, <1>9 DEF Keyed, OnKey

\* A step that reads no payload keeps it, if the part it starts with is whole.
LEMMA KeyedSame ==
  ASSUME Keyed, wtorn' = wtorn, wgarbled' = wgarbled, wrole' = wrole,
         Masked /\ ~wtorn /\ wpc' \in {"recv", "send"} => OnKey(wrx', wrx'.offs),
         Masked /\ ~wtorn /\ wpc' = "pay" => OnKey(wrx', wrx'.offs + Len(wbuf'))
  PROVE  Keyed'
<1>1. Masked' = Masked
  BY DEF Masked
<1>2. (~wtorn)' = ~wtorn /\ (~wgarbled)' = ~wgarbled
  BY Zenon
<1> QED BY <1>1, <1>2 DEF Keyed, OnKey

\* Every step keeps Keyed.
LEMMA KeyedStep ==
  ASSUME WsIInv, Keyed, [WsNext]_wvars
  PROVE  Keyed'
<1>1. /\ WsValues(wpc, wstate, wrx, wneed, wbuf, win, wsent) /\ Where(wpc, wrx, wneed, wbuf, First(win, wsent))
      /\ wrx \in RxType /\ wrx.offs \in Nat /\ Len(wbuf) \in Nat
  BY Parts DEF WsValues, RxType
<1>2. OnKey(NoFrame, NoFrame.offs)
  BY DEF OnKey, NoFrame
<1>3. CASE RecvPayload
  BY <1>3, PayloadKeyed
<1>4. CASE Accept \/ WsListen \/ WsConnect
  <2>1. wtorn' = wtorn /\ wgarbled' = wgarbled /\ wrole' = wrole /\ wpc = "open" /\ (wpc' = "recv" \/ wpc' = "end")
    BY <1>4 DEF Accept, WsListen, WsConnect, whist
  <2>2. wpc' = "recv" => wrx' = wrx \/ wrx' = NoFrame
    BY <1>4, <2>1 DEF Accept, WsListen, WsConnect
  <2>3. wrx = NoFrame
    BY <1>1, <2>1 DEF Where
  <2> QED BY <1>2, <2>1, <2>2, <2>3, KeyedSame
<1>5. CASE Deliver \/ SendPing \/ RecvFails \/ CloseFails \/ UNCHANGED wvars
  <2>1. /\ wtorn' = wtorn /\ wgarbled' = wgarbled /\ wrole' = wrole /\ wrx' = wrx /\ wbuf' = wbuf
        /\ wpc' = wpc \/ wpc' = "end"
    BY <1>5 DEF Deliver, SendPing, RecvFails, CloseFails, WsEnd, wvars, whist
  <2> QED BY <2>1, KeyedSame DEF Keyed
<1>6. CASE RecvHdr \/ CloseHdr \/ CloseDrop \/ AppClose
  <2>1. wtorn' = wtorn /\ wgarbled' = wgarbled /\ wrole' = wrole /\ wpc' \notin {"recv", "send", "pay"}
    BY <1>6 DEF RecvHdr, CloseHdr, RecvHeader, CloseDrop, AppClose, WsEnd, whist
  <2> QED BY <2>1, KeyedSame
<1>7. CASE RecvStart
  <2>1. /\ wtorn' = wtorn /\ wgarbled' = wgarbled /\ wrole' = wrole /\ wpc = "recv" /\ wrx' = wrx /\ wbuf' = <<>>
        /\ wpc' \in {"hdr", "pay"}
    BY <1>7 DEF RecvStart, whist
  <2>2. wrx'.offs + Len(wbuf') = wrx.offs
    BY <1>1, <2>1, EmptySeq
  <2> QED BY <2>1, <2>2, KeyedSame DEF Keyed
<1>8. CASE RecvMore
  <2>1. /\ wtorn' = wtorn /\ wgarbled' = wgarbled /\ wrole' = wrole /\ wpc = "more" /\ wrx' = wrx /\ wbuf' = wbuf
        /\ wpc' \in {"lost", "end", "pay"}
    BY <1>8 DEF RecvMore, WsEnd
  <2>2. wrx.offs = 0 /\ wbuf = <<>>
    BY <1>1, <2>1 DEF Where
  <2>3. wrx'.offs + Len(wbuf') = 0
    BY <2>1, <2>2, EmptySeq
  <2>4. OnKey(wrx', 0)
    BY ZeroMod DEF OnKey
  <2> QED BY <2>1, <2>3, <2>4, KeyedSame
<1>9. CASE RecvDone
  <2>1. /\ wtorn' = wtorn /\ wgarbled' = wgarbled /\ wrole' = wrole /\ wpc = "pay"
        /\ \/ wpc' = "send" /\ wrx' = [wrx EXCEPT !.offs = @ + Len(wbuf)]
           \/ wpc' = "recv" /\ wrx' = NoFrame
           \/ wpc' = "end"
    BY <1>9 DEF RecvDone, WsEnd, whist
  <2>2. LET x == [wrx EXCEPT !.offs = @ + Len(wbuf)]
        IN x.offs = wrx.offs + Len(wbuf) /\ x.size = wrx.size
    BY <1>1 DEF RxType
  <2>3. CASE wpc' = "send" /\ wrx' = [wrx EXCEPT !.offs = @ + Len(wbuf)]
    <3>1. wrx'.offs = wrx.offs + Len(wbuf) /\ wrx'.size = wrx.size
      BY <2>2, <2>3
    <3>2. Masked /\ ~wtorn => OnKey(wrx', wrx'.offs)
      BY <2>1, <3>1 DEF Keyed, OnKey
    <3> QED BY <2>1, <2>3, <3>2, KeyedSame
  <2>4. CASE wpc' = "recv" /\ wrx' = NoFrame
    BY <1>2, <2>1, <2>4, KeyedSame
  <2>5. CASE wpc' = "end"
    BY <2>1, <2>5, KeyedSame
  <2> QED BY <2>1, <2>3, <2>4, <2>5
<1>10. CASE AppSend
  <2>1. /\ wtorn' = wtorn /\ wgarbled' = wgarbled /\ wrole' = wrole /\ wpc = "send" /\ wrx' = wrx
        /\ wpc' \in {"recv", "end"}
    BY <1>10 DEF AppSend, WsEnd, whist
  <2> QED BY <2>1, KeyedSame DEF Keyed
<1> QED BY <1>3, <1>4, <1>5, <1>6, <1>7, <1>8, <1>9, <1>10 DEF WsNext

\* The invariant says that what was sent is right.
LEMMA WsEInvRight == WsEInv /\ Keyed => EchoRight
<1> SUFFICES ASSUME WsEInv, Keyed PROVE EchoRight
  OBVIOUS
<1>1. Right(wout)
  BY EchoParts
<1>2. \A K : Said(wout, K) = SentOf(K) /\ Heard(Len(wpeer), K) = DataOf(wpeer, K)
  BY DEF Said, Said1, SentOf, Heard, Told1, Part, DataOf
<1>3. wgarbled => wtorn
  BY DEF Keyed
<1> QED BY <1>1, <1>2, <1>3 DEF Right, EchoRight, DataOps

\* What the task sends back with UHTTPSrvWS_Send or WebSocket_Send, and the
\* pongs Recv answers itself, are the peer's payload, complete up to where they
\* have come and in order, for every sequence of frames, every size of the
\* buffers and however the socket cuts the stream; unmasked with the right
\* bytes of the key until RecvPayload has read a piece that ends inside the key
\* (wtorn), as it may with a buffer or a segment that is no multiple of it. The
\* frames that Recv does not handle (wodd) are excepted, as in FramesKept.
THEOREM EchoesRight == WsSpec => []EchoRight
<1> DEFINE Inv == ~wodd => WsEInv /\ Keyed
<1>1. WsInit => Inv
  <2> SUFFICES ASSUME WsInit PROVE WsEInv /\ Keyed
    OBVIOUS
  <2>1. WsEInv
    BY WsInitEcho
  <2>2. wpc = "open" /\ wgarbled = FALSE
    BY DEF WsInit, WsStart
  <2>3. Keyed
    BY <2>2 DEF Keyed
  <2> QED BY <2>1, <2>3
<1>2. Inv /\ [WsNext]_wvars => Inv'
  <2> SUFFICES ASSUME Inv, [WsNext]_wvars, ~wodd' PROVE WsEInv' /\ Keyed'
    OBVIOUS
  <2>1. WsEInv /\ Keyed
    BY OddStays
  <2>2. WsIInv
    BY <2>1, EchoParts
  <2> QED BY <2>1, <2>2, EchoStep, KeyedStep
<1>3. Inv => EchoRight
  BY WsEInvRight DEF EchoRight
<1> HIDE DEF Inv
<1> QED BY <1>1, <1>2, <1>3, PTL DEF WsSpec
=============================================================================

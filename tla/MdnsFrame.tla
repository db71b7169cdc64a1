----------------------------- MODULE MdnsFrame ------------------------------
(***************************************************************************)
(* The mDNS responder: the frames of net/mdns/frame.h and src/frame.c and  *)
(* the server of src/server.c.  Characters are small numbers; a name is    *)
(* the sequence of its labels.                                             *)
(***************************************************************************)
EXTENDS Integers, Sequences, FiniteSets, SequencesExt

CONSTANTS Device,    \* MDNS_SRV_DEVICE_NAME, as labels
          OwnIp,     \* what TCPIPIpAddr_GetIP returns
          RspSize,   \* sizeof(rsps)
          NameRoom,  \* what DecodeName is given for a name: sizeof(qname) - 1
          Queries    \* queries: sequences of questions [name, ptr, type, class]

VARIABLE mdns        \* the last query and what the server made of it

B16(n) == <<n \div 256, n % 256>>
Word(f, i) == f[i] * 256 + f[i + 1]
NameErr == <<-1>>
Rounds == 12           \* bound: more than any name of the instance takes that ends
Chars(name) == Len(FlattenSeq(name))

\* MDNSFrame_EncodeName: only the characters are counted against the room, not
\* the lengths of the labels.
EncodeName(name, size) ==
  IF size < 1 \/ Chars(name) > size - 1 \/ \E i \in DOMAIN name : Len(name[i]) \notin 1 .. 63
  THEN NameErr
  ELSE FlattenSeq([i \in DOMAIN name |-> <<Len(name[i])>> \o name[i]]) \o <<0>>

\* Mutant: what follows a pointer is counted as part of the question.
Consumed_All(r, n) == r.used + n
\* Bytes of the question itself are counted, not those behind a pointer.
Consumed(r, n) == IF r.ptr THEN r.used ELSE r.used + n

\* MDNSFrame_DecodeName from byte p of frame f; every round takes one label or
\* follows one pointer.  `end' is 0 while it runs, 1 at the end of the name, 2
\* after an error.  The code counts neither rounds nor pointers: what still runs
\* after Rounds goes round for ever, and never yields.
DecodeName(f, p) ==
  LET left(r) == Len(f) - r.s + 1
      Round(r) ==
        IF r.end # 0 THEN r
        ELSE IF left(r) >= 1 /\ f[r.s] < 64
             THEN LET n == f[r.s]
                  IN  IF n > left(r) - 1 \/ NameRoom - Chars(r.name) - Len(r.name) < n + 1 THEN [r EXCEPT !.end = 2]
                      ELSE [r EXCEPT !.used = Consumed(r, n + 1), !.end = IF n = 0 THEN 1 ELSE 0,
                                     !.s = @ + n + 1,
                                     !.name = IF n = 0 THEN @ ELSE Append(@, SubSeq(f, r.s + 1, r.s + n))]
        ELSE IF left(r) >= 2 /\ f[r.s] >= 192
             THEN [r EXCEPT !.used = Consumed(r, 2), !.ptr = TRUE,
                            !.s = (f[r.s] % 64) * 256 + f[r.s + 1] + 1]
        ELSE [r EXCEPT !.end = 2]
      run[k \in 0 .. Rounds] == IF k = 0 THEN [s |-> p, used |-> 0, ptr |-> FALSE, name |-> <<>>, end |-> 0]
                                ELSE Round(run[k - 1])
  IN  run[Rounds]
-----------------------------------------------------------------------------
\* The header of mdns/frame.h, and the fields behind a name.
MdnsHdr(id, flags, questions, answers) ==
  B16(id) \o B16(flags) \o B16(questions) \o B16(answers) \o B16(0) \o B16(0)
QuestionFields(type, class) == B16(type) \o B16(class)
AnswerFields(type, class, ttl, len) == B16(type) \o B16(class) \o <<0, 0>> \o B16(ttl) \o B16(len)
RDataA(ip) == ip

\* MDNSSrv_RenderAnswerA, with `size' bytes left.
RenderAnswerA(size) ==
  LET name == EncodeName(Device, size)
  IN  IF name = NameErr THEN NameErr
      ELSE IF size < Len(name) + 10 + 4 THEN NameErr
      ELSE name \o AnswerFields(1, 1, 60, 4) \o RDataA(OwnIp)

\* The bytes it has written, even where it fails then: as many characters as
\* there was room for, and a length before every label that was begun.
Written(size) ==
  LET chars == IF size < 1 THEN 0 ELSE IF Chars(Device) > size - 1 THEN size - 1 ELSE Chars(Device)
      begun == {i \in DOMAIN Device : Chars(SubSeq(Device, 1, i - 1)) < chars}
  IN  chars + Cardinality(begun) + (IF EncodeName(Device, size) = NameErr THEN 0 ELSE 1)

\* MDNSSrv_FindRecord: the one record, of type A.
HasRecord(type, name) == type = 1 /\ name = Device

\* MDNSSrv_ProcessQuestion at byte p.  It returns the place of the next
\* question, 0 for null; the answers, NameErr for null; and their number.  The
\* type and the class are read without a look at the size: of a frame that is
\* cut short, they are what lies behind it in rx_buf.
ProcessQuestion(f, p, rsp, behind) ==
  LET d == DecodeName(f, p)
      q == p + d.used
      next == q + 4
      a == RenderAnswerA(RspSize - Len(rsp))
      fail == [p |-> 0, rsp |-> rsp, n |-> 0, top |-> 0, hung |-> d.end = 0]
  IN  IF d.end # 1 THEN fail
      ELSE IF Word(f \o behind, q + 2) # 1 THEN fail
      ELSE IF ~HasRecord(Word(f \o behind, q), d.name) THEN [fail EXCEPT !.p = next]
      ELSE IF a = NameErr THEN [fail EXCEPT !.p = next, !.rsp = NameErr,
                                            !.top = Len(rsp) + Written(RspSize - Len(rsp))]
      ELSE [fail EXCEPT !.p = next, !.rsp = rsp \o a, !.n = 1, !.top = Len(rsp) + Len(a)]

NoRsp == [sent |-> FALSE, rsp |-> <<>>, n |-> 0, top |-> 0, hung |-> FALSE]

\* MDNSSrv_Input up to MDNSSrv_SendResponse: nothing is sent when a question
\* is not understood or an answer does not fit.
MdnsInput(f, behind) ==
  LET qnum == Word(f, 5)
      Step1(r) == IF r.bad THEN r
                  ELSE LET q == ProcessQuestion(f, r.p, r.rsp, behind)
                           top == IF q.top > r.top THEN q.top ELSE r.top
                       IN  IF q.p = 0 \/ q.rsp = NameErr THEN [r EXCEPT !.bad = TRUE, !.top = top, !.hung = q.hung]
                           ELSE [r EXCEPT !.p = q.p, !.rsp = q.rsp, !.n = @ + q.n, !.top = top]
      run[k \in 0 .. qnum] ==
        IF k = 0 THEN [p |-> 13, rsp |-> <<>>, n |-> 0, top |-> 0, bad |-> FALSE, hung |-> FALSE]
        ELSE Step1(run[k - 1])
      r == run[qnum]
      query == Word(f, 3) \div 32768 = 0 /\ (Word(f, 3) \div 2048) % 16 = 0
  IN  IF ~query THEN NoRsp
      ELSE IF r.bad \/ r.n = 0 THEN [NoRsp EXCEPT !.top = r.top, !.hung = r.hung]
      ELSE [NoRsp EXCEPT !.sent = TRUE, !.rsp = MdnsHdr(Word(f, 1), 32768, 0, r.n) \o r.rsp,
                         !.n = r.n, !.top = r.top]
-----------------------------------------------------------------------------
\* A query of another station: labels, then the end or a pointer to byte ptr of
\* the frame.  Byte 12 is the name of the first question.
Question(q) ==
  LET labels == EncodeName(q.name, 256)
  IN  (IF q.ptr = 0 THEN labels ELSE SubSeq(labels, 1, Len(labels) - 1) \o B16(49152 + q.ptr))
      \o QuestionFields(q.type, q.class)
Query(qs, flags) == MdnsHdr(7, flags, Len(qs), 0) \o FlattenSeq([i \in DOMAIN qs |-> Question(qs[i])])

MdnsInit == mdns = [qs |-> <<>>, flags |-> 0, cut |-> 0, r |-> NoRsp]

\* A query comes whole, or without its last `cut' bytes; in rx_buf lies behind it
\* what an earlier frame has left, and nothing else stays from one to the next:
\* one query of each kind is enough.
Ask1 == /\ mdns.qs = <<>>
        /\ \E qs \in Queries, flags \in {0, 256, 32768}, cut \in {0, 2, 4},
              behind \in {<<0, 0, 0, 0>>, <<0, 1, 0, 1>>} :
             LET f == Query(qs, flags)
             IN  mdns' = [qs |-> qs, flags |-> flags, cut |-> cut,
                          r |-> MdnsInput(SubSeq(f, 1, Len(f) - cut), behind)]

\* What a query says: the name that question i spells out or points at, whether
\* it can be read, and whether the first name points at itself.
Name(qs, i) == IF qs[i].ptr = 12 THEN qs[i].name \o qs[1].name ELSE qs[i].name
Readable(qs, i) == /\ qs[i].ptr = 0 \/ (qs[i].ptr = 12 /\ i > 1 /\ qs[1].ptr = 0)
                   /\ Chars(Name(qs, i)) + Len(Name(qs, i)) < NameRoom
Circular(qs) == Len(qs) > 0 /\ qs[1].name = <<>> /\ qs[1].ptr = 12
Asked(qs) == {i \in DOMAIN qs : qs[i].type = 1 /\ Name(qs, i) = Device}
AnswerLen == Chars(Device) + Len(Device) + 1 + 14

\* A query is answered once for every question about the device, whether the
\* name is spelled out or pointed at, when all answers fit and all questions
\* are understood, and never otherwise; each answer holds the name and the
\* address; with the name and the buffer of the configuration nothing is
\* written behind the buffer. Of a frame that is cut short only the latter is
\* claimed, and of a first name that points at itself only that it alone makes
\* the server hang.
MdnsRight ==
  LET qs == mdns.qs
      n == Cardinality(Asked(qs))
      rsp == mdns.r.rsp
      fits == n * AnswerLen <= RspSize
      plain == \A i \in DOMAIN qs : qs[i].class = 1 /\ Readable(qs, i)
      answer(i) == 13 + (i - 1) * AnswerLen
  IN  /\ mdns.r.top <= RspSize
      /\ mdns.r.hung <=> mdns.flags < 32768 /\ Circular(qs)
      /\ mdns.cut = 0 => (mdns.r.sent <=> mdns.flags < 32768 /\ plain /\ n > 0 /\ fits)
      /\ mdns.r.sent =>
           /\ Word(rsp, 7) = mdns.r.n /\ Len(rsp) = 12 + mdns.r.n * AnswerLen /\ Word(rsp, 1) = 7
           /\ mdns.cut = 0 => mdns.r.n = n
           /\ \A i \in 1 .. mdns.r.n :
                LET d == DecodeName(rsp, answer(i))
                IN  d.end = 1 /\ d.name = Device /\ SubSeq(rsp, answer(i) + d.used + 10, answer(i) + d.used + 13) = OwnIp
=============================================================================

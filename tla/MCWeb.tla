------------------------------- MODULE MCWeb --------------------------------
(* The HTTP server, the websockets, and the text both of them print and     *)
(* scan; a behaviour is one of the three.                                   *)
EXTENDS Http, Ws, Stdio

VARIABLE which

\* Two serving tasks, both of the web site or one of each instance.
MCCallbacks == {<<"www", "www">>, <<"www", "api">>}
\* One file that takes two chunks, one that is shorter than the gzip probe.
MCFiles == [u \in {"/index.html", "/s"} |-> IF u = "/s" THEN 2 ELSE 4]

Rq(m, u, fields) == <<<<"req", m, u>>>> \o fields \o <<<<"end">>>>
\* Files that exist and that do not, bodies, a client without gzip, an upgrade;
\* every API method the table knows, malformed fields and lines. OPTIONS comes
\* without a body and no request gets a 405 (see the README).
MCRequests ==
    [www |-> {Rq("GET", "/", <<<<"gzip">>>>),
              Rq("GET", "/s", <<>>),
              Rq("POST", "/none", <<<<"len", 2>>, <<"other">>>>) \o <<<<"byte">>, <<"byte">>>>,
              Rq("GET", "/", <<<<"plain">>>>),
              Rq("GET", "/ws", [i \in 1 .. 5 |-> <<"ws", SetToSeq(WsFields)[i]>>])},
     api |-> {Rq("POST", "/", <<<<"len", 2>>>>) \o <<<<"byte">>, <<"byte">>>>,
              Rq("POST", "/", <<>>),
              Rq("GET", "/x", <<<<"len", 1>>>>) \o <<<<"byte">>>>,
              Rq("OPTIONS", "/", <<<<"junk">>>>),
              Rq("OPTIONS", "/", <<<<"other">>>>),
              Rq(None, "/", <<>>)}]

\* The clients are the ones the theorems of HttpProofs are about.
ASSUME MCClients == NoRefusal /\ WellFormed

Fr(op, n) == [op |-> op, n |-> n, right |-> TRUE]
\* Empty, short and long data frames and every control frame, up to three; and,
\* first or last of two, what the code does not handle: a 64-bit size, a control
\* frame larger than its buffer, a wrong mask bit on a frame with and without
\* a payload.
MCFrames == {Fr("text", 0), Fr("text", 3), Fr("bin", 6), Fr("ping", 2), Fr("pong", 3), Fr("close", 1), Fr("cont", 1)}
MCOdd == {Fr("bin", 7), Fr("ping", 3), [Fr("text", 2) EXCEPT !.right = FALSE], [Fr("pong", 0) EXCEPT !.right = FALSE]}
MCScripts == UNION {[1 .. n -> MCFrames] : n \in 0 .. 3}
               \cup UNION {{<<x, y>>, <<y, x>>} : x \in MCOdd, y \in MCFrames}

-----------------------------------------------------------------------------
(* Texts. Integers have 4 bits, 3 or 5 with a length modifier.              *)

MCBits == [h |-> 3, none |-> 4, l |-> 4, ll |-> 5, hh |-> 2]

Spec1(flag, width, prec, len, c) == <<"%">> \o flag \o width \o prec \o len \o <<c>>
Opt(s) == {<<>>, s}
LenOf(l) == CASE l = <<>> -> "none" [] l = <<"h">> -> "h" [] l = <<"h", "h">> -> "hh" [] OTHER -> "ll"

IntCall(f, w, p, l, c, z, v) ==
    [kind |-> "int", fmt |-> Spec1(f, w, p, l, c), args |-> <<v>>, size |-> z, back |-> Spec1(<<>>, <<>>, <<>>, l, c),
     room |-> <<>>, want |-> <<LET b == MCBits[LenOf(l)] IN IF c \in {"d", "i"} THEN Signed(v, b) ELSE v % 2^b>>]
\* Every flag, with and without width and precision, into buffers of any size;
\* octal numbers and chars with fewer of them
MCInts ==
    {IntCall(f, w, p, l, c, z, v) :
        f \in {<<>>, <<"0">>, <<"+">>, <<" ", "0">>, <<"#">>}, w \in {<<>>, <<"5">>}, p \in Opt(<<".", "3">>),
        l \in {<<>>, <<"h">>, <<"l", "l">>}, c \in {"d", "i", "u", "x"}, z \in {0, 1, 3, 4, 5, 12}, v \in -8 .. 7}
      \cup {IntCall(f, w, <<>>, <<"h", "h">>, c, z, v) :
        f \in Opt(<<"+">>), w \in Opt(<<"5">>), c \in {"d", "u", "x", "o"}, z \in {3, 12}, v \in -2 .. 3}
      \cup {IntCall(<<>>, w, <<>>, <<>>, "o", z, v) : w \in Opt(<<"5">>), z \in {2, 12}, v \in 0 .. 15}

Words == {<<"a">>, <<"b", "a">>, <<"a", "\"", "x">>}
Txt(fmt, args, back, room, want) ==
    {[kind |-> "word", fmt |-> fmt, args |-> args, size |-> z, back |-> back, room |-> room, want |-> want] : z \in {2, 6, 16}}

\* Status lines, fields, addresses, and lines the scan must consume to the end
MCTexts ==
    UNION {Txt(<<"%", "s", " ", "%", "d", " ", "%", "s", "\r", "\n">>, <<u, v, w>>,
               <<"%", ".", "*", "s", " ", "%", "d", " ", "%", ".", "*", "s">>, <<3, 4>>, <<Upto(2, u), v, Upto(3, w)>>)
             \cup Txt(<<"%", "s", ":", " ", "%", "i", "\r", "\n">>, <<w, v>>, <<"%", ".", "3", "s", ":", "%", "i", "%">>, <<>>, <<Upto(2, w), v>>)
             \cup Txt(<<"%", "d", ".", "%", "d", "%", "c">>, <<v, 3, "c">>, <<"%", "i", ".", "%", "*", "d", "%", "c">>, <<>>, <<v, <<"c">>>>) :
           u, w \in Words, v \in {-8, 0, 7}}
      \cup Txt(<<"%", "*", ".", "*", "d", "%", "1", "$", "2", "s">>, <<4, 2, 5, <<"b">>>>, <<"%", "d", "b", "%">>, <<>>, <<5>>)
      \cup Txt(<<"%", "d", "%", "%", "%", "p">>, <<5>>, <<"%", "h", "h", "i", "%", "%">>, <<>>, <<5>>)

Dec(m, e) == [kind |-> "num", m |-> m, e |-> e]
Cut(m, n) == IF m < 0 THEN -((5 * 10^(n - 1) - m) \div 10^n) ELSE (m + 5 * 10^(n - 1)) \div 10^n
\* m * 10^e rounded to n places after the point
Places(m, e, n) == IF e + n >= 0 THEN Dec(m, e) ELSE Dec(Cut(m, -(e + n)), -n)

\* Decimals with one to seven digits of which none lies beyond the table of
\* powers, in widths that hold them, cut them or overrun the buffer, and the
\* special numbers
MCDoubles ==
    {[kind |-> "double", fmt |-> Spec1(f, w, p, <<>>, c), args |-> <<Dec(m, e)>>, size |-> z, back |-> <<"%", IF c = "f" THEN "a" ELSE c>>,
      room |-> <<>>,
      want |-> <<LET n == IF p = <<>> THEN 4 ELSE 2
                     len == Len(Digs(IF m < 0 THEN -m ELSE m, 10))
                 IN IF m = 0 THEN Dec(0, 0) ELSE Places(m, e, IF c = "f" THEN n ELSE n + 1 - len - e)>>] :
        f \in {<<>>, <<"+">>, <<"-">>, <<"0">>}, w \in {<<>>, <<"5">>, <<"9">>}, p \in Opt(<<".", "2">>), c \in {"f", "e"}, z \in {4, 20},
        m \in {0, 1, -4, 45, 996, -9995, 10050, 99996}, e \in {-3, -2, 0, 1}}
      \cup {[kind |-> "double", fmt |-> <<"%", "5", "f">>, args |-> <<[Dec(s, 0) EXCEPT !.kind = k]>>, size |-> 20, back |-> <<"%", "f">>,
             room |-> <<>>, want |-> <<[Dec(s, 0) EXCEPT !.kind = k]>>] : <<k, s>> \in {<<"inf", 1>>, <<"inf", -1>>, <<"nan", 0>>}}

\* print_double needs one digit of the number, and has seven, in its precision.
InTable(x) ==
    LET m == x.args[1].m
        n == Len(Digs(IF m < 0 THEN -m ELSE m, 10)) + x.args[1].e + (IF x.fmt[Len(x.fmt) - 1] = "2" THEN 2 ELSE 4)
    IN m = 0 \/ x.fmt[Len(x.fmt)] = "e" \/ n \in 1 .. 7

MCIoCalls == MCInts \cup MCTexts \cup {x \in MCDoubles : InTable(x)}

AnyText == CHOOSE x \in MCTexts : TRUE
Init == /\ which \in {"http", "ws", "text"}
        /\ IF which = "text" THEN iocall \in IoCalls ELSE iocall = AnyText
        /\ StdioStart
        /\ IF which = "http" THEN hcb \in Callbacks ELSE hcb = <<"www", "www">>
        /\ HttpStart
        /\ IF which = "ws" THEN wpeer \in WsScripts /\ WsPlace
           ELSE wpeer = <<>> /\ wlib = "uhttpsrv" /\ wrole = "server"
        /\ WsStart
Next == \/ which = "http" /\ HttpNext /\ UNCHANGED <<which, wvars, iovars>>
        \/ which = "ws" /\ WsNext /\ UNCHANGED <<which, hvars, iovars>>
        \/ which = "text" /\ StdioNext /\ UNCHANGED <<which, hvars, wvars>>
Spec == Init /\ [][Next]_<<which, hvars, wvars, iovars>>
=============================================================================

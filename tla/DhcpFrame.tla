----------------------------- MODULE DhcpFrame ------------------------------
(***************************************************************************)
(* The DHCP frames of net/dhcp/frame.h and src/frame.c: the addresses of   *)
(* the fixed part, and the options that are rendered into a buffer of      *)
(* limited size and parsed again.  A pointer into the buffer is the bytes  *)
(* before it, the null pointer is Null.                                    *)
(***************************************************************************)
EXTENDS Integers, Sequences, FiniteSets, SequencesExt

CONSTANTS Renders,  \* option sets that are rendered, with the size of the buffer
          AddrSets, \* address sets
          Foreign   \* options of other stations, ahead of ours

VARIABLE dhcpf      \* the last option set, buffer size and results

Null == <<-1>>
Most == 12          \* options that a frame of the instance has at most
Zero4 == <<0, 0, 0, 0>>
Zero6 == <<0, 0, 0, 0, 0, 0>>

\* What is left of the buffer is unsigned: behind its end there is no limit.
Lacks(s, cap, n) == s = Null \/ (Len(s) <= cap /\ cap - Len(s) < n)

\* An option record, if it fits.
PutOpt(s, cap, code, pld) == IF Lacks(s, cap, 2 + Len(pld)) THEN Null
                             ELSE s \o <<code, Len(pld)>> \o pld
SetMessageType(s, cap, t) == PutOpt(s, cap, 53, <<t>>)
SetRequestedIP(s, cap, ip) == PutOpt(s, cap, 50, ip)
SetParameterRequestList(s, cap, l) == PutOpt(s, cap, 55, l)
SetSubnetMask(s, cap, ip) == PutOpt(s, cap, 1, ip)
SetRouterIP(s, cap, ip) == PutOpt(s, cap, 3, ip)
SetLeaseTime(s, cap, t) == PutOpt(s, cap, 51, t)
\* The room for the addresses themselves is not checked.
SetDNSServerIP(s, cap, ips) == IF Lacks(s, cap, 2) THEN Null
                               ELSE s \o <<6, 4 * Len(ips)>> \o FlattenSeq(ips)
SetDHCPServerIP(s, cap, ip) == PutOpt(s, cap, 54, ip)
SetOptionsEnd(s, cap) == IF Lacks(s, cap, 1) THEN Null ELSE Append(s, 255)

\* DHCPFrame_RenderOptions: the options that are flagged, in this order.
RenderOptions(cap, o) ==
  LET has(f) == f \in o.flags
      s1 == IF has("msg") THEN SetMessageType(<<>>, cap, o.msg) ELSE <<>>
      s2 == IF has("subnet") THEN SetSubnetMask(s1, cap, o.subnet) ELSE s1
      s3 == IF has("router") THEN SetRouterIP(s2, cap, o.router) ELSE s2
      s4 == IF has("dns") THEN SetDNSServerIP(s3, cap, o.dns) ELSE s3
      s5 == IF has("req") THEN SetRequestedIP(s4, cap, o.req) ELSE s4
      s6 == IF has("lease") THEN SetLeaseTime(s5, cap, o.lease) ELSE s5
      s7 == IF has("server") THEN SetDHCPServerIP(s6, cap, o.server) ELSE s6
      s8 == IF has("list") THEN SetParameterRequestList(s7, cap, o.list) ELSE s7
  IN  IF has("end") THEN SetOptionsEnd(s8, cap) ELSE s8
-----------------------------------------------------------------------------
NoOpts == [flags |-> {}, msg |-> 0, subnet |-> Zero4, router |-> Zero4, dns |-> <<>>, req |-> Zero4,
           lease |-> Zero4, server |-> Zero4, list |-> <<>>]

NoAddrs == [flags |-> {}, ci |-> Zero4, yi |-> Zero4, si |-> Zero4, gi |-> Zero4, ch |-> Zero6]
Refuse == [ok |-> FALSE, op |-> 0, xid |-> Zero4, a |-> NoAddrs, o |-> NoOpts]

Pld(s, p) == SubSeq(s, p + 2, p + 1 + s[p + 1])

\* Mutant: the header is not counted.
GetOptionHdr_Short(s, p) == IF Len(s) - p + 1 < 2 \/ s[p] = 255 THEN 0 ELSE p + 1 + s[p + 1]
\* DHCPFrameOpt_GetOptionHdr: the place of the next record, 0 for null.
GetOptionHdr(s, p) == IF Len(s) - p + 1 < 2 THEN 0
                      ELSE IF Len(s) - p + 1 < 2 + s[p + 1] \/ s[p] = 255 THEN 0
                      ELSE p + 2 + s[p + 1]

Field(o, f, ok, v) == IF ok THEN [o EXCEPT !.flags = @ \cup {f}, ![f] = v] ELSE o
GetMessageType(s, p, o) == Field(o, "msg", s[p + 1] = 1, s[p + 2])
GetRequestedIP(s, p, o) == Field(o, "req", s[p + 1] = 4, Pld(s, p))
GetParameterRequestList(s, p, o) == Field([o EXCEPT !.list = <<>>], "list", s[p + 1] > 0,
                                           SubSeq(s, p + 2, p + 1 + (IF s[p + 1] > 32 THEN 32 ELSE s[p + 1])))
GetSubnetMask(s, p, o) == Field(o, "subnet", s[p + 1] = 4, Pld(s, p))
GetRouterIP(s, p, o) == Field(o, "router", s[p + 1] = 4, Pld(s, p))
GetLeaseTime(s, p, o) == Field(o, "lease", s[p + 1] = 4, Pld(s, p))
GetDNSServerIP(s, p, o) ==
  LET n == IF s[p + 1] > 12 THEN 3 ELSE s[p + 1] \div 4
  IN  Field([o EXCEPT !.dns = <<>>], "dns", s[p + 1] % 4 = 0 /\ n > 0,
            [i \in 1 .. n |-> SubSeq(s, p + 4 * i - 2, p + 4 * i + 1)])
GetDHCPServerIP(s, p, o) == Field(o, "server", s[p + 1] = 4, Pld(s, p))

\* The switch of DHCPFrame_ParseOptions.
Option(s, p, o) ==
  CASE s[p] = 53 -> GetMessageType(s, p, o)
    [] s[p] = 50 -> GetRequestedIP(s, p, o)
    [] s[p] = 1 -> GetSubnetMask(s, p, o)
    [] s[p] = 3 -> GetRouterIP(s, p, o)
    [] s[p] = 51 -> GetLeaseTime(s, p, o)
    [] s[p] = 6 -> GetDNSServerIP(s, p, o)
    [] s[p] = 54 -> GetDHCPServerIP(s, p, o)
    [] s[p] = 55 -> GetParameterRequestList(s, p, o)
    [] OTHER -> o

\* DHCPFrame_ParseOptions; `at' is 0 once it returned null.  Only an empty list
\* is refused at once: behind one that does not end, the byte that lies there
\* is looked at, and ends it if it is 255.
ParseOptions(s, behind) ==
  LET Code(p) == IF p > Len(s) THEN behind ELSE s[p]
      Next1(r) == IF r.at = 0 \/ "end" \in r.o.flags THEN r
                  ELSE IF Len(s) = 0 THEN [r EXCEPT !.at = 0]
                  ELSE IF Code(r.at) = 255 THEN [at |-> r.at + 1, o |-> [r.o EXCEPT !.flags = @ \cup {"end"}]]
                  ELSE IF GetOptionHdr(s, r.at) = 0 THEN [r EXCEPT !.at = 0]
                  ELSE [at |-> GetOptionHdr(s, r.at), o |-> Option(s, r.at, r.o)]
      run[k \in 0 .. Most] == IF k = 0 THEN [at |-> 1, o |-> NoOpts] ELSE Next1(run[k - 1])
  IN  run[Most]
-----------------------------------------------------------------------------
\* The fixed part (DHCPFrame_Init and the setters of the header), without the
\* 192 bytes of legacy fields: all but the addresses, the addresses, the cookie.
FrameTop(op, xid) == <<op, 1, 6, 0>> \o xid \o <<0, 0, 0, 0>>
FrameAddrs(ci, yi, si, gi, ch) == ci \o yi \o si \o gi \o ch \o [i \in 1 .. 10 |-> 0]
Cookie == <<99, 130, 83, 99>>

Addr(a, f, zero) == IF f \in a.flags THEN a[f] ELSE zero
RenderAddresses(a) == FrameAddrs(Addr(a, "ci", Zero4), Addr(a, "yi", Zero4), Addr(a, "si", Zero4),
                                 Addr(a, "gi", Zero4), Addr(a, "ch", Zero6))

\* The getters of the header.
FrameKind(s) == [op |-> s[1], htype |-> s[2], hlen |-> s[3], hops |-> s[4], xid |-> SubSeq(s, 5, 8)]
FrameAddr(s) == [ci |-> SubSeq(s, 13, 16), yi |-> SubSeq(s, 17, 20), si |-> SubSeq(s, 21, 24),
                 gi |-> SubSeq(s, 25, 28), ch |-> SubSeq(s, 29, 34)]

\* DHCPFrame_ParseAddresses: an address of zeros is none.
ParseAddresses(s) ==
  LET v == FrameAddr(s)
  IN  [flags |-> {f \in {"ci", "yi", "si", "gi"} : v[f] # Zero4} \cup (IF v.ch # Zero6 THEN {"ch"} ELSE {}),
       ci |-> v.ci, yi |-> v.yi, si |-> v.si, gi |-> v.gi, ch |-> v.ch]

\* The frame of DHCPSrv_SendResponse.
Frame(op, xid, a, opts) == FrameTop(op, xid) \o RenderAddresses(a) \o Cookie \o opts
FixedLen == 48

\* DHCPSrv_Input up to DHCPSrv_Process; other media, frames that are too short
\* and those without a message type are refused. Behind the frame lies what an
\* earlier, longer one has left in rx_buf.
Parsed(s, behind) ==
  LET k == FrameKind(s)
      o == ParseOptions(SubSeq(s, FixedLen + 1, Len(s)), behind)
  IN  IF Len(s) < FixedLen THEN Refuse
      ELSE IF k.htype # 1 \/ k.hlen # 6 \/ o.at = 0 \/ "msg" \notin o.o.flags THEN Refuse
      ELSE [ok |-> TRUE, op |-> k.op, xid |-> k.xid, a |-> ParseAddresses(s), o |-> o.o]
-----------------------------------------------------------------------------
DhcpfInit == dhcpf = [o |-> NoOpts, a |-> NoAddrs, cap |-> 0, out |-> Null, behind |-> 0, back |-> Refuse]

\* A station renders a frame whose options have room for `cap' bytes, behind
\* the options x of others; another one parses it. Nothing but the byte behind
\* the frame stays from an earlier one: one frame of each kind is enough.
Render1 == /\ dhcpf.cap = 0
           /\ \E c \in Renders, a \in AddrSets, x \in Foreign, behind \in {0, 255} :
                LET out == RenderOptions(c.cap, c.o)
                IN  dhcpf' = [o |-> c.o, a |-> a, cap |-> c.cap, out |-> out, behind |-> behind,
                              back |-> IF out = Null THEN Refuse
                                       ELSE Parsed(Frame(2, <<1, 2, 3, 4>>, a, x \o out), behind)]

\* The condition of OptionsRight: the addresses of DHCPFrameOpt_SetDNSServerIP,
\* whose room is not checked, have room behind the options before them.
DnsFits(o, cap) ==
  LET before == (IF "msg" \in o.flags THEN 3 ELSE 0) + 6 * Cardinality(o.flags \cap {"subnet", "router"})
  IN  "dns" \in o.flags => before + 2 + 4 * Len(o.dns) <= cap

\* What DHCPFrame_RenderOptions writes stays within the buffer, if the DNS
\* addresses do, and the frame reads back with every address and option it was
\* given, whatever options of others precede them. A list without its end is
\* refused, unless a 255 lies behind it in the buffer: then it is read back as
\* if that were its end, and nothing else of what lies there is taken.
OptionsRight ==
  dhcpf.out # Null /\ DnsFits(dhcpf.o, dhcpf.cap) =>
    LET ended == "end" \in dhcpf.o.flags \/ dhcpf.behind = 255
    IN  /\ Len(dhcpf.out) <= dhcpf.cap
        /\ dhcpf.back = IF ended /\ "msg" \in dhcpf.o.flags
                        THEN [ok |-> TRUE, op |-> 2, xid |-> <<1, 2, 3, 4>>, a |-> dhcpf.a,
                              o |-> [dhcpf.o EXCEPT !.flags = @ \cup {"end"}]]
                        ELSE Refuse
=============================================================================

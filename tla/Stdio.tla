------------------------------- MODULE Stdio --------------------------------
(* util/stdio.c: the printing and scanning of text that the HTTP server, the *)
(* websockets and the debug output rest on. A text is a sequence of          *)
(* characters, a character a string of length one, the terminating zero "".  *)
(* Floating point numbers are exact decimals: the logarithms with which      *)
(* print_double finds mantissa and exponent are not modelled.                *)
EXTENDS Integers, Sequences, FiniteSets, SequencesExt

CONSTANTS Bits,   \* bits of the argument of each length modifier (hh h none l ll)
          SizeMod, \* size_t is counted modulo this
          IoCalls \* calls: format, arguments and size, and how the text is read back

ASSUME StdioAssumption == SizeMod \in Nat \ {0} /\ \A l \in DOMAIN Bits : Bits[l] \in Nat \ {0}

VARIABLES iostep, \* "print", "scan" or "done"
          iocall, \* the call of IoCalls
          ioout,  \* the text snprintf wrote
          ioback  \* what snscanf made of it

iovars == <<iostep, iocall, ioout, ioback>>

NUL == ""
Spaces == {" ", "\t", "\n", "\r"}
DecDigits == {"0", "1", "2", "3", "4", "5", "6", "7", "8", "9"}
digits == <<"0", "1", "2", "3", "4", "5", "6", "7", "8", "9", "a", "b", "c", "d", "e", "f">>

\* tolower, for the letters that numbers are made of
tolower(c) == CASE c = "A" -> "a" [] c = "B" -> "b" [] c = "C" -> "c" [] c = "D" -> "d" [] c = "E" -> "e"
                [] c = "F" -> "f" [] c = "I" -> "i" [] c = "N" -> "n" [] c = "X" -> "x" [] OTHER -> c

\* The value of a digit; 16, which no base accepts, for anything else
DigitVal(c) == IF \E i \in 1 .. 16 : digits[i] = tolower(c) THEN (CHOOSE i \in 1 .. 16 : digits[i] = tolower(c)) - 1 ELSE 16

CharAt(s, i) == IF i \in 1 .. Len(s) THEN s[i] ELSE NUL
From(s, i) == SubSeq(s, i, Len(s))
Upto(n, s) == SubSeq(s, 1, IF n < Len(s) THEN n ELSE Len(s))
\* How many characters of s from i on satisfy P
Run(s, i, P(_)) == LET ends == {j \in i .. Len(s) : ~P(s[j])} IN (IF ends = {} THEN Len(s) + 1 ELSE Min(ends)) - i
RunOf(s, i, set) == Run(s, i, LAMBDA c : c \in set)
Number(s, b) == FoldLeft(LAMBDA n, c : n * b + DigitVal(c), 0, s)
Times(c, n) == [k \in 1 .. n |-> c]
AtLeast0(n) == IF n > 0 THEN n ELSE 0

RECURSIVE Digs(_, _)
Digs(n, b) == IF n < b THEN <<digits[n + 1]>> ELSE Append(Digs(n \div b, b), digits[(n % b) + 1])

-----------------------------------------------------------------------------
(* Format specifiers: %[parameter$][flags][width][.precision][length]type.   *)
(* A width or precision is a number, -1 (none) or -2 (an argument).          *)

\* fs_process_parameter: digits that end with '$' are skipped, else nothing is
SkipParameter(f, i) == LET n == RunOf(f, i, DecDigits) IN IF CharAt(f, i + n) = "$" THEN i + n + 1 ELSE i

\* fs_process_flags: '+' wins over ' '
Flags(s) == LET set == {s[j] : j \in DOMAIN s} IN IF "+" \in set THEN set \ {" "} ELSE set

\* fs_process_width, fs_process_precision: <<value, where it ends>>
Amount(f, i) ==
    LET n == RunOf(f, i, DecDigits)
    IN IF n > 0 THEN <<Number(SubSeq(f, i, i + n - 1), 10), i + n>>
       ELSE IF CharAt(f, i) = "*" THEN <<-2, i + 1>> ELSE <<-1, i>>
Precision(f, i) == IF CharAt(f, i) = "." THEN Amount(f, i + 1) ELSE <<-1, i>>

\* fs_process_length
Length(f, i) ==
    LET c == CharAt(f, i)
    IN CASE c \in {"h", "l"} /\ CharAt(f, i + 1) = c -> <<c \o c, i + 2>>
         [] c \in {"h", "l", "L", "z", "j", "t"} -> <<c, i + 1>>
         [] OTHER -> <<"none", i>>

\* fs_process_type
Type(c) == CASE c \in {"d", "i", "u", "x", "X", "o"} -> "int" [] c \in {"f", "F", "e", "E", "g", "G", "a", "A"} -> "double"
             [] c = "s" -> "str" [] c = "c" -> "char" [] c = "p" -> "ptr" [] c = "n" -> "length" [] c = "%" -> "percent"
             [] c = NUL -> "eos" [] OTHER -> "none"

\* fs_process: the specifier that starts at i, and where it ends
fs_process(f, i) ==
    LET a == SkipParameter(f, i)
        b == a + RunOf(f, a, {"-", "+", " ", "0", "#"})
        w == Amount(f, b)
        p == Precision(f, w[2])
        l == Length(f, p[2])
        c == CharAt(f, l[2])
        end == IF Type(c) \in {"none", "eos"} THEN l[2] ELSE l[2] + 1
    IN [flags |-> Flags(SubSeq(f, a, b - 1)), width |-> w[1], precision |-> p[1], length |-> l[1],
        type |-> Type(c), conv |-> c, next |-> CharAt(f, end), end |-> end]

-----------------------------------------------------------------------------
(* Printing. Every function returns what it writes into the space left.      *)

print_char(c, size, fs) == Upto(size, Times(c, IF fs.precision = -1 THEN 1 ELSE fs.precision))
print_str(s, size, fs) == Upto(size, IF fs.precision = -1 THEN s ELSE Upto(fs.precision, s))

Width(fs) == IF fs.length \in DOMAIN Bits THEN Bits[fs.length] ELSE Bits["none"]
Signed(v, w) == IF v % 2^w >= 2^(w - 1) THEN (v % 2^w) - 2^w ELSE v % 2^w
Unsigned(c) == c \in {"u", "x", "X", "o"}

\* The digits of print_int. A negative char is negated as the unsigned char it
\* is on this machine, in the width of an int.
Magnitude(v, fs) ==
    LET w == Width(fs)
        s == IF Unsigned(fs.conv) THEN v % 2^w ELSE Signed(v, w)
        n == IF s >= 0 THEN s ELSE IF fs.length = "hh" THEN (0 - (v % 2^w)) % 2^Bits["none"] ELSE -s
    IN Digs(n, IF fs.conv \in {"x", "X"} THEN 16 ELSE 10)

Prefix(v, fs) ==
    IF ~Unsigned(fs.conv) /\ Signed(v, Width(fs)) < 0 THEN <<"-">>
    ELSE IF ~Unsigned(fs.conv) THEN (IF "+" \in fs.flags THEN <<"+">> ELSE IF " " \in fs.flags THEN <<" ">> ELSE <<>>)
    ELSE IF "#" \in fs.flags /\ fs.conv \in {"x", "X"} THEN <<"0", "x">> ELSE <<>>

\* Leading spaces and zeros for n digits and p characters of prefix
Padding(n, p, fs) ==
    LET z == IF fs.precision = -1 THEN 0 ELSE AtLeast0(fs.precision - n)
    IN IF fs.width = -1 THEN <<0, z>>
       ELSE IF "0" \in fs.flags /\ fs.precision = -1 THEN <<0, AtLeast0(fs.width - n - p)>>
       ELSE <<AtLeast0(fs.width - n - p - z), z>>

\* Mutant: what does not fit is taken from the digits only.
Fit_DigitsOnly(ls, p, lz, n, size) == <<ls, p, lz, AtLeast0(n - AtLeast0(ls + p + lz + n - size))>>

\* What is left of the parts when only size characters fit: digits go first,
\* then zeros, prefix and spaces.
Fit(ls, p, lz, n, size) ==
    LET over == AtLeast0(ls + p + lz + n - size)
        n1 == n - over
        z1 == lz + (IF n1 < 0 THEN n1 ELSE 0)
        p1 == p + (IF z1 < 0 THEN z1 ELSE 0)
        s1 == ls + (IF p1 < 0 THEN p1 ELSE 0)
    IN <<s1, AtLeast0(p1), AtLeast0(z1), AtLeast0(n1)>>

print_int(v, size, fs) ==
    LET n == Magnitude(v, fs)
        p == Prefix(v, fs)
        pad == Padding(Len(n), Len(p), fs)
        fit == Fit(pad[1], Len(p), pad[2], Len(n), size)
    IN Times(" ", fit[1]) \o Upto(fit[2], p) \o Times("0", fit[3]) \o Upto(fit[4], n)

\* An exact decimal x = [kind, m, e]: m * 10^e; kind "num", "inf" or "nan".
\* Its mantissa with n digits, rounded half up, after one digit more was cut off
Scaled(m, d) == IF d >= 0 THEN m * 10^d ELSE m \div 10^(-d)
Rounded(m, n) == (Scaled(m, n + 1 - Len(Digs(m, 10))) + 5) \div 10

\* The digits of print_double, without sign: mantissa rounded to the precision
\* but to seven digits at most, then each position of the number.
Decimals(m, e, fs) ==
    LET precision == IF fs.precision = -1 THEN 4 ELSE fs.precision
        sci == fs.conv \in {"e", "E"}
        exp0 == IF m = 0 THEN 0 ELSE Len(Digs(m, 10)) + e
        n0 == (IF sci THEN 1 ELSE exp0) + precision
        n == IF n0 < 7 THEN n0 ELSE 7
        carry == Rounded(m, n) >= 10^n
        man == IF carry THEN Rounded(m, n) \div 10 ELSE Rounded(m, n)
        exp == IF carry THEN exp0 + 1 ELSE exp0
        low == exp - n
        start == IF sci THEN low ELSE -precision
        top == IF sci THEN exp ELSE IF exp > 1 THEN exp ELSE 1
        dot == IF sci THEN top - 1 ELSE 0
        Digit(pos) == IF pos >= low THEN digits[((man \div 10^(pos - low)) % 10) + 1] ELSE "0"
        Down(from, to) == [k \in 1 .. AtLeast0(from - to + 1) |-> Digit(from - k + 1)]
        frac == IF dot > start /\ dot < top THEN <<".">> \o Down(dot - 1, start) ELSE <<>>
        ex == IF exp < 1 THEN 1 - exp ELSE exp - 1
        expo == <<"e", IF exp < 1 THEN "-" ELSE "+">> \o (IF ex < 10 THEN <<"0">> ELSE <<>>) \o Digs(ex, 10)
    IN Down(top - 1, IF frac = <<>> THEN start ELSE dot) \o frac \o (IF sci THEN expo ELSE <<>>)

\* A number in its width: spaces behind it, or zeros or spaces in front
Justified(sign, body, zeros, fs) ==
    LET left == IF fs.width = -1 THEN 0 ELSE AtLeast0(fs.width - Len(sign) - Len(body))
    IN IF "-" \in fs.flags THEN sign \o body \o Times(" ", left)
       ELSE IF "0" \in fs.flags /\ zeros THEN sign \o Times("0", left) \o body
       ELSE Times(" ", left) \o sign \o body

\* print_double for base 10. A width cuts the number, and the space left counts
\* only without one.
print_double(x, size, fs) ==
    LET minus == x.m < 0
        sign == IF x.kind = "nan" THEN <<>> ELSE IF minus THEN <<"-">>
                ELSE IF " " \in fs.flags THEN <<" ">> ELSE IF "+" \in fs.flags THEN <<"+">> ELSE <<>>
        body == CASE x.kind = "inf" -> <<"i", "n", "f">> [] x.kind = "nan" -> <<"n", "a", "n">>
                  [] OTHER -> Decimals(IF minus THEN -x.m ELSE x.m, x.e, fs)
    IN Upto(IF fs.width = -1 THEN size ELSE fs.width, Justified(sign, body, x.kind = "num", fs))

\* The specifier with its width and precision taken from the arguments, which
\* come before the value
Resolve(fs, args) ==
    LET w == IF fs.width = -2 THEN 1 ELSE 0
        given == IF w = 1 THEN args[1] ELSE fs.width
        p == IF fs.precision = -2 THEN 1 ELSE 0
    IN [fs |-> [fs EXCEPT !.width = IF w = 1 /\ given < 0 THEN -given ELSE given,
                          !.flags = IF w = 1 /\ given < 0 THEN @ \cup {"-"} ELSE @,
                          !.precision = IF p = 1 THEN args[w + 1] ELSE @],
        args |-> From(args, w + p + 1)]

\* One specifier of vsnprintf. A '%' advances even when nothing is left, and
\* then the space left wraps around.
Printed(fs, size, args) ==
    CASE fs.type = "char" -> print_char(args[1], size, fs) [] fs.type = "str" -> print_str(args[1], size, fs)
      [] fs.type = "int" -> print_int(args[1], size, fs) [] fs.type = "double" -> print_double(args[1], size, fs)
      [] fs.type = "percent" -> <<IF size > 0 THEN "%" ELSE NUL>> [] OTHER -> <<>>

RECURSIVE PrintFrom(_, _, _, _), PrintSpec(_, _, _)
PrintFrom(f, i, size, args) ==
    IF i > Len(f) THEN <<>>
    ELSE IF f[i] # "%" THEN Upto(size, <<f[i]>>) \o PrintFrom(f, i + 1, AtLeast0(size - 1), args)
    ELSE PrintSpec(f, Resolve(fs_process(f, i + 1), args), size)

\* The specifier r.fs with arguments r.args, and the format behind it
PrintSpec(f, r, size) ==
    LET used == IF r.fs.type \in {"char", "str", "int", "double"} THEN 1 ELSE 0
        Then(out) == out \o PrintFrom(f, r.fs.end, (size - Len(out)) % SizeMod, From(r.args, used + 1))
    IN Then(Printed(r.fs, size, r.args))

\* vsnprintf: one character of the size is for the terminating zero
vsnprintf(size, f, args) == PrintFrom(f, 1, AtLeast0(size - 1), args)

-----------------------------------------------------------------------------
(* Scanning. Every function returns how many characters it took, or -1, and  *)
(* the value. Beyond its last character a text has its terminating zero.     *)

Scanned(n, val) == [n |-> n, val |-> val]
Failed == Scanned(-1, <<>>)
Sees(s, size) == Upto(size, s)
Skipped(s, size) == RunOf(Sees(s, size), 1, Spaces)
\* The characters a number may use once the white space is skipped
Window(s, size, fs) == LET t == From(Sees(s, size), Skipped(s, size) + 1) IN IF fs.precision = -1 THEN t ELSE Upto(fs.precision, t)
SignLen(t) == IF CharAt(t, 1) \in {"+", "-"} THEN 1 ELSE 0
LowerPair(t, i) == <<tolower(CharAt(t, i)), tolower(CharAt(t, i + 1))>>
Significant(s) == From(s, RunOf(s, 1, {"0"}) + 1)

scan_eos(s, size, fs) ==
    LET n == IF size > 0 /\ fs.precision # 0 THEN RunOf(s, 1, Spaces) ELSE 0
    IN IF n = Len(s) THEN Scanned(n, <<>>) ELSE Failed

\* The zero and what follows it are taken like any character.
scan_char(s, size, fs) ==
    LET n == IF fs.precision = -1 THEN 1 ELSE fs.precision
    IN IF n <= size THEN Scanned(n, [k \in 1 .. n |-> CharAt(s, k)]) ELSE Failed

\* One character of scan_str: quotes and backslashes protect white space and
\* the character after the specifier; what does not fit is dropped.
StrChar(w, c, max, next) ==
    LET Keep(x) == [x EXCEPT !.n = @ + 1, !.esc = FALSE, !.out = IF Len(@) < max THEN Append(@, c) ELSE @]
    IN CASE w.stop -> w
         [] w.esc -> IF c = next /\ ~w.quoted THEN [w EXCEPT !.stop = TRUE] ELSE Keep(w)
         [] ~w.esc /\ c = "\\" -> [w EXCEPT !.n = @ + 1, !.esc = TRUE]
         [] ~w.esc /\ c = "\"" ->
              IF w.quoted THEN [w EXCEPT !.n = @ + 1, !.stop = TRUE]
              ELSE IF w.n = 0 THEN [w EXCEPT !.n = @ + 1, !.quoted = TRUE]
              ELSE IF c = next THEN [w EXCEPT !.stop = TRUE] ELSE Keep(w)
         [] ~w.esc /\ (c \in Spaces \/ c = next) -> IF w.quoted THEN Keep(w) ELSE [w EXCEPT !.stop = TRUE]
         [] OTHER -> Keep(w)

\* scan_str: the size limits what is stored, not what is read.
scan_str(s, size, fs) ==
    LET skip == Skipped(s, size)
        room == IF fs.precision = -1 THEN size - skip ELSE Min({AtLeast0(fs.precision - 1), size - skip})
        w == FoldLeft(LAMBDA a, c : StrChar(a, c, room, fs.next),
                      [n |-> 0, out |-> <<>>, quoted |-> FALSE, esc |-> FALSE, stop |-> FALSE], From(s, skip + 1))
    IN Scanned(skip + w.n, w.out)

\* The PREFIX state of scan_int: "0x" or "0b" counts if it is the base asked
\* for, or if the base is taken from the prefix.
IntBase(t, i, conv) ==
    LET found == CASE LowerPair(t, i) = <<"0", "x">> -> 16 [] LowerPair(t, i) = <<"0", "b">> -> 2 [] OTHER -> 0
    IN CASE conv \in {"x", "X"} -> [base |-> 16, len |-> IF found = 16 THEN 2 ELSE 0]
         [] conv = "i" -> [base |-> IF found = 0 THEN 10 ELSE found, len |-> IF found = 0 THEN 0 ELSE 2]
         [] OTHER -> [base |-> IF conv = "o" THEN 8 ELSE 10, len |-> 0]

\* The value with its sign, in the width of the destination
Applied(t, v, w, conv) ==
    LET n == IF CharAt(t, 1) = "-" THEN -v ELSE v IN IF Unsigned(conv) THEN n % 2^w ELSE Signed(n, w)

\* scan_int: at most 30 digits after the leading zeros are kept; a char is
\* stored as a long.
IntIn(t, skip, fs) ==
    LET p == IntBase(t, SignLen(t) + 1, fs.conv)
        i == SignLen(t) + p.len + 1
        n == Run(t, i, LAMBDA c : DigitVal(c) < p.base)
        v == Number(Upto(30, Significant(SubSeq(t, i, i + n - 1))), p.base)
        w == IF fs.length = "hh" THEN Bits["l"] ELSE Width(fs)
    IN IF n = 0 THEN Failed ELSE Scanned(skip + i + n - 1, Applied(t, v, w, fs.conv))
scan_int(s, size, fs) == IntIn(Window(s, size, fs), Skipped(s, size), fs)

\* The end of scan_double: an exponent counts only after digits; one without
\* digits is an error for %e and left alone for the others.
Exponent(t, i, base, fs) ==
    LET c == tolower(CharAt(t, i))
        due == (base = 10 /\ c = "e" /\ fs.conv \in {"e", "E", "a", "A"}) \/ (base = 16 /\ c = "p")
        g == SignLen(From(t, i + 1))
        n == RunOf(t, i + 1 + g, DecDigits)
        v == Number(SubSeq(t, i + 1 + g, i + g + n), 10)
    IN IF ~due THEN [end |-> i, val |-> 0, ok |-> TRUE]
       ELSE IF n > 0 THEN [end |-> i + 1 + g + n, val |-> IF CharAt(t, i + 1) = "-" THEN -v ELSE v, ok |-> TRUE]
       ELSE [end |-> i, val |-> 0, ok |-> fs.conv \notin {"e", "E"}]

\* The exponent of the first significant digit, as INT and FRAC count it
Shift(int, frac) == IF Significant(int) # <<>> THEN Len(Significant(int)) ELSE Len(Significant(frac)) - Len(frac)

\* scan_double: "inf" and "nan", a hexadecimal prefix for %a, digits with a
\* point, an exponent. Text that ends before any digit reads as zero. At most
\* 64 digits are kept; the value is m * base^e.
DoubleIn(t, skip, fs) ==
    LET neg == CharAt(t, 1) = "-"
        a == SignLen(t) + 1
        word == [k \in 1 .. 3 |-> tolower(CharAt(t, a + k - 1))]
        hex == fs.conv \in {"a", "A"} /\ LowerPair(t, a) = <<"0", "x">>
        base == IF hex THEN 16 ELSE 10
        i == IF hex THEN a + 2 ELSE a
        n == Run(t, i, LAMBDA c : DigitVal(c) < base)
        dot == IF CharAt(t, i + n) = "." THEN 1 ELSE 0
        k == IF dot = 1 THEN Run(t, i + n + 1, LAMBDA c : DigitVal(c) < base) ELSE 0
        int == SubSeq(t, i, i + n - 1)
        frac == SubSeq(t, i + n + 1, i + n + k)
        buf == Upto(64, Significant(int \o frac))
        ex == Exponent(t, i + n + dot + k, base, fs)
        m == Number(buf, base)
        Value(kind, man, e) == [kind |-> kind, m |-> IF neg THEN -man ELSE man, e |-> e, base |-> base]
        Ends(end, val) == Scanned(skip + end - 1, val)
    IN CASE word = <<"i", "n", "f">> -> Ends(a + 3, Value("inf", 1, 0))
         [] word = <<"n", "a", "n">> -> Ends(a + 3, [Value("nan", 0, 0) EXCEPT !.m = 0])
         [] word \notin {<<"i", "n", "f">>, <<"n", "a", "n">>} /\ n + k = 0 ->
              IF i + dot > Len(t) THEN Ends(i + dot, Value("num", 0, 0)) ELSE Failed
         [] OTHER -> IF ~ex.ok THEN Failed
                     ELSE Ends(ex.end, Value("num", m, IF buf = <<>> THEN 0 ELSE Shift(int, frac) + ex.val - Len(buf)))
scan_double(s, size, fs) == DoubleIn(Window(s, size, fs), Skipped(s, size), fs)

\* One specifier of vsnscanf
Conv(fs, s, size) ==
    CASE fs.type = "char" -> scan_char(s, size, fs) [] fs.type = "str" -> scan_str(s, size, fs)
      [] fs.type = "int" -> scan_int(s, size, fs) [] fs.type = "double" -> scan_double(s, size, fs)
      [] fs.type = "percent" -> IF CharAt(s, 1) = "%" THEN Scanned(1, <<>>) ELSE Failed
      [] fs.type = "eos" -> scan_eos(s, size, fs) [] OTHER -> Scanned(0, <<>>)

RECURSIVE ScanFrom(_, _, _, _, _), ScanSpec(_, _, _, _, _)
\* The loop of vsnscanf from place i of the format on, args the precisions that
\* are passed as arguments. A specifier with width '*' stores nothing.
ScanFrom(f, i, s, size, args) ==
    IF i > Len(f) THEN <<>>
    ELSE IF f[i] \in Spaces THEN ScanFrom(f, i + 1, From(s, Skipped(s, size) + 1), size - Skipped(s, size), args)
    ELSE IF f[i] # "%" THEN (IF size > 0 /\ CharAt(s, 1) = f[i] THEN ScanFrom(f, i + 1, From(s, 2), size - 1, args) ELSE <<>>)
    ELSE ScanSpec(f, fs_process(f, i + 1), s, size, args)

ScanSpec(f, r, s, size, args) ==
    LET given == r.precision = -2
        fs == IF given THEN [r EXCEPT !.precision = args[1]] ELSE r
        stored == fs.type \notin {"percent", "eos"} /\ fs.width # -2
        Then(x) == IF x.n < 0 THEN <<>>
                   ELSE (IF stored THEN <<x.val>> ELSE <<>>)
                        \o ScanFrom(f, fs.end, From(s, x.n + 1), (size - x.n) % SizeMod, IF given THEN From(args, 2) ELSE args)
    IN Then(Conv(fs, s, size))

\* vsnscanf, with the values stored in place of the number of matches
vsnscanf(s, size, f, args) == ScanFrom(f, 1, s, size, args)

-----------------------------------------------------------------------------
(* A call of snprintf and of snscanf for what it wrote.                      *)

StdioStart == iostep = "print" /\ ioout = <<>> /\ ioback = <<>>
StdioInit == iocall \in IoCalls /\ StdioStart

Snprintf ==
    /\ iostep = "print" /\ iostep' = "scan"
    /\ ioout' = vsnprintf(iocall.size, iocall.fmt, iocall.args)
    /\ UNCHANGED <<iocall, ioback>>

Snscanf ==
    /\ iostep = "scan" /\ iostep' = "done"
    /\ ioback' = vsnscanf(ioout, Len(ioout), iocall.back, iocall.room)
    /\ UNCHANGED <<iocall, ioout>>

StdioNext == Snprintf \/ Snscanf

-----------------------------------------------------------------------------
(* Properties.                                                               *)

\* What the text holds of an argument: an integer of the length printed, a
\* word up to what the destination holds, a decimal rounded to its precision.
SameNumber(x, y) == x.kind = y.kind /\ LET d == IF x.e < y.e THEN x.e ELSE y.e IN x.m * 10^(x.e - d) = y.m * 10^(y.e - d)

\* The specifiers of a format
Specs(f) == {fs_process(f, i + 1) : i \in {j \in DOMAIN f : f[j] = "%"}}
Uncut(c) == vsnprintf(SizeMod - 1, c.fmt, c.args)

\* The calls that do not keep to their size: the width of a double takes its
\* place, and a percent sign advances even where nothing is left.
Overruns(c) == \E fs \in Specs(c.fmt) :
    \/ fs.type = "double" /\ fs.width > AtLeast0(c.size - 1)
    \/ fs.type = "percent" /\ Len(Uncut(c)) > AtLeast0(c.size - 1)

\* The calls whose text is not the number: %o prints decimal digits and reads
\* octal ones, a negative char is printed as an int, and a width cuts a double.
Distorts(c) == \E fs \in Specs(c.fmt) :
    \/ fs.conv = "o"
    \/ fs.length = "hh" /\ c.kind = "int" /\ Prefix(c.args[1], fs) = <<"-">>
    \/ fs.type = "double" /\ fs.width # -1 /\ fs.width < Len(print_double(c.args[1], SizeMod, [fs EXCEPT !.width = -1]))

\* However little space there is, vsnprintf writes the beginning of the text it
\* would write into a large buffer, and leaves room for the zero.
PrintCut == iostep # "print" /\ ~Overruns(iocall) =>
    ioout = Upto(AtLeast0(iocall.size - 1), Uncut(iocall))

\* Text that was not cut reads back: vsnscanf finds the integers, words and
\* decimals that went in, with the flags, widths and precisions they had.
ReadBack == iostep = "done" /\ Len(ioout) < iocall.size - 1 /\ ~Distorts(iocall) =>
    /\ Len(ioback) = Len(iocall.want)
    /\ \A k \in DOMAIN ioback :
         IF iocall.kind = "double" THEN SameNumber(ioback[k], iocall.want[k]) ELSE ioback[k] = iocall.want[k]

\* Printing and scanning are inverse, but for the calls of Distorts, and bounded
\* by the size of the buffer, but for those of Overruns.
TextRight == PrintCut /\ ReadBack
=============================================================================

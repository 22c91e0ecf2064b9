---------------------------- MODULE HydraFormat ----------------------------
(***************************************************************************)
(* How Hydra puts a packet on the line and takes it off again: the four    *)
(* formats of hydra_putpkt, the escapes of hydra_putbinbyte, the receiver  *)
(* hydra_recv with its decoders, and the options of the link that the two  *)
(* sides agree on (hydra_parse_init).  Bytes are 0..255.  The check sums   *)
(* and the packet type are bytes like the others and are left out.         *)
(***************************************************************************)
EXTENDS Integers, Sequences

DLE == 24
XON == 17
XOFF == 19
CR == 13
PKTEND == 97

LF == 10

\* HYDRA_CANOPT; the other options are never agreed on.
Option == {"XON", "TLN", "CTL", "HIC", "HI8", "ASC", "UUE", "C32"}

\* HYDRA_RXIOPT: how the line is read until the other's INIT is known.
InitOption == {"XON", "TLN", "CTL", "HIC", "HI8"}

\* hydra_parse_init: what we want or they want, and both can do.
parse_init(want, theyWant, theyCan) == ((want \cup theyWant) \cap theyCan) \cap Option

Low7(c) == c % 128
Flip(c) == IF (c \div 64) % 2 = 0 THEN c + 64 ELSE c - 64     \* c ^ 0x40
Control(c) == c < 32 \/ c = 127
Flow(c) == c \in {XON, XOFF}

\* Mutant: characters with the high bit set are never escaped.
Escaped_Low(opt, c, last) ==
    \/ c = DLE
    \/ "XON" \in opt /\ Flow(c)
    \/ "TLN" \in opt /\ c = CR /\ last = 64
    \/ "CTL" \in opt /\ Control(c)

\* hydra_putbinbyte: is c sent as two characters, after last?
Escaped(opt, c, last) ==
    LET n == IF "HIC" \in opt THEN Low7(c) ELSE c IN
    \/ n = DLE
    \/ "XON" \in opt /\ Flow(n)
    \/ "TLN" \in opt /\ n = CR /\ last = 64
    \/ "CTL" \in opt /\ Control(n)

\* before: hi->lastchar, which an earlier packet has left (-1: there was none).
PutBin(opt, before, s) ==
    LET last(i) == IF i = 1 THEN before ELSE IF "HIC" \in opt THEN Low7(s[i - 1]) ELSE s[i - 1]
        put[i \in 0..Len(s)] ==
            IF i = 0 THEN <<>>
            ELSE put[i - 1] \o IF Escaped(opt, s[i], last(i)) THEN <<DLE, Flip(s[i])>> ELSE <<s[i]>>
    IN  put[Len(s)]

\* hydra_puthexbyte
HexDigit(d) == IF d < 10 THEN 48 + d ELSE 87 + d
HexByte(c) ==
    IF c >= 128 THEN <<92, HexDigit(c \div 16), HexDigit(c % 16)>>
    ELSE IF Control(c) THEN <<DLE, Flip(c)>>
    ELSE IF c = 92 THEN <<92, 92>> ELSE <<c>>
PutHex(s) ==
    LET put[i \in 0..Len(s)] == IF i = 0 THEN <<>> ELSE put[i - 1] \o HexByte(s[i])
    IN  put[Len(s)]

\* The bits of a block, least significant first (ASC) or last (UUE), cut into
\* pieces of w bits; the last piece is filled with zeros.
Bit(s, i, msb) ==
    LET k == (i - 1) % 8 IN (s[((i - 1) \div 8) + 1] \div 2^(IF msb THEN 7 - k ELSE k)) % 2
Pieces(s, from, w, msb) ==
    LET bits == Len(s) * from
        b(i) == IF i > bits THEN 0
                ELSE IF from = 8 THEN Bit(s, i, msb)
                ELSE LET k == (i - 1) % from IN
                     (s[((i - 1) \div from) + 1] \div 2^(IF msb THEN from - 1 - k ELSE k)) % 2
        value[j \in Nat, k \in 0..w] ==
            IF k = 0 THEN 0
            ELSE value[j, k - 1] + b((j - 1) * w + k) * 2^(IF msb THEN w - k ELSE k - 1)
        n == IF w = 8 THEN bits \div w ELSE (bits + w - 1) \div w
    IN  [j \in 1..n |-> value[j, w]]

\* hydra_putascblock, hydra_putuueblock, and their decoders.
PutAsc(opt, before, s) == PutBin(opt, before, Pieces(s, 8, 7, FALSE))
GetAsc(e) == Pieces([i \in 1..Len(e) |-> Low7(e[i])], 7, 8, FALSE)
PutUue(s) == LET t == Pieces(s, 8, 6, TRUE) IN [i \in 1..Len(t) |-> t[i] + 33]
GetUue(e) == Pieces([i \in 1..Len(e) |-> (e[i] - 33) % 64], 6, 8, TRUE)

\* hydra_gethexblock
HexValue(d) == IF d - 48 > 9 THEN d - 87 ELSE d - 48
GetHex(e) ==
    LET get[i \in 1..(Len(e) + 3)] ==
            IF i > Len(e) THEN <<>>
            ELSE IF e[i] # 92 THEN <<e[i]>> \o get[i + 1]
            ELSE IF e[i + 1] = 92 THEN <<92>> \o get[i + 2]
            ELSE <<(HexValue(e[i + 1]) * 16 + HexValue(e[i + 2])) % 256>> \o get[i + 3]
    IN  get[1]

Formats == {"BIN", "HEX", "ASC", "UUE"}
FormatChar(f) == CASE f = "BIN" -> 98 [] f = "HEX" -> 99 [] f = "ASC" -> 100 [] f = "UUE" -> 101
FormatOf(c) == CHOOSE f \in Formats : FormatChar(f) = c

\* Packets are told apart by what hydra_putpkt makes of their type: "INIT" are
\* START, INIT, INITACK, END and IDLE, "DATA" is DATA, "OTHER" are the rest.
Kind == {"INIT", "DATA", "OTHER"}

\* hydra_putpkt: which format a packet is sent in.
Format(opt, kind) ==
    IF kind = "INIT" THEN "HEX"
    ELSE IF "HI8" \notin opt THEN "BIN"
    ELSE IF {"CTL", "UUE"} \subseteq opt THEN "UUE"
    ELSE IF "ASC" \in opt THEN "ASC" ELSE "HEX"

\* Is a line end put behind the packet, as it is?
EndsLine(opt, kind) == kind # "DATA" /\ Format(opt, kind) # "BIN"

Encode(opt, before, kind, s) ==
    LET f == Format(opt, kind) IN
    <<DLE, FormatChar(f)>>
    \o (CASE f = "BIN" -> PutBin(opt, before, s) [] f = "HEX" -> PutHex(s)
          [] f = "ASC" -> PutAsc(opt, before, s) [] f = "UUE" -> PutUue(s))
    \o <<DLE, PKTEND>>
    \o (IF EndsLine(opt, kind) THEN <<CR, LF>> ELSE <<>>)

Decoded(f, e) ==
    CASE f = "BIN" -> e [] f = "HEX" -> GetHex(e) [] f = "ASC" -> GetAsc(e) [] f = "UUE" -> GetUue(e)

\* hydra_recv throws away what the line may have added.
Discarded(opt, c) ==
    LET n == IF "HIC" \in opt THEN Low7(c) ELSE c IN
    n # DLE /\ (("XON" \in opt /\ Flow(n)) \/ ("CTL" \in opt /\ Control(n)))

\* hydra_recv: the packets in the characters e, <<-1>> for a packet end that
\* ends no packet and <<-2>>, the last one, for five DLE.  "dle" is idlecnt,
\* "fmt" is "none" unless iencrcv is set.
Recv(opt, e) ==
    LET start == [dle |-> 0, fmt |-> "none", buf |-> <<>>, pkts |-> <<>>]
        char(i) == IF "HI8" \in opt THEN Low7(e[i]) ELSE e[i]
        took(r, pkt) == [start EXCEPT !.pkts = Append(r.pkts, pkt)]
        recv[i \in 0..Len(e)] ==
            IF i = 0 THEN start
            ELSE LET r == recv[i - 1]  c == char(i) IN
                 IF r.dle >= 5 \/ Discarded(opt, c) THEN r
                 ELSE IF c = DLE
                      THEN IF r.dle = 4 THEN [took(r, <<-2>>) EXCEPT !.dle = 5]
                           ELSE [r EXCEPT !.dle = @ + 1]
                 ELSE IF r.dle > 0 /\ c = PKTEND
                      THEN took(r, IF r.fmt = "none" THEN <<-1>> ELSE Decoded(r.fmt, r.buf))
                 ELSE IF r.dle > 0 /\ c \in 98..101
                      THEN [r EXCEPT !.dle = 0, !.fmt = FormatOf(c), !.buf = <<>>]
                 ELSE IF r.fmt = "none" THEN [r EXCEPT !.dle = 0]
                 ELSE [r EXCEPT !.dle = 0, !.buf = Append(@, IF r.dle > 0 THEN Flip(c) ELSE c)]
    IN  recv[Len(e)].pkts

-----------------------------------------------------------------------------
\* Where e has what a link with these options cannot be trusted to carry: an
\* eighth bit, flow control, a control character that is no DLE, or the CR of
\* a Telenet escape.
Forbidden(opt, e) ==
    LET seen(i) == IF "HIC" \in opt THEN Low7(e[i]) ELSE e[i] IN
    {i \in DOMAIN e :
        \/ "HI8" \in opt /\ e[i] >= 128
        \/ "XON" \in opt /\ Flow(seen(i))
        \/ "CTL" \in opt /\ e[i] # DLE /\ Control(seen(i))
        \/ "TLN" \in opt /\ i > 1 /\ seen(i) = CR /\ seen(i - 1) = 64}

\* The options each side computes from the INIT of the other, when this mailer
\* (HYDRA_DEFOPT is "C32") sends to one that wants more.
SenderOpt(wants) == parse_init({"C32"}, wants, wants \cup {"C32"})
ReceiverOpt(wants) == parse_init(wants, {"C32"}, Option)
=============================================================================

--------------------------- MODULE ZmodemFormat ----------------------------
(***************************************************************************)
(* How Zmodem puts headers and data on the line (prot_zmmisc.c): the       *)
(* escapes of zsendline and zdlread, the binary header of zsbhdr and the   *)
(* hexadecimal one of zshhdr, the data subpackets of zsdata, and their     *)
(* readers.  Bytes are 0..255.  Check sums are bytes like the others and   *)
(* are left out, as is the choice between 16 and 32 bits of them; so are   *)
(* the length of zrdata's buffer and the nulls before a ZDATA header, of   *)
(* which Z_Txnulls is never set to any.                                    *)
(***************************************************************************)
EXTENDS Integers, Sequences

CONSTANT Garbage    \* what zgethdr skips at most; 8192 in the code

ZDLE == 24
CAN == ZDLE
XON == 17
XOFF == 19
CR == 13
LF == 10
ZPAD == 42
ZBIN == 65
ZHEX == 66
ZBIN32 == 67
ZCRCE == 104
ZCRCG == 105
ZCRCQ == 106
ZCRCW == 107
FrameEnd == {ZCRCE, ZCRCG, ZCRCQ, ZCRCW}

ZACK == 3
ZFIN == 8

\* What a reader returns instead of a byte.  A frame end comes with GOTOR.
GOTOR == 256
GOTCAN == GOTOR + CAN
ZCAN == 16
ZTIMER == -1
ZERROR == -4
ZCRCERR == -5
Byte(code) == code \in 0..255

Flip(c) == IF (c \div 64) % 2 = 0 THEN c + 64 ELSE c - 64     \* c ^ 0100
Low7(c) == c % 128
Control(c) == Low7(c) < 32                                     \* !(c & 0140)
Flow(c) == Low7(c) \in {XON, XOFF}

\* Mutant: ^P, the escape character of Telenet's relatives, is forgotten, and
\* so is the control character it shares its table entry with.
Escaped_NoCtl(ctlesc, c, last) ==
    /\ Control(c)
    /\ c = ZDLE \/ Flow(c) \/ Low7(c) = 16 \/ (Low7(c) = CR /\ Low7(last) = 64)

\* zsendline_init and zsendline: is c escaped, after the character last?
Escaped(ctlesc, c, last) ==
    /\ Control(c)
    /\ \/ ctlesc \/ c = ZDLE \/ Flow(c) \/ Low7(c) = 16
       \/ Low7(c) = CR /\ Low7(last) = 64

\* before: Z_Lastsent, of whatever was sent before the text s.
zsendline(ctlesc, before, s) ==
    LET put[i \in 0..Len(s)] ==
            IF i = 0 THEN <<>>
            ELSE LET sent == put[i - 1]
                     last == IF i = 1 THEN before ELSE sent[Len(sent)]
                 IN  sent \o IF Escaped(ctlesc, s[i], last) THEN <<ZDLE, Flip(s[i])>> ELSE <<s[i]>>
    IN  put[Len(s)]

\* zdlread, called again and again: what it has returned and whether it is in
\* an escape ("dle") that so many CAN have followed ("cans"), after the byte c.
Reading == [dle |-> FALSE, cans |-> 0, got |-> <<>>]
zdlread(ctlesc, r, c) ==
    LET returns(code) == [Reading EXCEPT !.got = Append(r.got, code)]
        ignored == Flow(c) \/ (ctlesc /\ Control(c))
    IN  CASE ~r.dle /\ c = ZDLE              -> [r EXCEPT !.dle = TRUE]
          [] r.dle /\ c = CAN                -> IF r.cans = 4 THEN returns(GOTCAN)
                                                ELSE [r EXCEPT !.cans = @ + 1]
          [] c # ZDLE /\ ignored             -> [r EXCEPT !.cans = 0]
          [] ~r.dle /\ c # ZDLE /\ ~ignored  -> returns(c)
          [] r.dle /\ c \in FrameEnd         -> returns(c + GOTOR)
          [] r.dle /\ c = 108                -> returns(127)
          [] r.dle /\ c = 109                -> returns(255)
          [] r.dle /\ (c \in 64..95 \/ c \in 192..223) -> returns(Flip(c))
          [] OTHER                           -> returns(ZERROR)

\* A header is five bytes unless there is an error, a block anything up to what
\* is not a byte.
Enough(header, got) ==
    /\ got # <<>>
    /\ IF header THEN Len(got) = 5 \/ got[Len(got)] < 0 ELSE ~Byte(got[Len(got)])

\* What zdlread returns from e until its caller has had enough, and what is
\* left of e; ZTIMER is the last when e is not enough.
zdlreads(ctlesc, e, header) ==
    LET read[i \in 0..Len(e)] ==
            IF i = 0 THEN [at |-> 0, r |-> Reading]
            ELSE LET t == read[i - 1] IN
                 IF Enough(header, t.r.got) THEN t ELSE [at |-> i, r |-> zdlread(ctlesc, t.r, e[i])]
        end == read[Len(e)]
    IN  [got |-> IF Enough(header, end.r.got) THEN end.r.got ELSE Append(end.r.got, ZTIMER),
         rest |-> SubSeq(e, end.at + 1, Len(e))]

\* zrdata: the bytes before a frame end, which one it is, or why there is none.
zrdata(ctlesc, e) ==
    LET read == zdlreads(ctlesc, e, FALSE)
        n == Len(read.got)
    IN  [data |-> SubSeq(read.got, 1, n - 1),
         end |-> IF read.got[n] = GOTCAN THEN ZCAN
                 ELSE IF read.got[n] > GOTOR THEN read.got[n] - GOTOR ELSE read.got[n],
         rest |-> read.rest]

\* A block that asks for an answer is followed by an XON, as it is.
zsdata(ctlesc, before, s, frameend) ==
    zsendline(ctlesc, before, s) \o <<ZDLE, frameend>>
    \o (IF frameend = ZCRCW THEN <<XON>> ELSE <<>>)

-----------------------------------------------------------------------------
(* Headers: a type and four bytes, stohdr and rclhdr                        *)

Base == 256
stohdr(pos) == [i \in 1..4 |-> (pos \div Base^(i - 1)) % Base]
rclhdr(hdr) == hdr[1] + Base * (hdr[2] + Base * (hdr[3] + Base * hdr[4]))

Digit(d) == IF d < 10 THEN 48 + d ELSE 87 + d
Hex(c) == <<Digit(c \div 16), Digit(c % 16)>>
UnDigit(d) == IF d - 48 > 9 THEN d - 87 ELSE d - 48

\* zsbhdr and zshhdr; the latter adds CR and LF, and an XON that uncorks the line.
zsbhdr(ctlesc, before, type, hdr) ==
    <<ZPAD, ZDLE, ZBIN>> \o zsendline(ctlesc, before, <<type>> \o hdr)
zshhdr(type, hdr) ==
    <<ZPAD, ZPAD, ZDLE, ZHEX>> \o Hex(type) \o Hex(hdr[1]) \o Hex(hdr[2]) \o Hex(hdr[3]) \o Hex(hdr[4])
    \o <<CR, LF>> \o (IF type \in {ZFIN, ZACK} THEN <<>> ELSE <<XON>>)

\* The five bytes of a binary header.  What is no byte is returned if it is an
\* error, and otherwise caught by the check sum.
zrbhdr(ctlesc, e) ==
    LET read == zdlreads(ctlesc, e, TRUE)
        n == Len(read.got)
    IN  [hdr |-> IF read.got[n] < 0 THEN <<read.got[n]>>
                 ELSE IF \A i \in 1..5 : Byte(read.got[i]) THEN read.got ELSE <<ZCRCERR>>,
         rest |-> read.rest]

\* noxrd7 does not see these (of seven bits).
Unseen(ctlesc, c) == Flow(c) \/ (ctlesc /\ Control(c) /\ Low7(c) \notin {CR, LF, ZDLE})

\* The ten digits of a hexadecimal header; behind them a CR is thrown away with
\* the character after it, if it has arrived yet, and any other character too.
zrhhdr(ctlesc, e, arrived) ==
    LET seen == SelectSeq([i \in DOMAIN e |-> i], LAMBDA i : ~Unseen(ctlesc, e[i]))
        digit(k) == UnDigit(Low7(e[seen[k]]))
        wrong == {k \in DOMAIN seen : k <= 10 /\ digit(k) \notin 0..15}
        first == CHOOSE k \in wrong : \A l \in wrong : k <= l
        thrown == IF ~arrived \/ seen[10] = Len(e) THEN 0
                  ELSE IF Low7(e[seen[10] + 1]) = CR THEN 2 ELSE 1
    IN  CASE wrong # {} -> [hdr |-> <<ZERROR>>, rest |-> SubSeq(e, seen[first] + 1, Len(e))]
          [] wrong = {} /\ Len(seen) < 10 -> [hdr |-> <<ZTIMER>>, rest |-> <<>>]
          [] wrong = {} /\ Len(seen) >= 10 ->
                 [hdr |-> [k \in 1..5 |-> 16 * digit(2 * k - 1) + digit(2 * k)],
                  rest |-> SubSeq(e, seen[10] + thrown + 1, Len(e))]

\* zgethdr before it reads the header itself.  "at" is a label of the code, or
\* "can" behind a CAN and "kind" behind ZPAD and ZDLE; n and cancount are what
\* is left of them, and "stop" is what is returned, or the kind of the header.
Hunt == [at |-> "again", n |-> Garbage, cancount |-> 5, stop |-> 0]
Stop(r, code) == [r EXCEPT !.at = "stop", !.stop = code]
Skip(r) == IF r.n = 1 THEN Stop(r, ZERROR)
           ELSE [r EXCEPT !.at = "again", !.n = @ - 1, !.cancount = 5]
GotCan(r, at) == IF r.cancount = 1 THEN Stop(r, ZCAN)
                 ELSE [r EXCEPT !.at = at, !.cancount = @ - 1]
hunt(ctlesc, r, c) ==
    CASE r.at = "again" /\ c = CAN           -> GotCan(r, "can")
      [] r.at = "again" /\ Low7(c) = ZPAD    -> [r EXCEPT !.at = "splat", !.cancount = 5]
      [] r.at = "can" /\ c = CAN             -> GotCan(r, "again")
      [] r.at = "can" /\ c = ZCRCW           -> Stop(r, ZERROR)
      [] r.at \in {"splat", "kind"} /\ Unseen(ctlesc, c) -> r
      [] r.at = "splat" /\ Low7(c) = ZPAD    -> r
      [] r.at = "splat" /\ Low7(c) = ZDLE    -> [r EXCEPT !.at = "kind"]
      [] r.at = "kind" /\ Low7(c) = CAN      -> GotCan(r, "can")
      [] r.at = "kind" /\ Low7(c) \in {ZBIN, ZBIN32, ZHEX} -> Stop(r, Low7(c))
      [] OTHER                               -> Skip(r)

\* zgethdr: the header, or what is returned in its place; and the rest of e.
zgethdr(ctlesc, e, arrived) ==
    LET read[i \in 0..Len(e)] ==
            IF i = 0 THEN [at |-> 0, r |-> Hunt]
            ELSE LET t == read[i - 1] IN
                 IF t.r.at = "stop" THEN t ELSE [at |-> i, r |-> hunt(ctlesc, t.r, e[i])]
        end == read[Len(e)]
        rest == SubSeq(e, end.at + 1, Len(e))
    IN  CASE end.r.at # "stop"             -> [hdr |-> <<ZTIMER>>, rest |-> <<>>]
          [] end.r.stop \in {ZBIN, ZBIN32} -> zrbhdr(ctlesc, rest)
          [] end.r.stop = ZHEX             -> zrhhdr(ctlesc, rest, arrived)
          [] OTHER                         -> [hdr |-> <<end.r.stop>>, rest |-> rest]

-----------------------------------------------------------------------------
\* Where e has a character that the line takes for itself: flow control, ^P, a
\* CR behind an @, and any control character but ZDLE if they are unwanted.
Forbidden(ctlesc, e) ==
    {i \in DOMAIN e :
        \/ Flow(e[i]) \/ Low7(e[i]) = 16
        \/ ctlesc /\ e[i] # ZDLE /\ Control(e[i])
        \/ i > 1 /\ Low7(e[i]) = CR /\ Low7(e[i - 1]) = 64}
=============================================================================

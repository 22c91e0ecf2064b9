------------------------------ MODULE Formats ------------------------------
(***************************************************************************)
(* Any text, sent in the format of each protocol and read on the other     *)
(* side.  A behaviour types the text, a byte at a time, for a link that    *)
(* was agreed on at its beginning.  For "garbage" the text is not sent but *)
(* stands on the line in front of a Zmodem header.                         *)
(***************************************************************************)
EXTENDS Integers, Sequences, FiniteSets

CONSTANTS
    Bytes,      \* [protocol -> the bytes that are typed]
    MaxLen,     \* [protocol -> the length of the text]
    Garbage     \* what zgethdr skips at most; 8192 in the code

H == INSTANCE HydraFormat
Z == INSTANCE ZmodemFormat
E == INSTANCE EmsiFormat

ASSUME FormatsAssumption ==
    /\ Garbage \in Nat \ {0}
    /\ \A p \in {"hydra", "zmodem", "garbage", "emsi"} : Bytes[p] \subseteq 0..255 /\ MaxLen[p] \in Nat

VARIABLES
    link,       \* the protocol and what the two sides want of the link
    text

vars == <<link, text>>

\* wants: the options of Hydra; in Zmodem who wants control characters escaped.
Links ==
    [proto : {"hydra"}, wants : SUBSET (H!Option \ {"C32"})]
    \cup [proto : {"zmodem", "garbage"}, wants : SUBSET {"sender", "receiver"}]
    \cup [proto : {"emsi"}, wants : {{}}]

Init == link \in Links /\ text = <<>>

Type ==
    /\ Len(text) < MaxLen[link.proto]
    /\ \E c \in Bytes[link.proto] : text' = Append(text, c)
    /\ UNCHANGED link

Next == Type

Spec == Init /\ [][Next]_vars

-----------------------------------------------------------------------------
(* Properties                                                               *)

\* Hydra packets of every kind, one behind another, arrive as they were sent,
\* in every format of hydra_putpkt and with the options hydra_parse_init finds
\* on either side; START and INIT do so before there are any.  On the line is
\* nothing that the link cannot carry, but for the CR and LF that hydra_putpkt
\* puts, as they are, behind all packets but DATA and binary ones: they are the
\* last two characters, and the only control characters where the link must not
\* carry control characters.  hydra_recv drops or ignores them.
HydraTransparent ==
    link.proto = "hydra" =>
        LET rx == H!ReceiverOpt(link.wants)
            RawEnd(kind) == kind = "INIT" \/ (kind = "OTHER" /\ "HI8" \in rx)
        IN  \A lastchar \in {-1, 64} :
                LET sent == [kind \in H!Kind |->
                                H!Encode(H!SenderOpt(link.wants), lastchar, kind, text)]
                    End(kind) == {Len(sent[kind]) - 1, Len(sent[kind])}
                IN  /\ H!Recv(rx, sent["INIT"] \o sent["OTHER"] \o sent["DATA"])
                           = <<text, text, text>>
                    /\ \A kind \in H!Kind :
                           H!Forbidden(rx, sent[kind])
                               = IF "CTL" \in rx /\ RawEnd(kind) THEN End(kind) ELSE {}
                    /\ H!Recv(H!InitOption, sent["INIT"]) = <<text>>
                    /\ H!Forbidden(H!InitOption, sent["INIT"]) = End("INIT")

\* The sender escapes what the receiver asked for in its ZRINIT as well.
TxEsc == link.wants # {}
RxEsc == "receiver" \in link.wants

\* A ZEOF whose position is made of the characters that matter.
EofType == 11
EofPos == <<Z!ZDLE, Z!XON, Z!ZPAD, 0>>
EofHeader == <<EofType>> \o EofPos

\* What zsdata sends, zrdata receives, whatever the data and whichever side
\* wants control characters to be escaped; and the block or the header that
\* comes next is read as if nothing had been before it.  The only character of
\* a block that the line may take for itself is its last one, the XON that
\* zsdata puts behind a ZCRCW: it is taken neither for data nor for a header.
\* A remote that gives up with six CAN is heard wherever it broke the block off.
DataTransparent ==
    link.proto = "zmodem" /\ Len(text) <= 3 =>
        /\ \A end \in Z!FrameEnd, lastsent \in {0, 64} :
               LET e == Z!zsdata(TxEsc, lastsent, text, end)
                   more == end \in {Z!ZCRCG, Z!ZCRCQ}
                   next == IF more THEN Z!zsdata(TxEsc, lastsent, text, Z!ZCRCE)
                           ELSE Z!zsbhdr(TxEsc, lastsent, EofType, EofPos)
                   read == Z!zrdata(RxEsc, e \o next)
               IN  /\ read.data = text /\ read.end = end
                   /\ IF more THEN Z!zrdata(RxEsc, read.rest).data = text
                      ELSE Z!zgethdr(RxEsc, read.rest, TRUE).hdr = EofHeader
                   /\ Z!Forbidden(TxEsc, e) = IF end = Z!ZCRCW THEN {Len(e)} ELSE {}
        /\ LET e == Z!zsendline(TxEsc, 0, text) IN
           \A cut \in 0..Len(e) :
               Z!zrdata(RxEsc, SubSeq(e, 1, cut) \o [i \in 1..6 |-> Z!CAN]).end = Z!ZCAN

\* Any four bytes of a header, binary or hexadecimal, are read as they were
\* sent, one header behind another, whether or not the line end of zshhdr has
\* arrived when zrhhdr looks for it; and so is a position.  A binary header has
\* nothing that the line may take for itself; a hexadecimal one ends with an XON
\* unless it is a ZACK or ZFIN, and has a raw CR and LF before it even if
\* control characters are unwanted.
HeaderTransparent ==
    link.proto = "zmodem" /\ Len(text) = 4 =>
        /\ \A type \in {Z!ZACK, 17} :
               LET bin == Z!zsbhdr(TxEsc, 64, type, text)
                   hex == Z!zshhdr(type, text)
                   lf == IF type = Z!ZACK THEN Len(hex) ELSE Len(hex) - 1
                   one == Z!zgethdr(RxEsc, bin \o hex \o bin, TRUE)
               IN  /\ one.hdr = <<type>> \o text
                   /\ \A arrived \in BOOLEAN :
                          LET two == Z!zgethdr(RxEsc, one.rest, arrived) IN
                          /\ two.hdr = <<type>> \o text
                          /\ Z!zgethdr(RxEsc, two.rest, TRUE).hdr = <<type>> \o text
                   /\ Z!Forbidden(TxEsc, bin) = {}
                   /\ Z!Forbidden(TxEsc, hex) = (IF TxEsc THEN {lf - 1, lf} ELSE {})
                                                \cup (IF lf = Len(hex) THEN {} ELSE {lf + 1})
        /\ text[4] < 128 => Z!stohdr(Z!rclhdr(text)) = text

(* What becomes of a header behind the garbage g, told without a reader.    *)

\* How many CAN stand right in front of position i: of a CAN and what follows
\* it, two at a time, the second is swallowed.
Cans(g, i) ==
    CHOOSE k \in 0..(i - 1) :
        /\ \A j \in (i - k)..(i - 1) : g[j] = Z!CAN
        /\ k = i - 1 \/ g[i - k - 1] # Z!CAN
Swallowed(g, i) == Cans(g, i) % 2 = 1

\* A ZPAD that counts, and what follows one before anything is seen that is none.
Pad(g, i) == Z!Low7(g[i]) = Z!ZPAD /\ ~Swallowed(g, i)
BehindPad(g, i) ==
    \E k \in 1..(i - 1) :
        Pad(g, k) /\ \A j \in (k + 1)..(i - 1) : Pad(g, j) \/ Z!Unseen(RxEsc, g[j])

\* A header begins in the garbage itself; what follows is then read as a part
\* of it, and only its check sum tells.
Begins(g) == \E i \in DOMAIN g : BehindPad(g, i) /\ Z!Low7(g[i]) = Z!ZDLE

\* What zgethdr counts as garbage, where that is too much, where it has seen
\* the end of a ZCRCW block, and where it has seen five CAN.
Counted(g) == {i \in DOMAIN g : g[i] # Z!CAN /\ ~Pad(g, i)
                                /\ ~(BehindPad(g, i) /\ Z!Unseen(RxEsc, g[i]))}
TooMuch(g) == {i \in Counted(g) : Cardinality({j \in Counted(g) : j <= i}) >= Garbage}
BlockEnds(g) == {i \in DOMAIN g : g[i] = Z!ZCRCW /\ Swallowed(g, i)}
Cancels(g) == {i \in DOMAIN g : g[i] = Z!CAN /\ Cans(g, i) = 4}
Stops(g) == TooMuch(g) \cup BlockEnds(g) \cup Cancels(g)

\* What zgethdr returns in the end, if hdr is found behind g.
Outcome(g, hdr) ==
    IF Stops(g) = {} THEN hdr
    ELSE IF (CHOOSE i \in Stops(g) : \A j \in Stops(g) : i <= j) \in Cancels(g)
         THEN <<Z!ZCAN>> ELSE <<Z!ZERROR>>

\* A header is found behind garbage in which none begins, unless zgethdr has
\* counted too much of it, or met CAN and ZCRCW (both are ZERROR), or five CAN
\* (ZCAN).  An odd number of CAN at the end of the garbage swallows a ZPAD: a
\* binary header, which has one, is lost, and a hexadecimal one, with two, not.
GarbageSkipped ==
    link.proto = "garbage" /\ ~Begins(text) =>
        LET open == Swallowed(text, Len(text) + 1)
            g == IF open THEN Append(text, Z!ZPAD) ELSE text
            Read(e) == Z!zgethdr(RxEsc, text \o e, TRUE).hdr
            bin == Read(Z!zsbhdr(TxEsc, 0, EofType, EofPos))
        IN  /\ Read(Z!zshhdr(EofType, EofPos)) = Outcome(g, EofHeader)
            /\ IF open /\ Stops(g) = {} THEN bin # EofHeader ELSE bin = Outcome(g, EofHeader)

\* All three: Zmodem is transparent to what it carries.
ZmodemTransparent == DataTransparent /\ HeaderTransparent /\ GarbageSkipped

\* Nothing that add_str escapes, and no backslash, which it should escape.
Plain == \A i \in DOMAIN text : E!Printable(text[i]) /\ text[i] # E!Backslash

\* What identifies a system in EMSI arrives as it was sent, whatever brackets
\* and braces are in it.
IdentKept ==
    link.proto = "emsi" /\ Plain =>
        \A n \in 0..Len(text) :
            LET a == SubSeq(text, 1, n)  b == SubSeq(text, n + 1, Len(text)) IN
            E!ParseIdent(E!CreateIdent(a, b)) = <<a, b>>

\* So does a password, which session_addrs_check compares character by
\* character with the one it expects.
PasswordKept ==
    link.proto = "emsi" /\ Plain =>
        E!ParsePasswd(E!CreatePasswd(text, <<65>>)) = <<text, <<65>>>>

\* And backslashes, and letters that are not printable in the locale.
LettersKept ==
    link.proto = "emsi" => E!ParseIdent(E!CreateIdent(text, <<65>>)) = <<text, <<65>>>>
=============================================================================

----------------------------- MODULE EmsiFormat -----------------------------
(***************************************************************************)
(* The text of an EMSI packet (prot_emsi_misc.c): emsi_createdat puts      *)
(* strings between brackets and braces with add_str, emsi_parsedat takes   *)
(* them out with get_field.  Characters are 1..255.                        *)
(***************************************************************************)
EXTENDS Integers, Sequences, SequencesExt

OpenBracket == 91
Backslash == 92
CloseBracket == 93
OpenBrace == 123
CloseBrace == 125
Digit(n) == 48 + n

Printable(c) == c \in 32..126
HexDigit(c) == c \in 48..57 \cup 65..70 \cup 97..102
HexValue(c) == IF c < 58 THEN c - 48 ELSE (c % 32) + 9

\* "\%02hd", of which three characters are kept.
Escape(c) == <<Backslash>> \o IF c < 100 THEN <<Digit(c \div 10), Digit(c % 10)>>
                              ELSE <<Digit(c \div 100), Digit((c \div 10) % 10)>>

\* Mutant: the closing brace is not doubled.
add_str_NoBrace(s) ==
    FlattenSeq([i \in DOMAIN s |->
        (IF s[i] = CloseBracket THEN <<s[i]>> ELSE <<>>)
        \o (IF Printable(s[i]) THEN <<s[i]>> ELSE Escape(s[i]))])

\* The closing characters are doubled, what cannot be printed is escaped.
add_str(s) ==
    FlattenSeq([i \in DOMAIN s |->
        (IF s[i] \in {CloseBracket, CloseBrace} THEN <<s[i]>> ELSE <<>>)
        \o (IF Printable(s[i]) THEN <<s[i]>> ELSE Escape(s[i]))])

Between(open, s, close) == <<open>> \o s \o <<close>>

Nothing == [ok |-> FALSE, field |-> <<>>, rest |-> <<>>]

\* The string between the first pair of from and to, and what follows it.
get_field(s, from, to) ==
    LET c(i) == IF i \in 1..Len(s) THEN s[i] ELSE 0
        Hex2(i) == HexDigit(c(i)) /\ HexDigit(c(i + 1)) /\ ~HexDigit(c(i + 2))
        Byte(i) == 16 * HexValue(c(i)) + HexValue(c(i + 1))
        take[i \in 2..(Len(s) + 4)] ==
            IF i > Len(s) THEN Nothing
            ELSE IF c(i) = to /\ c(i + 1) # to
                 THEN [ok |-> TRUE, field |-> <<>>, rest |-> SubSeq(s, i + 1, Len(s))]
            ELSE IF c(i) = to \/ (c(i) = Backslash /\ c(i + 1) = Backslash)
                 THEN LET r == take[i + 2] IN [r EXCEPT !.field = <<c(i)>> \o @]
            ELSE IF c(i) = Backslash /\ Hex2(i + 1)
                 THEN LET r == take[i + 3]  b == Byte(i + 1) IN
                      [r EXCEPT !.field = (IF b = CloseBracket THEN <<b, b>> ELSE <<b>>) \o @]
            ELSE LET r == take[i + 1] IN [r EXCEPT !.field = <<c(i)>> \o @]
    IN  IF c(1) # from THEN Nothing ELSE take[2]

\* {IDENT}{[name][location]...}, here of two strings.
CreateIdent(a, b) ==
    Between(OpenBrace, Between(OpenBracket, add_str(a), CloseBracket)
                       \o Between(OpenBracket, add_str(b), CloseBracket), CloseBrace)
ParseIdent(s) ==
    LET all == get_field(s, OpenBrace, CloseBrace)
        one == get_field(all.field, OpenBracket, CloseBracket)
        two == get_field(one.rest, OpenBracket, CloseBracket)
    IN  IF all.ok /\ one.ok /\ two.ok THEN <<one.field, two.field>> ELSE <<>>

\* {password}{link codes}
CreatePasswd(pw, codes) == Between(OpenBrace, add_str(pw), CloseBrace) \o Between(OpenBrace, codes, CloseBrace)
ParsePasswd(s) ==
    LET pw == get_field(s, OpenBrace, CloseBrace)
        codes == get_field(pw.rest, OpenBrace, CloseBrace)
    IN  IF pw.ok /\ codes.ok THEN <<pw.field, codes.field>> ELSE <<>>
=============================================================================

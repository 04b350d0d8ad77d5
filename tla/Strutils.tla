------------------------------ MODULE Strutils ------------------------------
(***************************************************************************)
(* The conversions of src/framework/lib/strutils.c: numbers with a sign, a *)
(* base prefix and a multiplier; tokens with a limit or with quotes;       *)
(* escapes and trims.  A string is a sequence of characters; the algorithms*)
(* are written as the code goes through them, and compared to definitions  *)
(* that say what the result is.  A behaviour types one string.             *)
(***************************************************************************)
EXTENDS Integers, SequencesExt

CONSTANTS
    Kinds,          \* what strings are typed: "number", "tokens"
    Alphabet,       \* the characters of each kind
    MaxLen,         \* the longest string of each kind
    Space, Backslash,
    Digit,          \* the value of each character that is a digit in some base
    Bases,          \* from the base prefixes to their bases
    Letters,        \* of the multipliers, in the order of their powers
    I,              \* the letter that makes it 1024
    LLongBits, IntBits, ShortBits,   \* the number of bits of these types
    Delm, Quote,    \* delimiters and quotes
    Maxes, Limits   \* the numbers of tokens asked for, and the limits

ASSUME StrutilsAssumption ==
    /\ ShortBits \in Nat \ {0} /\ IntBits >= ShortBits /\ LLongBits >= IntBits
    /\ Maxes \subseteq Nat \ {0} /\ Limits \subseteq Nat
    /\ Delm \cap Quote = {} /\ Backslash \notin Delm \cup Quote
    /\ MaxLen \in [Kinds -> Nat]

VARIABLES
    kind, text,
    arch64          \* the build: on 64 bits, or on 32
vars == <<kind, text, arch64>>

Init == kind \in Kinds /\ text = <<>> /\ arch64 \in BOOLEAN

Type(c) ==
    /\ c \in Alphabet[kind] /\ Len(text) < MaxLen[kind]
    /\ text' = Append(text, c) /\ UNCHANGED <<kind, arch64>>

Next == \E k \in Kinds : \E c \in Alphabet[k] : Type(c)

Spec == Init /\ [][Next]_vars

-----------------------------------------------------------------------------

Abs(v) == IF v < 0 THEN -v ELSE v

\* The first place from i on with a character in C, or the place of the '\0'.
Find(s, i, C) == Min({j \in i..Len(s) : s[j] \in C} \cup {Len(s) + 1})
FindNot(s, i, C) == Min({j \in i..Len(s) : s[j] \notin C} \cup {Len(s) + 1})
From(s, i) == SubSeq(s, i, Len(s))

\* skip_spaces and trim_spaces.
SkipSpaces(s) == From(s, FindNot(s, 1, {Space}))
TrimSpaces(s) == SubSeq(s, 1, Max({j \in DOMAIN s : s[j] # Space} \cup {0}))

Invalid == [ok |-> FALSE, v |-> 0, rest |-> <<>>]

-----------------------------------------------------------------------------
(* Numbers.                                                                *)

HasSign(s) == s # <<>> /\ s[1] \in {"-", "+"}
Sign(s) == IF s # <<>> /\ s[1] = "-" THEN -1 ELSE 1
Unsigned(s) == IF HasSign(s) THEN Tail(s) ELSE s

\* mpz_set_str: a minus sign and digits with spaces anywhere behind the first.
SetStr(s, base) ==
    LET digits == SelectSeq(Unsigned(s), LAMBDA c : c # Space)
        isDigit(c) == c \in DOMAIN Digit /\ Digit[c] < base
    IN
    IF s = <<>> \/ s[1] = "+" \/ Unsigned(s) = <<>> \/ ~isDigit(Unsigned(s)[1])
       \/ \E i \in DOMAIN digits : ~isDigit(digits[i])
    THEN Invalid
    ELSE [ok |-> TRUE, v |-> Sign(s) * FoldLeft(LAMBDA n, c : n * base + Digit[c], 0, digits)]

\* s_once_proc: s_mult and s_mult_i, powers of 1000 and of 1024, the one of each letter
\* multiplied once more than the one before.
IsLetter(c) == Contains(Letters, c)
Mult(c, base) ==
    FoldLeft(LAMBDA m, l : m * base, base, Tail(SubSeq(Letters, 1, CHOOSE i \in DOMAIN Letters : Letters[i] = c)))

\* Mutant: the letter is looked for before the spaces are gone.
Multiplier_Spaces(str) ==
    LET gotI == Last(str) = I
        s == IF gotI THEN Front(str) ELSE str
    IN
    IF s = <<>> THEN Invalid
    ELSE IF ~IsLetter(Last(s)) THEN [ok |-> TRUE, v |-> 1, rest |-> s]
    ELSE IF TrimSpaces(Front(s)) = <<>> THEN Invalid
    ELSE [ok |-> TRUE, v |-> Mult(Last(s), IF gotI THEN 1024 ELSE 1000),
          rest |-> TrimSpaces(Front(s))]

\* s_get_prefix_multiplier, of a string without spaces at its end: the multiplier, and
\* what is left for the digits; an I without a letter before it counts for nothing.
Multiplier(str) ==
    LET gotI == Last(str) = I
        s == IF gotI THEN TrimSpaces(Front(str)) ELSE str
    IN
    IF s = <<>> THEN Invalid
    ELSE IF ~IsLetter(Last(s)) THEN [ok |-> TRUE, v |-> 1, rest |-> s]
    ELSE IF TrimSpaces(Front(s)) = <<>> THEN Invalid
    ELSE [ok |-> TRUE, v |-> Mult(Last(s), IF gotI THEN 1024 ELSE 1000),
          rest |-> TrimSpaces(Front(s))]

\* s_parse_bigint_by_base.
ParseByBase(str, base) ==
    LET signed == SkipSpaces(str)
        buf == TrimSpaces(SkipSpaces(Unsigned(signed)))
        mul == Multiplier(buf)
        tmp == SetStr(mul.rest, base)
    IN
    IF buf = <<>> \/ ~mul.ok \/ ~tmp.ok THEN Invalid
    ELSE [ok |-> TRUE, v |-> Sign(signed) * tmp.v * mul.v]

\* The base that a prefix tells, and the string after the prefix.
PrefixOf(s) == {p \in DOMAIN Bases : IsPrefix(p, s)}
BaseOf(s) == IF PrefixOf(s) = {} THEN 10 ELSE Bases[CHOOSE p \in PrefixOf(s) : TRUE]
AfterPrefix(s) ==
    IF PrefixOf(s) = {} THEN s ELSE From(s, Len(CHOOSE p \in PrefixOf(s) : TRUE) + 1)

\* s_parse_bigint: there may be a second sign, after the first or after the prefix.
Parse(str) ==
    LET signed == SkipSpaces(str)
        s == SkipSpaces(Unsigned(signed))
        rest == SkipSpaces(AfterPrefix(s))
        n == ParseByBase(rest, BaseOf(s))
    IN
    IF rest = <<>> \/ ~n.ok THEN Invalid ELSE [ok |-> TRUE, v |-> Sign(signed) * n.v]

\* s_parse_bigint_in_range, s_parse_bigint_by_base_in_range.
InRange(n, lower, upper) ==
    IF ~n.ok THEN <<"INVALID_ARGS", 0>>
    ELSE IF n.v >= lower /\ n.v <= upper THEN <<"OK", n.v>>
    ELSE <<"OUT_OF_RANGE", 0>>

\* The bits of the number: mpz_get_si, and where a long has 32 bits s_bignum_2_uint64_t, the
\* two halves of its magnitude and then the complement.
Bits(v) ==
    LET lo == Abs(v) % 2^(LLongBits \div 2)
        hi == Abs(v) \div 2^(LLongBits \div 2)
        ret == hi * 2^(LLongBits \div 2) + lo
    IN
    IF arch64 THEN v % 2^LLongBits
    ELSE IF v < 0 THEN 2^LLongBits - 1 - (ret - 1) ELSE ret

\* The assignments cut the number to the bits of the type.
Cut(v, bits) == v % 2^bits
CutSigned(v, bits) == ((v + 2^(bits - 1)) % 2^bits) - 2^(bits - 1)

Parsed(str, n, isSigned, bits) ==
    LET r == IF isSigned THEN InRange(n, -(2^(bits - 1)), 2^(bits - 1) - 1)
                         ELSE InRange(n, 0, 2^bits - 1)
    IN
    IF str = <<>> THEN <<"ANY_FAILURES", 0>>
    ELSE <<r[1], IF isSigned THEN CutSigned(Bits(r[2]), bits) ELSE Cut(Bits(r[2]), bits)>>

\* gallus_str_parse_int64 and _uint64, and by_base.
ParseInt64(str, isSigned) == Parsed(str, Parse(str), isSigned, LLongBits)
ParseInt64ByBase(str, isSigned, base) == Parsed(str, ParseByBase(str, base), isSigned, LLongBits)

\* gallus_str_parse_int32 and _uint32, and by_base.
ParseInt32(str, isSigned) == Parsed(str, Parse(str), isSigned, IntBits)
ParseInt32ByBase(str, isSigned, base) == Parsed(str, ParseByBase(str, base), isSigned, IntBits)

\* gallus_str_parse_int16 and _uint16, and by_base.
ParseInt16(str, isSigned) == Parsed(str, Parse(str), isSigned, ShortBits)
ParseInt16ByBase(str, isSigned, base) == Parsed(str, ParseByBase(str, base), isSigned, ShortBits)

-----------------------------------------------------------------------------
(* Tokens.                                                                 *)

\* One token of gallus_str_tokenize_with_limit from place i on, and where to go on, 0 at the
\* end; the token after the last one of the limit is all the rest.
NextToken(s, i, toks, max, limit) ==
    LET j == FindNot(s, i, Delm)
        k == Find(s, j, Delm)
    IN
    IF i > Len(s) \/ Len(toks) >= max \/ j > Len(s) THEN <<toks, 0>>
    ELSE IF limit # 0 /\ limit <= Len(toks) THEN <<Append(toks, From(s, j)), 0>>
    ELSE <<Append(toks, SubSeq(s, j, k - 1)), k + 1>>

RECURSIVE TokenizeFrom(_, _, _, _, _)
TokenizeFrom(s, i, toks, max, limit) ==
    LET step == NextToken(s, i, toks, max, limit) IN
    IF step[2] = 0 THEN step[1] ELSE TokenizeFrom(s, step[2], step[1], max, limit)

Tokenize(s, max, limit) == TokenizeFrom(s, 1, <<>>, max, limit)

\* GALLUS_RESULT_QUOTE_NOT_CLOSED, in the place of the tokens.
NotClosed == << <<"GALLUS_RESULT_QUOTE_NOT_CLOSED">> >>

\* Mutant: an escaped quote closes.
Closing_Escaped(s, i) == Find(s, i, {s[i - 1]})

\* The quote that closes the string from place i on, the one before i has opened; an
\* escaped one does not, and at the end of the string there may be none, although
\* the loop has not failed.
RECURSIVE ClosingFrom(_, _, _)
ClosingFrom(s, i, q) ==
    LET j == Find(s, i, {q}) IN
    IF i > Len(s) THEN Len(s) + 1
    ELSE IF j > Len(s) THEN 0
    ELSE IF j > i /\ s[j - 1] = Backslash THEN ClosingFrom(s, j + 1, q)
    ELSE j

\* The first of these looks may find the quote at once: the character before is a '\0' then.
Closing(s, i) == ClosingFrom(s, i, s[i - 1])

\* gallus_str_tokenize_quote from place i on, where a token begins, n characters of which
\* are passed; the tokens found so far may be one more than max.
RECURSIVE QuotesFrom(_, _, _, _)
QuotesFrom(s, i, toks, max) ==
    LET b == FindNot(s, i, Delm)
        e == Find(s, b, Delm \cup Quote)
        before == IF e > b THEN Append(toks, SubSeq(s, b, e - 1)) ELSE toks
        c == Closing(s, e + 1)
    IN
    IF i > Len(s) \/ Len(toks) >= max \/ b > Len(s) THEN toks
    ELSE IF e > Len(s) \/ s[e] \in Delm THEN QuotesFrom(s, e + 1, before, max)
    ELSE IF e = Len(s) \/ c = 0 THEN NotClosed
    ELSE IF c > Len(s) THEN IF e > b THEN Append(before, From(s, e + 1)) ELSE toks
    ELSE QuotesFrom(s, c + 1, Append(before, SubSeq(s, e + 1, c - 1)), max)

TokenizeQuote(s, max) == QuotesFrom(s, 1, <<>>, max)

-----------------------------------------------------------------------------
(* Escapes and trims.                                                      *)

\* gallus_str_escape.
Escape(s, C) == FoldLeft(LAMBDA out, c : out \o (IF c \in C THEN <<Backslash, c>> ELSE <<c>>), <<>>, s)

\* The loop of gallus_str_unescape; a Backslash at the end is lost.
RECURSIVE UnescapeFrom(_, _, _)
UnescapeFrom(s, C, gotBs) ==
    IF s = <<>> THEN <<>>
    ELSE IF ~gotBs /\ s[1] = Backslash THEN UnescapeFrom(Tail(s), C, TRUE)
    ELSE (IF ~gotBs \/ s[1] \in C THEN <<s[1]>> ELSE <<Backslash, s[1]>>)
         \o UnescapeFrom(Tail(s), C, FALSE)

\* gallus_str_unescape: at both ends characters to be escaped have to be.
Unescape(s, C) ==
    IF s = <<>> \/ s[1] \in C \/ (Last(s) \in C /\ ~(Len(s) >= 2 /\ s[Len(s) - 1] = Backslash))
    THEN <<"INVALID_ARGS">>
    ELSE UnescapeFrom(s, C, FALSE)

\* gallus_str_trim_right: one character after the other from the end.
RECURSIVE TrimRight(_, _)
TrimRight(s, C) == IF s # <<>> /\ Last(s) \in C THEN TrimRight(Front(s), C) ELSE s

\* gallus_str_trim_left.
TrimLeft(s, C) == From(s, FindNot(s, 1, C))

\* gallus_str_trim: nothing is returned if the right trim leaves nothing.
Trim(s, C) == IF TrimRight(s, C) = <<>> THEN <<>> ELSE TrimLeft(TrimRight(s, C), C)

-----------------------------------------------------------------------------
(* What numbers are: a sign, a base prefix, digits and a multiplier.       *)

Compact(s) == SelectSeq(s, LAMBDA c : c # Space)
SignsOf(s) == SelectSeq(s, LAMBDA c : c \in {"-", "+"})

Endings == {<<>>, <<I>>} \cup {<<l>> : l \in Range(Letters)} \cup {<<l, I>> : l \in Range(Letters)}
Factor(suffix) ==
    IF suffix \in {<<>>, <<I>>} THEN 1
    ELSE (IF Len(suffix) = 2 THEN 1024 ELSE 1000) ^ (CHOOSE n \in DOMAIN Letters : Letters[n] = suffix[1])

DigitsIn(s, base) == s # <<>> /\ \A i \in DOMAIN s : s[i] \in DOMAIN Digit /\ Digit[s[i]] < base
RECURSIVE Number(_, _)
Number(s, base) == IF s = <<>> THEN 0 ELSE Number(Front(s), base) * base + Digit[Last(s)]

\* The one reading of a compact string without sign, of the given prefix and its base.
Readings(s, prefix, base) ==
    {suffix \in Endings :
        /\ IsPrefix(prefix, s) /\ IsSuffix(suffix, s)
        /\ Len(prefix) + Len(suffix) < Len(s)
        /\ DigitsIn(SubSeq(s, Len(prefix) + 1, Len(s) - Len(suffix)), base)}
Magnitude(s, prefix, base) ==
    LET suffix == CHOOSE x \in Readings(s, prefix, base) : TRUE IN
    Number(SubSeq(s, Len(prefix) + 1, Len(s) - Len(suffix)), base) * Factor(suffix)

AllPrefixes == DOMAIN Bases \cup {<<>>}
Base(prefix) == IF prefix = <<>> THEN 10 ELSE Bases[prefix]

\* The bounds of a type, and what a number becomes in it.
Fits(v, isSigned, bits) ==
    IF isSigned THEN v \in -(2^(bits - 1))..(2^(bits - 1) - 1) ELSE v \in 0..(2^bits - 1)
Expected(v, isSigned, bits) == IF Fits(v, isSigned, bits) THEN <<"OK", v>> ELSE <<"OUT_OF_RANGE", 0>>

\* A sign at the beginning at most, and a prefix that no space splits.
Plain(s) ==
    /\ Len(SignsOf(s)) <= 1 /\ SignsOf(s) # <<>> => HasSign(Compact(s))
    /\ \A p \in DOMAIN Bases :
           IsPrefix(p, Unsigned(Compact(s))) => IsPrefix(p, SkipSpaces(Unsigned(SkipSpaces(s))))

-----------------------------------------------------------------------------
(* Properties.                                                             *)

\* Every number of the grammar of s_parse_bigint is read as what it says: in every type
\* that holds it, out of range in the others, and spaces between its parts do not matter.
NumbersRead ==
    kind = "number" /\ Plain(text) =>
        \A p \in AllPrefixes :
            LET s == Unsigned(Compact(text))
                v == Sign(Compact(text)) * Magnitude(s, p, Base(p))
            IN
            Readings(s, p, Base(p)) # {} =>
                \A isSigned \in BOOLEAN :
                    /\ ParseInt16(text, isSigned) = Expected(v, isSigned, ShortBits)
                    /\ ParseInt32(text, isSigned) = Expected(v, isSigned, IntBits)
                    /\ ParseInt64(text, isSigned) = Expected(v, isSigned, LLongBits)
                    /\ p = <<>> =>
                       /\ ParseInt16ByBase(text, isSigned, 10) = Expected(v, isSigned, ShortBits)
                       /\ ParseInt32ByBase(text, isSigned, 10) = Expected(v, isSigned, IntBits)
                       /\ ParseInt64ByBase(text, isSigned, 10) = Expected(v, isSigned, LLongBits)

\* Nothing else is taken for a number: but for its signs and spaces a string that
\* s_parse_bigint accepts is of the grammar, and its value is the one it says or its negative.
OnlyNumbersRead ==
    kind = "number" /\ Parse(text).ok =>
        LET s == SelectSeq(text, LAMBDA c : c \notin {Space, "-", "+"}) IN
        \E p \in AllPrefixes :
            /\ Readings(s, p, Base(p)) # {}
            /\ Parse(text).v \in {Magnitude(s, p, Base(p)), -Magnitude(s, p, Base(p))}

\* The longest parts of the string without a delimiter.
Runs ==
    LET places == {r \in (1..Len(text)) \X (1..Len(text)) :
                      /\ r[1] <= r[2] /\ \A i \in r[1]..r[2] : text[i] \notin Delm
                      /\ r[1] = 1 \/ text[r[1] - 1] \in Delm
                      /\ r[2] = Len(text) \/ text[r[2] + 1] \in Delm}
    IN SetToSortSeq(places, LAMBDA r, s : r[1] < s[1])

\* gallus_str_tokenize_with_limit finds the parts between the delimiters, as many as asked
\* for; behind as many as the limit the rest is one token, delimiters and all.
TokensRight ==
    kind = "tokens" => \A max \in Maxes, limit \in Limits :
        Tokenize(text, max, limit) =
            [i \in 1..Min({max, Len(Runs)} \cup (IF limit = 0 THEN {} ELSE {limit + 1})) |->
                IF limit # 0 /\ i = limit + 1 THEN From(text, Runs[i][1])
                ELSE SubSeq(text, Runs[i][1], Runs[i][2])]

\* One character after the other: outside of a token, in one, or in quotes.
Reads(st, c) ==
    IF st.mode \in Quote
    THEN IF c = st.mode /\ (st.cur = <<>> \/ Last(st.cur) # Backslash)
         THEN [mode |-> "out", cur |-> <<>>, toks |-> Append(st.toks, st.cur)]
         ELSE [st EXCEPT !.cur = Append(@, c)]
    ELSE IF c \in Delm \cup Quote
         THEN [mode |-> IF c \in Quote THEN c ELSE "out", cur |-> <<>>,
               toks |-> IF st.mode = "in" THEN Append(st.toks, st.cur) ELSE st.toks]
         ELSE [st EXCEPT !.mode = "in", !.cur = Append(@, c)]
End == FoldLeft(Reads, [mode |-> "out", cur |-> <<>>, toks |-> <<>>], text)
InAll == IF End.mode = "in" THEN Append(End.toks, End.cur) ELSE End.toks

\* gallus_str_tokenize_quote finds what a reader of one character after the other does:
\* with max tokens at least, all of them, with less the first ones, and if a quote
\* is not closed, that; unless the string ends in an escaped quote.
QuotedRight ==
    kind = "tokens" /\ text # <<>> => \A max \in Maxes :
        LET toks == TokenizeQuote(text, max) IN
        IF End.mode \notin Quote
        THEN IsPrefix(toks, InAll) /\ Len(toks) >= Min({max, Len(InAll)})
        ELSE max > Len(InAll) /\ ~(Len(text) > 1 /\ text[Len(text) - 1] = Backslash /\ Last(text) = End.mode)
             => toks = NotClosed

\* A string without a Backslash survives to be escaped and unescaped, and escaped no
\* character of it is a quote any more that gallus_str_tokenize_quote would end at.
EscapeUndone ==
    kind = "tokens" /\ text # <<>> /\ ~Contains(text, Backslash) =>
        /\ Unescape(Escape(text, Quote), Quote) = text
        /\ \A q \in Quote : TokenizeQuote(<<q>> \o Escape(text, {q}) \o <<q>>, 2) = <<Escape(text, {q})>>

\* Trimmed is what lies between the first and the last character that stay.
TrimmedRight ==
    kind = "tokens" => \A C \in SUBSET (Delm \cup Quote) :
        LET stay == {i \in DOMAIN text : text[i] \notin C} IN
        Trim(text, C) = IF stay = {} THEN <<>> ELSE SubSeq(text, Min(stay), Max(stay))

\* Strings that say a number of the type are read as that number, and no others.
NumbersRight == NumbersRead /\ OnlyNumbersRead

\* Strings are cut into tokens, quoted, escaped and trimmed as their definitions say.
TextsRight == TokensRight /\ QuotedRight /\ EscapeUndone /\ TrimmedRight

=============================================================================

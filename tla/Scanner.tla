------------------------------ MODULE Scanner ------------------------------
(***************************************************************************)
(* mtr_next_token (scanner/scanner.c): a text, as characters, becomes      *)
(* tokens.  A step is a call; the parser calls until it has the token EOF. *)
(*                                                                         *)
(* Pointers into the text are positions, from 1 on; 0 is NULL.  Behind the *)
(* text is one NUL, and behind that memory which is not the scanner's:     *)
(* end is wild when a loop runs into it.  (The character behind the NUL is *)
(* always read when EOF is scanned, and its value has no consequence.)     *)
(*                                                                         *)
(* A token of type SYMBOL or KEYWORD has the one type of the enumeration   *)
(* whose text it is.                                                       *)
(***************************************************************************)
EXTENDS Integers, Sequences

CONSTANT Texts

Digits     == {"0", "1", "2", "3", "4", "5", "6", "7", "8", "9"}
Letters    == {"a", "b", "c", "d", "e", "f", "g", "h", "i", "j", "k", "l", "m",
               "n", "o", "p", "q", "r", "s", "t", "u", "v", "w", "x", "y", "z",
               "A", "B", "C", "D", "E", "F", "G", "H", "I", "J", "K", "L", "M",
               "N", "O", "P", "Q", "R", "S", "T", "U", "V", "W", "X", "Y", "Z", "_"}
Whitespace == {" ", "\t", "\r", "\n"}
NUL        == "NUL"

Singles == {"+", "-", "*", "/", "%", ",", ":", ";", ".", "(", ")", "[", "]", "{", "}", "!", "=", ">", "<", "|"}
Doubles == {<<"-", ">">>, <<"/", "/">>, <<":", "=">>, <<"!", "=">>, <<">", "=">>, <<"<", "=">>,
            <<"&", "&">>, <<"|", "|">>}
Ellipsis == <<".", ".", ".">>

Keywords == {<<"A", "n", "y">>, <<"t", "y", "p", "e">>, <<"i", "f">>, <<"e", "l", "s", "e">>,
             <<"t", "r", "u", "e">>, <<"f", "a", "l", "s", "e">>, <<"f", "n">>,
             <<"r", "e", "t", "u", "r", "n">>, <<"w", "h", "i", "l", "e">>, <<"f", "o", "r">>,
             <<"I", "n", "t">>, <<"F", "l", "o", "a", "t">>, <<"B", "o", "o", "l">>,
             <<"S", "t", "r", "i", "n", "g">>}

ASSUME TextsAssumption == \A t \in Texts : t \in Seq(STRING) /\ \A i \in 1 .. Len(t) : t[i] # NUL

VARIABLES text,
          start, current,   \* of struct mtr_scanner
          tokens,           \* what the calls have returned
          end               \* scanning, or how it is over: eof, wild

vars == <<text, start, current, tokens, end>>

Init == /\ text \in Texts
        /\ start = 1 /\ current = 1
        /\ tokens = <<>>
        /\ end = "scanning"

At(i) == IF i \in 1 .. Len(text) THEN text[i] ELSE NUL

(* Where a loop over the characters of a set stops. *)
Past(chars, i) == CHOOSE j \in i .. Len(text) + 1 :
                    At(j) \notin chars /\ \A k \in i .. j - 1 : At(k) \in chars

(* Where a loop stops that looks for a character and for nothing else. *)
Has(char, i)  == \E j \in i .. Len(text) : text[j] = char
Find(char, i) == CHOOSE j \in i .. Len(text) : text[j] = char /\ \A k \in i .. j - 1 : text[k] # char

(* skip_whitespace, and the switch on the first character. *)
Start == Past(Whitespace, current)
First == At(Start)

Token(type, from, to) == [type |-> type, start |-> from, length |-> to - from]
InvalidToken == [type |-> "INVALID", start |-> 0, length |-> 0]

Answer(token, to) == /\ start' = Start
                     /\ current' = to
                     /\ tokens' = Append(tokens, token)
                     /\ end' = IF token.type = "EOF" THEN "eof" ELSE "scanning"
                     /\ UNCHANGED text

\* Mutant: start is taken after the first character has been read.
MakeTokenLate(type, to) == Answer(Token(type, Start + 1, to), to)

MakeToken(type, to) == Answer(Token(type, Start, to), to)

OverRead == end' = "wild" /\ UNCHANGED <<text, start, current, tokens>>

Lexeme(to) == SubSeq(text, Start, to - 1)

-----------------------------------------------------------------------------
(* Operators and punctuation: one character of lookahead.  Two dots that   *)
(* are not three, and a single &, give invalid_token, which has no place.  *)
SymbolEnd == CASE At(Start) = "." /\ At(Start + 1) = "." ->
                    IF At(Start + 2) = "." THEN Start + 3 ELSE Start + 2
               [] <<At(Start), At(Start + 1)>> \in Doubles -> Start + 2
               [] OTHER -> Start + 1

Symbol == /\ end = "scanning"
          /\ First \in Singles \union {"&"}
          /\ IF Lexeme(SymbolEnd) \in {<<".", ".">>, <<"&">>} THEN Answer(InvalidToken, SymbolEnd)
             ELSE MakeToken("SYMBOL", SymbolEnd)

Word == /\ end = "scanning"
        /\ First \in Letters
        /\ LET to == Past(Letters \union Digits, Start + 1)
           IN MakeToken(IF Lexeme(to) \in Keywords THEN "KEYWORD" ELSE "IDENTIFIER", to)

\* Mutant: any dot behind the digits is a decimal point.
NumberWithDot ==
  /\ end = "scanning"
  /\ First \in Digits
  /\ LET dot == Past(Digits, Start + 1)
     IN IF At(dot) = "." THEN MakeToken("FLOAT_LITERAL", Past(Digits, dot + 1)) ELSE MakeToken("INT_LITERAL", dot)

Number ==
  /\ end = "scanning"
  /\ First \in Digits
  /\ LET dot == Past(Digits, Start + 1)
     IN IF At(dot) = "." /\ At(dot + 1) \in Digits THEN MakeToken("FLOAT_LITERAL", Past(Digits, dot + 1))
        ELSE MakeToken("INT_LITERAL", dot)

\* Mutant: the end of the text ends a string like a quote does.
StringToTheEnd ==
  /\ end = "scanning"
  /\ First = "'"
  /\ MakeToken("STRING_LITERAL", 1 + IF Has("'", Start + 1) THEN Find("'", Start + 1) ELSE Len(text) + 1)

(* A quote that is missing is looked for in all of memory, and so is the   *)
(* end of a comment in the last line of a text.                            *)
String ==
  /\ end = "scanning"
  /\ First = "'"
  /\ IF Has("'", Start + 1) THEN MakeToken("STRING_LITERAL", Find("'", Start + 1) + 1) ELSE OverRead

Comment ==
  /\ end = "scanning"
  /\ First = "#"
  /\ IF Has("\n", Start + 1) THEN MakeToken("COMMENT", Find("\n", Start + 1)) ELSE OverRead

EndOfText == end = "scanning" /\ First = NUL /\ MakeToken("EOF", Start + 1)

Known == Singles \union Letters \union Digits \union {"&", "'", "#", NUL}

\* Mutant: the character nobody knows is looked at and not read.
UnknownStays == end = "scanning" /\ First \notin Known /\ MakeToken("INVALID", Start)

Unknown == end = "scanning" /\ First \notin Known /\ MakeToken("INVALID", Start + 1)

Over == end # "scanning" /\ UNCHANGED vars

Next == Symbol \/ Word \/ Number \/ String \/ Comment \/ EndOfText \/ Unknown \/ Over

Spec == Init /\ [][Next]_vars

-----------------------------------------------------------------------------
Types == {"SYMBOL", "KEYWORD", "IDENTIFIER", "INT_LITERAL", "FLOAT_LITERAL", "STRING_LITERAL", "COMMENT"}

Tokens == [type : Types \union {"INVALID", "EOF"}, start : 0 .. Len(text) + 1, length : 0 .. Len(text) + 1]

\* Every position stays within the text and its NUL: only EOF reads the NUL.
TypeOK ==
  /\ text \in Texts
  /\ start \in 1 .. Len(text) + 1
  /\ current \in 1 .. Len(text) + 2
  /\ tokens \in Seq(Tokens)
  /\ end \in {"scanning", "eof", "wild"}
  /\ current = Len(text) + 2 => end = "eof"

Holds(token, i) == i \in token.start .. token.start + token.length - 1

\* No character is skipped or read twice: what a call has passed over lies in exactly one
\* of the tokens, or is white space, or belongs to an & or to the two dots that are
\* answered with invalid_token.  Errors are located, and trees freed, by these places.
NothingIsSkipped ==
  /\ \A m, n \in DOMAIN tokens : \A i \in 1 .. Len(text) :
       Holds(tokens[m], i) /\ Holds(tokens[n], i) => m = n
  /\ \A i \in 1 .. Len(text) :
       i < current => \/ \E n \in DOMAIN tokens : Holds(tokens[n], i)
                      \/ text[i] \in Whitespace
                      \/ text[i] \in {"&", "."} /\ \E n \in DOMAIN tokens : tokens[n] = InvalidToken

\* What the language means by its tokens, said without a scanner.
HasType(s, type) ==
  /\ s # <<>>
  /\ CASE type = "SYMBOL" -> s \in Doubles \union {Ellipsis} \union {<<c>> : c \in Singles}
       [] type = "KEYWORD" -> s \in Keywords
       [] type = "IDENTIFIER" -> /\ s \notin Keywords
                                 /\ s[1] \notin Digits
                                 /\ \A i \in DOMAIN s : s[i] \in Letters \union Digits
       [] type = "INT_LITERAL" -> \A i \in DOMAIN s : s[i] \in Digits
       [] type = "FLOAT_LITERAL" -> \E k \in 2 .. Len(s) - 1 :
                                      s[k] = "." /\ \A i \in DOMAIN s \ {k} : s[i] \in Digits
       [] type = "STRING_LITERAL" -> Len(s) > 1 /\ \A i \in DOMAIN s : s[i] = "'" <=> i \in {1, Len(s)}
       [] OTHER -> s[1] = "#" /\ \A i \in DOMAIN s : s[i] # "\n"

TypesOf(from, to) == {type \in Types : HasType(SubSeq(text, from, to), type)}

Longest(from, last, type) == /\ TypesOf(from, last) = {type} \ {"INVALID"}
                             /\ \A to \in last + 1 .. Len(text) : TypesOf(from, to) = {}

\* A token is the longest beginning of the rest of the text that is one, and has its type;
\* one that is invalid has no such beginning: the lookahead of mtr_next_token, of
\* scan_number and of scan_identifier is enough, and never too much.
LongestMatch ==
  LET token == tokens[Len(tokens)]
  IN  tokens # <<>> /\ token.start # 0 /\ token.type # "EOF" =>
        Longest(token.start, token.start + token.length - 1, token.type)

\* Every call reads on, or is the last: the loops of the parser come to EOF.
EveryCallReadsOn == [][current' > current \/ end' # "scanning"]_vars
=============================================================================

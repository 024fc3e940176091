--------------------------- MODULE ScannerProofs ---------------------------
(***************************************************************************)
(* That the tokens of Scanner cover every text, over any characters and of *)
(* any length, without gap or overlap, and that every call reads on.       *)
(*                                                                         *)
(* The loops of the scanner are least positions, which exist because the   *)
(* NUL stops them.  That every token ends where the next call begins is    *)
(* the strengthening that makes the covering inductive.                    *)
(*                                                                         *)
(* Then, that every token is a longest match.                              *)
(***************************************************************************)
EXTENDS Scanner, WellFoundedInduction, TLAPS

(* The inductive invariant. *)
Behind == \A n \in DOMAIN tokens : tokens[n].start + tokens[n].length <= current

IInv == TypeOK /\ Behind /\ NothingIsSkipped

ReadsOn == [current' > current \/ end' # "scanning"]_vars

-----------------------------------------------------------------------------
(* A set of numbers that is not empty has a least.                         *)
LEMMA Least ==
  ASSUME NEW S, S \subseteq Nat, S # {}
  PROVE  \E m \in S : \A n \in S : m <= n
<1> DEFINE R == OpToRel(<, Nat)
<1>1. IsWellFoundedOn(R, Nat)
  BY NatLessThanWellFounded
<1>2. \A x, y \in Nat : x < y => <<x, y>> \in R
  BY DEF OpToRel
<1> HIDE DEF R
<1>3. PICK m \in S : \A n \in S : ~(<<n, m>> \in R)
  BY <1>1, WFMin
<1>4. \A n \in S : ~(n < m) /\ n \in Nat /\ m \in Nat
  BY <1>2, <1>3
<1> QED
  BY <1>3, <1>4

LEMMA Texts0 ==
  ASSUME text \in Texts
  PROVE  /\ text \in Seq(STRING) /\ Len(text) \in Nat
         /\ \A i \in 1 .. Len(text) : text[i] # NUL
         /\ \A i \in 1 .. Len(text) : At(i) = text[i]
         /\ \A i \in Int : i \notin 1 .. Len(text) => At(i) = NUL
<1>1. text \in Seq(STRING) /\ \A i \in 1 .. Len(text) : text[i] # NUL
  BY TextsAssumption
<1> QED
  BY <1>1 DEF At

(* The two loops. *)
LEMMA PastIs ==
  ASSUME text \in Texts, NEW chars, NUL \notin chars, NEW i \in 1 .. Len(text) + 1
  PROVE  /\ Past(chars, i) \in i .. Len(text) + 1
         /\ At(Past(chars, i)) \notin chars
         /\ \A k \in i .. Past(chars, i) - 1 : At(k) \in chars
<1> DEFINE S == {j \in i .. Len(text) + 1 : At(j) \notin chars}
<1>1. Len(text) \in Nat /\ Len(text) + 1 \in S
  BY Texts0
<1>2. S \subseteq Nat
  BY <1>1
<1>3. PICK m \in S : \A n \in S : m <= n
  <2> HIDE DEF S
  <2> QED BY <1>1, <1>2, Least
<1>4. \A k \in i .. m - 1 : At(k) \in chars
  BY <1>1, <1>3
<1>5. \E j \in i .. Len(text) + 1 : At(j) \notin chars /\ \A k \in i .. j - 1 : At(k) \in chars
  BY <1>3, <1>4
<1> QED
  BY <1>5 DEF Past

LEMMA FindIs ==
  ASSUME text \in Texts, NEW char, NEW i \in 1 .. Len(text) + 1, Has(char, i)
  PROVE  /\ Find(char, i) \in i .. Len(text)
         /\ text[Find(char, i)] = char
         /\ \A k \in i .. Find(char, i) - 1 : text[k] # char
<1> DEFINE S == {j \in i .. Len(text) : text[j] = char}
<1>1. Len(text) \in Nat /\ S # {}
  BY Texts0 DEF Has
<1>2. S \subseteq Nat
  BY <1>1
<1>3. PICK m \in S : \A n \in S : m <= n
  <2> HIDE DEF S
  <2> QED BY <1>1, <1>2, Least
<1>4. \A k \in i .. m - 1 : text[k] # char
  BY <1>1, <1>3
<1>5. \E j \in i .. Len(text) : text[j] = char /\ \A k \in i .. j - 1 : text[k] # char
  BY <1>3, <1>4
<1> QED
  BY <1>5 DEF Find

(* White space is skipped; a call is possible while the NUL is unread. *)
LEMMA StartIs ==
  ASSUME TypeOK, end = "scanning"
  PROVE  /\ Start \in current .. Len(text) + 1
         /\ Start \in 1 .. Len(text) + 1
         /\ At(Start) \notin Whitespace
         /\ \A k \in current .. Start - 1 : At(k) \in Whitespace
         /\ First # NUL => Start \in 1 .. Len(text) /\ First = text[Start]
<1>0. text \in Texts /\ Len(text) \in Nat
  BY Texts0 DEF TypeOK
<1>1. current \in 1 .. Len(text) + 1
  BY <1>0 DEF TypeOK
<1>2. NUL \notin Whitespace
  BY DEF NUL, Whitespace
<1>3. /\ Start \in current .. Len(text) + 1
      /\ At(Start) \notin Whitespace
      /\ \A k \in current .. Start - 1 : At(k) \in Whitespace
  BY <1>0, <1>1, <1>2, PastIs DEF Start
<1>4. Start \in 1 .. Len(text) + 1
  BY <1>0, <1>1, <1>3
<1>5. First # NUL => Start \in 1 .. Len(text) /\ First = text[Start]
  BY <1>0, <1>4 DEF First, At
<1> QED
  BY <1>3, <1>4, <1>5

-----------------------------------------------------------------------------
(* What a call that answers with a token has to have looked at.            *)
Placed(token, to) == /\ token.start = Start /\ token.length = to - Start
                     /\ token.type \in Types \union {"INVALID", "EOF"}
                     /\ to \in Start + 1 .. Len(text) + 1 \/ (token.type = "EOF" /\ Start = Len(text) + 1 /\ to = Start + 1)

Lost(token, to) == /\ token = InvalidToken
                   /\ to \in Start + 1 .. Len(text) + 1
                   /\ \A i \in Start .. to - 1 : At(i) \in {"&", "."}

LEMMA AnswerStep ==
  ASSUME IInv, end = "scanning", NEW token \in Tokens, NEW to, Answer(token, to), Placed(token, to) \/ Lost(token, to)
  PROVE  IInv' /\ ReadsOn
<1> DEFINE n == Len(tokens)
<1>0. text \in Texts /\ Len(text) \in Nat /\ tokens \in Seq(Tokens) /\ n \in Nat
  BY Texts0 DEF IInv, TypeOK
<1>1. /\ text \in Texts /\ Len(text) \in Nat /\ n \in Nat
      /\ current \in 1 .. Len(text) + 1
      /\ \A m \in 1 .. n : tokens[m].start \in Nat /\ tokens[m].length \in Nat
  <2>1. current \in 1 .. Len(text) + 1
    BY <1>0 DEF IInv, TypeOK
  <2>2. \A m \in 1 .. n : tokens[m] \in Tokens
    BY <1>0
  <2>3. \A t \in Tokens : t.start \in Nat /\ t.length \in Nat
    BY <1>0 DEF Tokens
  <2> QED
    BY <1>0, <2>1, <2>2, <2>3
<1>2. /\ Start \in current .. Len(text) + 1
      /\ \A k \in current .. Start - 1 : At(k) \in Whitespace
  BY StartIs DEF IInv
<1>3. /\ text' = text /\ start' = Start /\ current' = to /\ tokens' = Append(tokens, token)
      /\ end' = IF token.type = "EOF" THEN "eof" ELSE "scanning"
  BY DEF Answer
<1>4. /\ to \in Start + 1 .. Len(text) + 2
      /\ to = Len(text) + 2 => token.type = "EOF"
      /\ token.start + token.length <= to
      /\ token.start \in Nat /\ token.length \in Nat
  <2>1. token.start \in Nat /\ token.length \in Nat
    BY <1>0 DEF Tokens
  <2>2. CASE Placed(token, to)
    BY <1>1, <1>2, <2>1, <2>2 DEF Placed
  <2>3. CASE Lost(token, to)
    BY <1>1, <1>2, <2>1, <2>3 DEF Lost, InvalidToken
  <2> QED
    BY <2>2, <2>3
<1>5. /\ DOMAIN tokens = 1 .. n /\ DOMAIN tokens' = 1 .. n + 1
      /\ \A m \in 1 .. n : tokens'[m] = tokens[m]
      /\ tokens'[n + 1] = token
  BY <1>0, <1>3
<1>a. \A m \in 1 .. n : tokens[m].start + tokens[m].length <= current
  BY <1>5 DEF IInv, Behind
<1>6. TypeOK'
  <2>1. Tokens' = Tokens
    BY <1>3 DEF Tokens
  <2>2. tokens' \in Seq(Tokens)
    BY <1>0, <1>3, <2>1
  <2> QED
    BY <1>1, <1>2, <1>3, <1>4, <2>1, <2>2 DEF TypeOK
<1>7. Behind'
  <2>1. \A m \in 1 .. n : tokens'[m].start + tokens'[m].length <= to
    <3>1. current \in Nat /\ to \in Nat /\ current <= to
      BY <1>1, <1>2, <1>4
    <3>2. ASSUME NEW m \in 1 .. n PROVE tokens[m].start + tokens[m].length <= to
      <4>1. tokens[m].start \in Nat /\ tokens[m].length \in Nat
        BY <1>1
      <4>2. tokens[m].start + tokens[m].length <= current
        BY <1>a
      <4> QED
        BY <3>1, <4>1, <4>2
    <3> QED
      BY <1>5, <3>2
  <2> QED
    BY <1>1, <1>3, <1>4, <1>5, <2>1 DEF Behind
<1>8. NothingIsSkipped'
  <2>1. ASSUME NEW m \in 1 .. n + 1, NEW k \in 1 .. n + 1, NEW i \in 1 .. Len(text),
               Holds(tokens'[m], i), Holds(tokens'[k], i)
        PROVE  m = k
    <3>1. ASSUME NEW h \in 1 .. n, Holds(tokens'[h], i) PROVE i < current
      <4>1. i \in tokens[h].start .. tokens[h].start + tokens[h].length - 1
        BY <1>5, <3>1 DEF Holds
      <4>2. tokens[h].start \in Nat /\ tokens[h].length \in Nat /\ current \in Nat
        BY <1>1
      <4>3. tokens[h].start + tokens[h].length <= current
        BY <1>a
      <4> QED
        BY <4>1, <4>2, <4>3
    <3>2. ASSUME Holds(token, i) PROVE i >= Start
      BY <1>1, <1>2, <3>2 DEF Holds, Placed, Lost, InvalidToken
    <3>3. CASE m \in 1 .. n /\ k \in 1 .. n
      BY <1>5, <2>1, <3>3 DEF IInv, NothingIsSkipped
    <3>4. CASE ~(m \in 1 .. n /\ k \in 1 .. n)
      BY <1>1, <1>2, <1>5, <2>1, <3>1, <3>2, <3>4
    <3> QED
      BY <3>3, <3>4
  <2>2. ASSUME NEW i \in 1 .. Len(text), i < to
        PROVE  \/ \E m \in 1 .. n + 1 : Holds(tokens'[m], i)
               \/ text[i] \in Whitespace
               \/ text[i] \in {"&", "."} /\ \E m \in 1 .. n + 1 : tokens'[m] = InvalidToken
    <3>1. CASE i < current
      BY <1>1, <1>5, <3>1 DEF IInv, NothingIsSkipped
    <3>2. CASE i \in current .. Start - 1
      BY <1>1, <1>2, <3>2, Texts0
    <3>3. CASE i \in Start .. to - 1
      <4>1. CASE Placed(token, to)
        BY <1>1, <1>2, <1>4, <1>5, <3>3, <4>1 DEF Holds, Placed
      <4>2. CASE Lost(token, to)
        BY <1>1, <1>2, <1>5, <3>3, <4>2, Texts0 DEF Lost
      <4> QED
        BY <4>1, <4>2
    <3> QED
      BY <1>1, <1>2, <1>4, <2>2, <3>1, <3>2, <3>3
  <2> QED
    BY <1>3, <1>5, <2>1, <2>2 DEF NothingIsSkipped
<1>9. ReadsOn
  BY <1>1, <1>2, <1>3, <1>4 DEF ReadsOn
<1> QED
  BY <1>6, <1>7, <1>8, <1>9 DEF IInv

LEMMA Begins ==
  ASSUME Init
  PROVE  IInv
<1>1. text \in Texts /\ Len(text) \in Nat
  BY TextsAssumption DEF Init
<1>2. TypeOK
  BY <1>1 DEF Init, TypeOK
<1>3. DOMAIN tokens = {}
  BY DEF Init
<1>4. Behind
  BY <1>3 DEF Behind
<1>5. NothingIsSkipped
  BY <1>1, <1>3 DEF NothingIsSkipped, Init
<1> QED
  BY <1>2, <1>4, <1>5 DEF IInv

(* A token made between Start and a position up to the NUL.                *)
LEMMA MadeStep ==
  ASSUME IInv, end = "scanning", NEW type \in Types \union {"INVALID"},
         NEW to \in Start + 1 .. Len(text) + 1, MakeToken(type, to)
  PROVE  IInv' /\ ReadsOn
<1> DEFINE token == Token(type, Start, to)
<1>1. Start \in 1 .. Len(text) + 1 /\ Len(text) \in Nat
  BY StartIs, Texts0 DEF IInv, TypeOK
<1>2. /\ token.type = type /\ token.start = Start /\ token.length = to - Start
      /\ token = [type |-> type, start |-> Start, length |-> to - Start]
  BY DEF Token
<1>3. token \in Tokens
  BY <1>1, <1>2 DEF Tokens
<1>4. Placed(token, to)
  BY <1>1, <1>2 DEF Placed
<1>5. Answer(token, to)
  BY DEF MakeToken
<1> HIDE DEF token
<1> QED
  BY <1>3, <1>4, <1>5, AnswerStep

LEMMA SymbolEndIs ==
  ASSUME TypeOK, end = "scanning", First \in Singles \union {"&"}
  PROVE  SymbolEnd \in Start + 1 .. Len(text) + 1
<1>0. text \in Texts /\ Len(text) \in Nat
  BY Texts0 DEF TypeOK
<1>s. Start \in 1 .. Len(text) /\ Start \in Int /\ At(Start) # NUL
  <2>1. First # NUL
    BY DEF Singles, NUL
  <2> QED
    BY <1>0, <2>1, StartIs DEF First
<1>1. \A i \in Int : At(i) # NUL => i \in 1 .. Len(text)
  BY <1>0, Texts0
<1>2. \A d \in Doubles : d[2] # NUL
  BY DEF Doubles, NUL
<1>3. CASE At(Start) = "." /\ At(Start + 1) = "."
  <2>1. "." # NUL
    BY DEF NUL
  <2>2. Start + 1 \in 1 .. Len(text)
    BY <1>s, <1>1, <1>3, <2>1
  <2>3. At(Start + 2) = "." => Start + 2 \in 1 .. Len(text)
    BY <1>s, <1>1, <2>1
  <2>4. SymbolEnd = IF At(Start + 2) = "." THEN Start + 3 ELSE Start + 2
    BY <1>3, <2>1 DEF SymbolEnd, Doubles
  <2> QED
    BY <1>0, <1>s, <2>2, <2>3, <2>4
<1>4. CASE ~(At(Start) = "." /\ At(Start + 1) = ".") /\ <<At(Start), At(Start + 1)>> \in Doubles
  <2>1. Start + 1 \in 1 .. Len(text)
    BY <1>s, <1>1, <1>2, <1>4
  <2>2. SymbolEnd = Start + 2
    BY <1>4 DEF SymbolEnd
  <2> QED
    BY <1>0, <1>s, <2>1, <2>2
<1>5. CASE ~(At(Start) = "." /\ At(Start + 1) = ".") /\ <<At(Start), At(Start + 1)>> \notin Doubles
  <2>1. SymbolEnd = Start + 1
    BY <1>5 DEF SymbolEnd
  <2> QED
    BY <1>0, <1>s, <2>1
<1> QED
  BY <1>3, <1>4, <1>5

LEMMA StepInv ==
  ASSUME IInv, [Next]_vars
  PROVE  IInv' /\ ReadsOn
<1>0. text \in Texts /\ Len(text) \in Nat
  BY Texts0 DEF IInv, TypeOK
<1>s. ASSUME end = "scanning", First # NUL
      PROVE  /\ Start \in 1 .. Len(text) /\ First = text[Start] /\ Start \in Int
             /\ Start + 1 \in 1 .. Len(text) + 1
             /\ First = At(Start)
  BY <1>0, <1>s, StartIs DEF IInv, First
<1>1. CASE Symbol
  <2> DEFINE to == SymbolEnd
  <2>0. end = "scanning" /\ First \in Singles \union {"&"} /\ First # NUL
    BY <1>1 DEF Symbol, Singles, NUL
  <2>1. to \in Start + 1 .. Len(text) + 1
    BY <2>0, SymbolEndIs DEF IInv
  <2>2. CASE Lexeme(to) \in {<<".", ".">>, <<"&">>}
    <3>1. Answer(InvalidToken, to)
      BY <1>1, <2>2 DEF Symbol
    <3>2. InvalidToken \in Tokens
      BY <1>0 DEF InvalidToken, Tokens
    <3>3. \A i \in Start .. to - 1 : At(i) \in {"&", "."}
      <4>1. Start \in 1 .. Len(text) /\ to - 1 \in 1 .. Len(text) /\ Start \in Int /\ to \in Int
        BY <1>0, <1>s, <2>0, <2>1
      <4>2. /\ Len(Lexeme(to)) = to - Start
            /\ \A i \in 1 .. to - Start : Lexeme(to)[i] = text[Start + i - 1]
        <5> HIDE DEF to
        <5> QED BY <1>0, <2>1, <4>1, Texts0 DEF Lexeme
      <4>3. \A i \in 1 .. to - Start : Lexeme(to)[i] \in {"&", "."}
        <5> HIDE DEF to
        <5> QED BY <2>2, <4>2
      <4> HIDE DEF to
      <4>4. ASSUME NEW i \in Start .. to - 1 PROVE At(i) \in {"&", "."}
        <5>1. i - Start + 1 \in 1 .. to - Start /\ i \in 1 .. Len(text)
          BY <1>0, <4>1
        <5>2. Lexeme(to)[i - Start + 1] = text[i]
          BY <4>1, <4>2, <5>1
        <5> QED
          BY <1>0, <4>3, <5>1, <5>2, Texts0
      <4> QED
        BY <4>4
    <3>4. Lost(InvalidToken, to)
      BY <2>1, <3>3 DEF Lost
    <3> HIDE DEF to
    <3> QED
      BY <2>0, <3>1, <3>2, <3>4, AnswerStep
  <2>3. CASE Lexeme(to) \notin {<<".", ".">>, <<"&">>}
    <3>1. MakeToken("SYMBOL", to)
      BY <1>1, <2>3 DEF Symbol
    <3> HIDE DEF to
    <3> QED
      BY <2>0, <2>1, <3>1, MadeStep DEF Types
  <2> QED
    BY <2>2, <2>3
<1>2. CASE Word
  <2>0. end = "scanning" /\ First \in Letters /\ First # NUL
    BY <1>2 DEF Word, Letters, NUL
  <2>1. NUL \notin Letters \union Digits
    BY DEF Letters, Digits, NUL
  <2> DEFINE to == Past(Letters \union Digits, Start + 1)
  <2>2. to \in Start + 1 .. Len(text) + 1
    BY <1>0, <1>s, <2>0, <2>1, PastIs
  <2>3. PICK type \in {"KEYWORD", "IDENTIFIER"} : MakeToken(type, to)
    BY <1>2 DEF Word
  <2> HIDE DEF to
  <2> QED
    BY <2>0, <2>2, <2>3, MadeStep DEF Types
<1>3. CASE Number
  <2>0. end = "scanning" /\ First \in Digits /\ First # NUL
    BY <1>3 DEF Number, Digits, NUL
  <2>1. NUL \notin Digits
    BY DEF Digits, NUL
  <2> DEFINE dot == Past(Digits, Start + 1)
             to == Past(Digits, dot + 1)
  <2>2. dot \in Start + 1 .. Len(text) + 1
    BY <1>0, <1>s, <2>0, <2>1, PastIs
  <2>3. CASE At(dot) = "." /\ At(dot + 1) \in Digits
    <3>1. MakeToken("FLOAT_LITERAL", to)
      BY <1>3, <2>3 DEF Number
    <3>2. dot \in 1 .. Len(text)
      <4>1. dot \in Int /\ At(dot) # NUL
        BY <1>0, <1>s, <2>0, <2>2, <2>3 DEF NUL
      <4> HIDE DEF dot
      <4> QED
        BY <4>1, <1>0, Texts0
    <3>3. to \in dot + 1 .. Len(text) + 1
      <4> HIDE DEF dot
      <4>1. dot + 1 \in 1 .. Len(text) + 1
        BY <1>0, <3>2
      <4> QED
        BY <1>0, <2>1, <4>1, PastIs
    <3> HIDE DEF to, dot
    <3>4. to \in Start + 1 .. Len(text) + 1
      BY <1>0, <1>s, <2>0, <2>2, <3>2, <3>3
    <3> QED
      BY <2>0, <3>1, <3>4, MadeStep DEF Types
  <2>4. CASE ~(At(dot) = "." /\ At(dot + 1) \in Digits)
    <3>1. MakeToken("INT_LITERAL", dot)
      BY <1>3, <2>4 DEF Number
    <3> HIDE DEF dot
    <3> QED
      BY <2>0, <2>2, <3>1, MadeStep DEF Types
  <2> QED
    BY <2>3, <2>4
<1>4. ASSUME OverRead, end = "scanning" PROVE IInv' /\ ReadsOn
  <2>1. /\ text' = text /\ start' = start /\ current' = current
        /\ tokens' = tokens /\ end' = "wild"
    BY <1>4 DEF OverRead
  <2> QED
    BY <1>4, <2>1 DEF ReadsOn, IInv, TypeOK, Tokens, Behind, NothingIsSkipped
<1>5. CASE String
  <2>0. end = "scanning" /\ First = "'" /\ First # NUL
    BY <1>5 DEF String, NUL
  <2> DEFINE to == Find("'", Start + 1)
  <2>1. CASE Has("'", Start + 1)
    <3>1. MakeToken("STRING_LITERAL", to + 1)
      BY <1>5, <2>1 DEF String
    <3>2. to \in Start + 1 .. Len(text)
      BY <1>0, <1>s, <2>0, <2>1, FindIs
    <3> HIDE DEF to
    <3>3. to + 1 \in Start + 1 .. Len(text) + 1
      BY <1>0, <1>s, <2>0, <3>2
    <3> QED
      BY <2>0, <3>1, <3>3, MadeStep DEF Types
  <2>2. CASE ~Has("'", Start + 1)
    BY <1>4, <1>5, <2>0, <2>2 DEF String
  <2> QED
    BY <2>1, <2>2
<1>6. CASE Comment
  <2>0. end = "scanning" /\ First = "#" /\ First # NUL
    BY <1>6 DEF Comment, NUL
  <2> DEFINE to == Find("\n", Start + 1)
  <2>1. CASE Has("\n", Start + 1)
    <3>1. MakeToken("COMMENT", to)
      BY <1>6, <2>1 DEF Comment
    <3>2. to \in Start + 1 .. Len(text)
      BY <1>0, <1>s, <2>0, <2>1, FindIs
    <3> HIDE DEF to
    <3>3. to \in Start + 1 .. Len(text) + 1
      BY <1>0, <1>s, <2>0, <3>2
    <3> QED
      BY <2>0, <3>1, <3>3, MadeStep DEF Types
  <2>2. CASE ~Has("\n", Start + 1)
    BY <1>4, <1>6, <2>0, <2>2 DEF Comment
  <2> QED
    BY <2>1, <2>2
<1>7. CASE EndOfText
  <2>0. end = "scanning" /\ At(Start) = NUL /\ MakeToken("EOF", Start + 1)
    BY <1>7 DEF EndOfText, First
  <2>1. Start = Len(text) + 1
    <3>1. Start \in 1 .. Len(text) + 1
      BY <2>0, StartIs DEF IInv
    <3>2. \A i \in 1 .. Len(text) : At(i) # NUL
      BY <1>0, Texts0
    <3> QED
      BY <1>0, <2>0, <3>1, <3>2
  <2> DEFINE token == Token("EOF", Start, Start + 1)
  <2>2. token.type = "EOF" /\ token.start = Start /\ token.length = Start + 1 - Start
    BY <2>1 DEF Token
  <2>3. token \in Tokens
    BY <1>0, <2>1 DEF Token, Tokens
  <2>4. Placed(token, Start + 1)
    BY <2>1, <2>2 DEF Placed
  <2>5. Answer(token, Start + 1)
    BY <2>0 DEF MakeToken
  <2> HIDE DEF token
  <2> QED
    BY <2>0, <2>3, <2>4, <2>5, AnswerStep
<1>8. CASE Unknown
  <2>0. end = "scanning" /\ First # NUL /\ MakeToken("INVALID", Start + 1)
    BY <1>8 DEF Unknown, Known
  <2>1. Start + 1 \in Start + 1 .. Len(text) + 1
    BY <1>0, <1>s, <2>0
  <2> QED
    BY <2>0, <2>1, MadeStep
<1>9. CASE UNCHANGED vars
  BY <1>9 DEF vars, ReadsOn, IInv, TypeOK, Tokens, Behind, NothingIsSkipped
<1> QED
  BY <1>1, <1>2, <1>3, <1>5, <1>6, <1>7, <1>8, <1>9 DEF Next, Over

LEMMA Invariant == Spec => []IInv
BY Begins, StepInv, PTL DEF Spec

\* Whatever the text, no position leaves it and its NUL, and only EOF reads the NUL.
THEOREM TypeCorrect == Spec => []TypeOK
<1>1. IInv => TypeOK
  BY DEF IInv
<1> QED
  BY <1>1, Invariant, PTL

\* Whatever the text, its tokens cover what has been read, without a gap or an overlap.
THEOREM TokensCoverTheText == Spec => []NothingIsSkipped
<1>1. IInv => NothingIsSkipped
  BY DEF IInv
<1> QED
  BY <1>1, Invariant, PTL

\* Whatever the text, a call reads on unless it is the last: the loops of the parser end.
THEOREM CallsReadOn == Spec => EveryCallReadsOn
<1>1. IInv /\ [Next]_vars => [current' > current \/ end' # "scanning"]_vars
  BY StepInv DEF ReadsOn
<1> QED
  BY <1>1, Invariant, PTL DEF Spec, EveryCallReadsOn

-----------------------------------------------------------------------------
(* That every token is a longest match, for every text.                    *)
(*                                                                         *)
(* The first character decides between symbols, words, numbers, strings    *)
(* and comments.  That nothing longer is a token follows from the          *)
(* character at which the loop stopped: it would lie inside of it.         *)

(* What a token that begins with a character can be.                       *)
Class(first) == CASE first \in Singles \union {"&"} -> {"SYMBOL"}
                  [] first \in Letters -> {"KEYWORD", "IDENTIFIER"}
                  [] first \in Digits -> {"INT_LITERAL", "FLOAT_LITERAL"}
                  [] first = "'" -> {"STRING_LITERAL"}
                  [] first = "#" -> {"COMMENT"}
                  [] OTHER -> {}

LEMMA Characters ==
  /\ (Singles \union {"&"}) \intersect (Letters \union Digits \union {"'", "#", NUL}) = {}
  /\ Letters \intersect (Digits \union {"'", "#", ".", NUL}) = {}
  /\ Digits \intersect {"'", "#", ".", NUL} = {}
BY DEF Singles, Letters, Digits, NUL

LEMMA KeywordsAreWords ==
  \A s \in Keywords : s # <<>> /\ s[1] \in Letters /\ \A i \in 1 .. Len(s) : s[i] \in Letters \union Digits
<1> SUFFICES ASSUME NEW s \in Keywords
             PROVE  s # <<>> /\ s[1] \in Letters /\ \A i \in 1 .. Len(s) : s[i] \in Letters
  OBVIOUS
<1>0. {"A", "B", "F", "I", "S", "a", "e", "f", "g", "h", "i", "l", "n", "o", "p", "r", "s", "t", "u", "w", "y"}
        \subseteq Letters
  BY DEF Letters
<1>1. CASE s = <<"A", "n", "y">>
  BY <1>0, <1>1
<1>2. CASE s = <<"t", "y", "p", "e">>
  BY <1>0, <1>2
<1>3. CASE s = <<"i", "f">>
  BY <1>0, <1>3
<1>4. CASE s = <<"e", "l", "s", "e">>
  BY <1>0, <1>4
<1>5. CASE s = <<"t", "r", "u", "e">>
  BY <1>0, <1>5
<1>6. CASE s = <<"f", "a", "l", "s", "e">>
  BY <1>0, <1>6
<1>7. CASE s = <<"f", "n">>
  BY <1>0, <1>7
<1>8. CASE s = <<"r", "e", "t", "u", "r", "n">>
  BY <1>0, <1>8
<1>9. CASE s = <<"w", "h", "i", "l", "e">>
  BY <1>0, <1>9
<1>10. CASE s = <<"f", "o", "r">>
  BY <1>0, <1>10
<1>11. CASE s = <<"I", "n", "t">>
  BY <1>0, <1>11
<1>12. CASE s = <<"F", "l", "o", "a", "t">>
  BY <1>0, <1>12
<1>13. CASE s = <<"B", "o", "o", "l">>
  BY <1>0, <1>13
<1>14. CASE s = <<"S", "t", "r", "i", "n", "g">>
  BY <1>0, <1>14
<1> QED
  BY <1>1, <1>2, <1>3, <1>4, <1>5, <1>6, <1>7, <1>8, <1>9, <1>10, <1>11, <1>12, <1>13, <1>14 DEF Keywords

Symbols == Doubles \union {Ellipsis} \union {<<c>> : c \in Singles}

LEMMA SymbolsAre ==
  ASSUME NEW m \in Symbols
  PROVE  /\ m[1] \in Singles \union {"&"}
         /\ Len(m) \in 1 .. 3
         /\ Len(m) = 2 => m = <<m[1], m[2]>> /\ m \in Doubles
         /\ Len(m) = 3 => m[1] = "." /\ m[2] = "."
<1>1. CASE m \in Doubles
  <2>1. m[1] \in {"-", "/", ":", "!", ">", "<", "&", "|"}
    BY <1>1 DEF Doubles
  <2>2. {"-", "/", ":", "!", ">", "<", "|"} \subseteq Singles
    BY DEF Singles
  <2>3. Len(m) = 2 /\ m = <<m[1], m[2]>>
    BY <1>1 DEF Doubles
  <2> QED
    BY <1>1, <2>1, <2>2, <2>3
<1>2. CASE m = Ellipsis
  BY <1>2 DEF Ellipsis, Singles
<1>3. CASE m \in {<<c>> : c \in Singles}
  <2>1. PICK c \in Singles : m = <<c>>
    BY <1>3
  <2> QED
    BY <2>1
<1> QED
  BY <1>1, <1>2, <1>3 DEF Symbols

LEMMA FirstDecides ==
  ASSUME NEW s \in Seq(STRING), NEW type \in Types, HasType(s, type)
  PROVE  type \in Class(s[1])
<1>1. s # <<>> /\ Len(s) \in Nat \ {0} /\ DOMAIN s = 1 .. Len(s) /\ 1 \in DOMAIN s
  BY DEF HasType
<1>2. CASE type = "SYMBOL"
  <2>1. s[1] \in Singles \union {"&"}
    BY <1>2, SymbolsAre DEF HasType, Symbols
  <2> QED
    BY <1>2, <2>1, Characters DEF Class
<1>3. CASE type \in {"KEYWORD", "IDENTIFIER"}
  <2>1. s[1] \in Letters
    <3>1. CASE type = "KEYWORD"
      BY <3>1, KeywordsAreWords DEF HasType
    <3>2. CASE type = "IDENTIFIER"
      BY <1>1, <3>2 DEF HasType
    <3> QED
      BY <1>3, <3>1, <3>2
  <2> QED
    BY <1>3, <2>1, Characters DEF Class
<1>4. CASE type \in {"INT_LITERAL", "FLOAT_LITERAL"}
  <2>1. s[1] \in Digits
    <3>1. CASE type = "INT_LITERAL"
      BY <1>1, <3>1 DEF HasType
    <3>2. CASE type = "FLOAT_LITERAL"
      BY <1>1, <3>2 DEF HasType
    <3> QED
      BY <1>4, <3>1, <3>2
  <2> QED
    BY <1>4, <2>1, Characters DEF Class
<1>5. CASE type = "STRING_LITERAL"
  <2>1. s[1] = "'"
    BY <1>1, <1>5 DEF HasType
  <2> QED
    BY <1>5, <2>1, Characters DEF Class
<1>6. CASE type = "COMMENT"
  <2>1. s[1] = "#"
    BY <1>6 DEF HasType
  <2> QED
    BY <1>6, <2>1, Characters DEF Class
<1> QED
  BY <1>2, <1>3, <1>4, <1>5, <1>6 DEF Types

LEMMA PartOfText ==
  ASSUME text \in Texts, NEW from \in 1 .. Len(text), NEW to \in from .. Len(text)
  PROVE  /\ SubSeq(text, from, to) \in Seq(STRING)
         /\ Len(SubSeq(text, from, to)) = to - from + 1
         /\ DOMAIN SubSeq(text, from, to) = 1 .. to - from + 1
         /\ \A i \in 1 .. to - from + 1 : SubSeq(text, from, to)[i] = text[from + i - 1]
         /\ SubSeq(text, from, to)[1] = text[from]
         /\ \A i \in from .. to : SubSeq(text, from, to)[i - from + 1] = text[i]
         /\ SubSeq(text, from, to) # <<>>
<1>1. text \in Seq(STRING) /\ Len(text) \in Nat
  BY Texts0
<1>2. /\ SubSeq(text, from, to) \in Seq(STRING)
      /\ Len(SubSeq(text, from, to)) = to - from + 1
      /\ \A i \in 1 .. to - from + 1 : SubSeq(text, from, to)[i] = text[from + i - 1]
  BY <1>1
<1> DEFINE s == SubSeq(text, from, to)
<1> HIDE DEF s
<1>3. s \in Seq(STRING) /\ Len(s) = to - from + 1 /\ \A i \in 1 .. to - from + 1 : s[i] = text[from + i - 1]
  BY <1>2 DEF s
<1>4. DOMAIN s = 1 .. to - from + 1 /\ s # <<>> /\ s[1] = text[from]
  BY <1>1, <1>3
<1>5. ASSUME NEW i \in from .. to PROVE s[i - from + 1] = text[i]
  <2>1. i - from + 1 \in 1 .. to - from + 1 /\ from + (i - from + 1) - 1 = i
    BY <1>1
  <2> QED
    BY <1>3, <2>1
<1> QED
  BY <1>3, <1>4, <1>5 DEF s

LEMMA LexemeIs ==
  ASSUME text \in Texts, Start \in 1 .. Len(text), NEW to \in Start + 1 .. Len(text) + 1
  PROVE  /\ Lexeme(to) # <<>> /\ Lexeme(to)[1] = text[Start]
         /\ DOMAIN Lexeme(to) = 1 .. to - Start /\ Len(Lexeme(to)) = to - Start
         /\ \A i \in 1 .. to - Start : Lexeme(to)[i] = text[Start + i - 1]
<1>1. Len(text) \in Nat
  BY Texts0
<1>2. to - 1 \in Start .. Len(text) /\ to - 1 - Start + 1 = to - Start
  BY <1>1
<1> QED
  BY <1>2, PartOfText DEF Lexeme

-----------------------------------------------------------------------------
(* A match is longest when its own part of the text has its type and no    *)
(* other of the class of its first character, and no longer part has one.  *)
LEMMA ByClass ==
  ASSUME text \in Texts, NEW from \in 1 .. Len(text), NEW last \in from .. Len(text), NEW type \in Types,
         type \in Class(text[from]), HasType(SubSeq(text, from, last), type),
         \A t \in Class(text[from]) : HasType(SubSeq(text, from, last), t) => t = type,
         \A to \in last + 1 .. Len(text) : \A t \in Class(text[from]) : ~HasType(SubSeq(text, from, to), t)
  PROVE  Longest(from, last, type)
<1>1. \A to \in from .. Len(text) : \A t \in Types :
        HasType(SubSeq(text, from, to), t) => t \in Class(text[from])
  <2> SUFFICES ASSUME NEW to \in from .. Len(text), NEW t \in Types, HasType(SubSeq(text, from, to), t)
               PROVE  t \in Class(text[from])
    OBVIOUS
  <2>1. SubSeq(text, from, to) \in Seq(STRING) /\ SubSeq(text, from, to)[1] = text[from]
    BY PartOfText
  <2> QED
    BY <2>1, FirstDecides
<1>2. TypesOf(from, last) = {type}
  BY <1>1 DEF TypesOf
<1>3. type # "INVALID"
  BY DEF Types
<1>4. \A to \in last + 1 .. Len(text) : to \in from .. Len(text)
  BY Texts0
<1>5. \A to \in last + 1 .. Len(text) : TypesOf(from, to) = {}
  BY <1>1, <1>4 DEF TypesOf
<1> QED
  BY <1>2, <1>3, <1>5 DEF Longest

LEMMA SymbolOfLength ==
  ASSUME NEW m \in Symbols, NEW k, k = Len(m)
  PROVE  /\ k \in 1 .. 3
         /\ k = 2 => m = <<m[1], m[2]>> /\ m \in Doubles
         /\ k = 3 => m[1] = "." /\ m[2] = "."
BY SymbolsAre

(* Sequences of few members. *)
LEMMA One == \A s \in Seq(STRING) : \A a : Len(s) = 1 /\ s[1] = a => s = <<a>>
OBVIOUS

LEMMA Two == \A s \in Seq(STRING) : \A a, b : Len(s) = 2 /\ s[1] = a /\ s[2] = b => s = <<a, b>>
OBVIOUS

LEMMA Three == \A s \in Seq(STRING) : \A a, b, c : Len(s) = 3 /\ s[1] = a /\ s[2] = b /\ s[3] = c => s = <<a, b, c>>
OBVIOUS

LEMMA SymbolIsLongest ==
  ASSUME TypeOK, end = "scanning", First \in Singles \union {"&"},
         SymbolEnd \in Start + 1 .. Len(text) + 1,
         Lexeme(SymbolEnd) \notin {<<".", ".">>, <<"&">>}
  PROVE  Longest(Start, SymbolEnd - 1, "SYMBOL")
<1> DEFINE to == SymbolEnd
           s  == Lexeme(to)
           first  == At(Start)
           second == At(Start + 1)
           Dots == first = "." /\ second = "."
<1>0. /\ text \in Texts /\ Len(text) \in Nat
      /\ Start \in 1 .. Len(text) /\ text[Start] = first /\ first \in Singles \union {"&"}
  BY StartIs, Texts0, Characters DEF TypeOK, First
<1>1. /\ s = SubSeq(text, Start, to - 1) /\ s \in Seq(STRING) /\ Len(s) = to - Start /\ s # <<>>
      /\ to - 1 \in Start .. Len(text) /\ to - 1 + 1 = to
      /\ s[1] = first
      /\ to > Start + 1 => s[2] = second
      /\ to > Start + 2 => s[3] = At(Start + 2)
  <2> HIDE DEF to
  <2>1. to - 1 \in Start .. Len(text) /\ to - 1 + 1 = to /\ to - 1 - Start + 1 = to - Start
    BY <1>0 DEF to
  <2>2. s = SubSeq(text, Start, to - 1)
    BY DEF Lexeme
  <2> HIDE DEF s, first, second
  <2>3. s \in Seq(STRING) /\ Len(s) = to - Start /\ s # <<>> /\ s[1] = first
    BY <1>0, <2>1, <2>2, PartOfText
  <2>4. \A i \in Start .. to - 1 : s[i - Start + 1] = At(i)
    <3>1. \A i \in Start .. to - 1 : i \in 1 .. Len(text)
      BY <1>0, <2>1
    <3> QED
      BY <1>0, <2>1, <2>2, <3>1, PartOfText, Texts0
  <2>5. Start + 1 - Start + 1 = 2 /\ Start + 2 - Start + 1 = 3
    BY <1>0
  <2>7. ASSUME to > Start + 1 PROVE s[2] = second
    <3>1. Start + 1 \in Start .. to - 1
      BY <1>0, <2>1, <2>7
    <3>2. s[Start + 1 - Start + 1] = At(Start + 1)
      BY <1>0, <2>1, <2>4, <3>1
    <3> QED
      BY <2>5, <3>2 DEF second
  <2>8. ASSUME to > Start + 2 PROVE s[3] = At(Start + 2)
    <3>1. Start + 2 \in Start .. to - 1
      BY <1>0, <2>1, <2>8
    <3>2. s[Start + 2 - Start + 1] = At(Start + 2)
      BY <1>0, <2>1, <2>4, <3>1
    <3> QED
      BY <2>5, <3>2
  <2> QED
    BY <2>1, <2>2, <2>3, <2>7, <2>8
<1>2. Class(text[Start]) = {"SYMBOL"}
  BY <1>0, Characters DEF Class
<1>3. /\ Dots => to = IF At(Start + 2) = "." THEN Start + 3 ELSE Start + 2
      /\ ~Dots /\ <<first, second>> \in Doubles => to = Start + 2
      /\ ~Dots /\ <<first, second>> \notin Doubles => to = Start + 1
  <2>1. CASE Dots
    BY <2>1 DEF SymbolEnd, Doubles
  <2>2. CASE ~Dots
    BY <2>2 DEF SymbolEnd
  <2> QED
    BY <2>1, <2>2
<1>4. ASSUME NEW more \in to .. Len(text)
      PROVE  /\ Len(SubSeq(text, Start, more)) = more - Start + 1
             /\ SubSeq(text, Start, more)[1] = first
             /\ SubSeq(text, Start, more)[2] = second
  <2> HIDE DEF to
  <2>1. more \in Start .. Len(text) /\ Start + 1 \in Start .. more /\ Start + 1 - Start + 1 = 2
    BY <1>0, <1>1
  <2>2. Start + 1 \in 1 .. Len(text)
    BY <1>0, <2>1
  <2>3. SubSeq(text, Start, more)[Start + 1 - Start + 1] = text[Start + 1]
    BY <1>0, <2>1, PartOfText
  <2> QED
    BY <1>0, <2>1, <2>2, <2>3, PartOfText, Texts0
<1> SUFFICES /\ s \in Symbols
             /\ \A more \in to .. Len(text) : SubSeq(text, Start, more) \notin Symbols
  <2>1. HasType(s, "SYMBOL") <=> s \in Symbols
    BY <1>1 DEF HasType, Symbols
  <2>2. \A more \in to .. Len(text) : HasType(SubSeq(text, Start, more), "SYMBOL") => SubSeq(text, Start, more) \in Symbols
    BY DEF HasType, Symbols
  <2>3. "SYMBOL" \in Types
    BY DEF Types
  <2> HIDE DEF s, to
  <2> SUFFICES ASSUME s \in Symbols, \A more \in to .. Len(text) : SubSeq(text, Start, more) \notin Symbols
               PROVE  Longest(Start, to - 1, "SYMBOL")
    BY DEF s, to
  <2>4. \A more \in to - 1 + 1 .. Len(text) : \A t \in Class(text[Start]) : ~HasType(SubSeq(text, Start, more), t)
    BY <1>1, <1>2, <2>2
  <2> QED
    BY <1>0, <1>1, <1>2, <2>1, <2>3, <2>4, ByClass
<1>5. CASE Dots
  <2>1. s # <<".", ".">>
    OBVIOUS
  <2>2. to = Start + 3 /\ At(Start + 2) = "."
    <3>1. to # Start + 2
      <4> SUFFICES ASSUME to = Start + 2 PROVE FALSE
        OBVIOUS
      <4>1. Len(s) = 2 /\ s[1] = "." /\ s[2] = "."
        <5> HIDE DEF s, to
        <5> QED BY <1>0, <1>1, <1>5
      <4>2. s = <<".", ".">>
        <5> HIDE DEF s, to
        <5>1. s \in Seq(STRING)
          BY <1>1
        <5> QED
          BY <4>1, <5>1, Two
      <4> QED
        BY <2>1, <4>2
    <3> HIDE DEF to
    <3> QED
      BY <1>3, <1>5, <3>1
  <2>3. s = Ellipsis
    <3> HIDE DEF s, to
    <3>1. Len(s) = 3 /\ s[1] = "." /\ s[2] = "." /\ s[3] = "."
      BY <1>0, <1>1, <1>5, <2>2
    <3>2. s \in Seq(STRING)
      BY <1>1
    <3>3. s = <<".", ".", ".">>
      BY <3>1, <3>2, Three
    <3> QED
      BY <3>3 DEF Ellipsis
  <2>4. ASSUME NEW more \in to .. Len(text) PROVE SubSeq(text, Start, more) \notin Symbols
    <3> DEFINE m == SubSeq(text, Start, more)
    <3> HIDE DEF to
    <3> DEFINE k == more - Start + 1
    <3>1. k = Len(m)
      BY <1>4
    <3>2. k \in Int /\ k > 3
      BY <1>0, <2>2
    <3> HIDE DEF m, k
    <3>3. m \notin Symbols
      BY <3>1, <3>2, SymbolOfLength
    <3> QED
      BY <3>3 DEF m
  <2> QED
    BY <2>3, <2>4 DEF Symbols
<1>6. CASE ~Dots /\ <<first, second>> \in Doubles
  <2>1. s = <<first, second>>
    <3> HIDE DEF s, to, first, second
    <3>1. to = Start + 2
      BY <1>3, <1>6
    <3>2. Len(s) = 2 /\ s[1] = first /\ s[2] = second
      BY <1>0, <1>1, <3>1 DEF second
    <3> QED
      BY <1>1, <3>2, One, Two
  <2>2. \A more \in to .. Len(text) : SubSeq(text, Start, more) \notin Symbols
    <3> SUFFICES ASSUME NEW more \in to .. Len(text), NEW m \in Symbols, m = SubSeq(text, Start, more)
                 PROVE  FALSE
      OBVIOUS
    <3> HIDE DEF to, first, second
    <3> DEFINE k == more - Start + 1
    <3>1. k = Len(m) /\ m[1] = first /\ m[2] = second
      BY <1>4
    <3>2. k \in Int /\ k > 2
      BY <1>0, <1>3, <1>6
    <3> HIDE DEF k
    <3>3. /\ k \in 1 .. 3
          /\ k = 2 => m = <<m[1], m[2]>> /\ m \in Doubles
          /\ k = 3 => m[1] = "." /\ m[2] = "."
      BY <3>1, SymbolOfLength
    <3>4. k = 3
      BY <3>2, <3>3
    <3> QED
      BY <1>6, <3>1, <3>3, <3>4
  <2> QED
    BY <1>6, <2>1, <2>2 DEF Symbols
<1>7. CASE ~Dots /\ <<first, second>> \notin Doubles
  <2>1. s = <<first>>
    <3> HIDE DEF s, to, first
    <3>1. to = Start + 1
      BY <1>3, <1>7
    <3>2. Len(s) = 1 /\ s[1] = first
      BY <1>0, <1>1, <3>1
    <3> QED
      BY <1>1, <3>2, One, Two
  <2>2. first # "&"
    BY <2>1
  <2>3. \A more \in to .. Len(text) : SubSeq(text, Start, more) \notin Symbols
    <3> SUFFICES ASSUME NEW more \in to .. Len(text), NEW m \in Symbols, m = SubSeq(text, Start, more)
                 PROVE  FALSE
      OBVIOUS
    <3> HIDE DEF to, first, second
    <3> DEFINE k == more - Start + 1
    <3>1. k = Len(m) /\ m[1] = first /\ m[2] = second
      BY <1>4
    <3>2. k \in Int /\ k > 1
      BY <1>0, <1>3, <1>7
    <3> HIDE DEF k
    <3>3. /\ k \in 1 .. 3
          /\ k = 2 => m = <<m[1], m[2]>> /\ m \in Doubles
          /\ k = 3 => m[1] = "." /\ m[2] = "."
      BY <3>1, SymbolOfLength
    <3>4. k \in {2, 3}
      BY <3>2, <3>3
    <3> QED
      BY <1>7, <3>1, <3>2, <3>3, <3>4
  <2> QED
    BY <1>0, <2>1, <2>2, <2>3 DEF Symbols
<1> QED
  BY <1>5, <1>6, <1>7

LEMMA WordIsLongest ==
  ASSUME TypeOK, end = "scanning", First \in Letters,
         NEW to, to = Past(Letters \union Digits, Start + 1)
  PROVE  /\ Longest(Start, to - 1, IF Lexeme(to) \in Keywords THEN "KEYWORD" ELSE "IDENTIFIER")
         /\ to \in Start + 1 .. Len(text) + 1
<1> DEFINE s == Lexeme(to)
           type == IF s \in Keywords THEN "KEYWORD" ELSE "IDENTIFIER"
<1>0. /\ text \in Texts /\ Len(text) \in Nat
      /\ Start \in 1 .. Len(text) /\ text[Start] \in Letters
  BY StartIs, Texts0, Characters DEF TypeOK
<1>1. /\ to \in Start + 1 .. Len(text) + 1 /\ At(to) \notin Letters \union Digits
      /\ \A k \in Start + 1 .. to - 1 : At(k) \in Letters \union Digits
  <2>1. Start + 1 \in 1 .. Len(text) + 1 /\ NUL \notin Letters \union Digits
    BY <1>0, Characters
  <2> QED
    BY <1>0, <2>1, PastIs
<1>2. to - 1 \in Start .. Len(text) /\ to - 1 + 1 = to
  BY <1>0, <1>1
<1>3. /\ s # <<>> /\ s[1] \in Letters /\ DOMAIN s = 1 .. to - Start
      /\ \A i \in 1 .. to - Start : s[i] = text[Start + i - 1]
  BY <1>0, <1>1, <1>2, LexemeIs
<1>4. ASSUME NEW k \in Start .. to - 1 PROVE text[k] \in Letters \union Digits
  <2>1. k = Start \/ k \in Start + 1 .. to - 1
    BY <1>0
  <2>2. k \in 1 .. Len(text)
    BY <1>0, <1>1
  <2> QED
    BY <1>0, <1>1, <2>1, <2>2, Texts0
<1>5. \A i \in DOMAIN s : s[i] \in Letters \union Digits
  <2>1. \A i \in 1 .. to - Start : Start + i - 1 \in Start .. to - 1
    BY <1>0, <1>1
  <2> QED
    BY <1>3, <1>4, <2>1
<1>6. Class(text[Start]) = {"KEYWORD", "IDENTIFIER"}
  BY <1>0, Characters DEF Class
<1>7. /\ HasType(s, type)
      /\ \A t \in {"KEYWORD", "IDENTIFIER"} : HasType(s, t) => t = type
  BY <1>3, <1>5, Characters DEF HasType
<1>8. ASSUME NEW more \in to .. Len(text), NEW t \in {"KEYWORD", "IDENTIFIER"},
             HasType(SubSeq(text, Start, more), t)
      PROVE  FALSE
  <2> DEFINE m == SubSeq(text, Start, more)
  <2>1. /\ more \in Start .. Len(text) /\ to \in Start .. more /\ to \in 1 .. Len(text)
        /\ to - Start + 1 \in 1 .. more - Start + 1
    BY <1>0, <1>1
  <2>2. DOMAIN m = 1 .. more - Start + 1 /\ Len(m) = more - Start + 1 /\ m[to - Start + 1] = text[to]
    BY <1>0, <2>1, PartOfText
  <2>3. m[to - Start + 1] \notin Letters \union Digits
    BY <1>0, <1>1, <2>1, <2>2, Texts0
  <2>4. \A i \in 1 .. Len(m) : m[i] \in Letters \union Digits
    BY <1>8, <2>2, KeywordsAreWords DEF HasType
  <2> HIDE DEF m
  <2> QED
    BY <2>1, <2>2, <2>3, <2>4
<1>9. Longest(Start, to - 1, type)
  <2>1. type \in Types /\ s = SubSeq(text, Start, to - 1)
    BY DEF Types, Lexeme
  <2> HIDE DEF type, s
  <2>2. \A more \in to - 1 + 1 .. Len(text) : \A t \in Class(text[Start]) : ~HasType(SubSeq(text, Start, more), t)
    BY <1>2, <1>6, <1>8
  <2>3. type \in Class(text[Start])
    BY <1>6 DEF type
  <2> QED
    BY <1>0, <1>2, <1>6, <1>7, <2>1, <2>2, <2>3, ByClass
<1> QED
  BY <1>1, <1>9

LEMMA IntegerIsLongest ==
  ASSUME TypeOK, end = "scanning", First \in Digits,
         NEW dot, dot = Past(Digits, Start + 1), ~(At(dot) = "." /\ At(dot + 1) \in Digits)
  PROVE  /\ Longest(Start, dot - 1, "INT_LITERAL")
         /\ dot \in Start + 1 .. Len(text) + 1
<1> DEFINE s == Lexeme(dot)
<1>0. /\ text \in Texts /\ Len(text) \in Nat
      /\ Start \in 1 .. Len(text) /\ text[Start] \in Digits
  BY StartIs, Texts0, Characters DEF TypeOK
<1>1. /\ dot \in Start + 1 .. Len(text) + 1 /\ At(dot) \notin Digits
      /\ \A k \in Start + 1 .. dot - 1 : At(k) \in Digits
  <2>1. Start + 1 \in 1 .. Len(text) + 1 /\ NUL \notin Digits
    BY <1>0, Characters
  <2> QED
    BY <1>0, <2>1, PastIs
<1>2. dot - 1 \in Start .. Len(text) /\ dot - 1 + 1 = dot
  BY <1>0, <1>1
<1>3. /\ s # <<>> /\ DOMAIN s = 1 .. dot - Start /\ Len(s) = dot - Start
      /\ \A i \in 1 .. dot - Start : s[i] = text[Start + i - 1]
  BY <1>0, <1>1, <1>2, LexemeIs
<1>4. ASSUME NEW k \in Start .. dot - 1 PROVE text[k] \in Digits
  <2>1. k = Start \/ k \in Start + 1 .. dot - 1
    BY <1>0
  <2>2. k \in 1 .. Len(text)
    BY <1>0, <1>1
  <2> QED
    BY <1>0, <1>1, <2>1, <2>2, Texts0
<1>5. \A i \in DOMAIN s : s[i] \in Digits
  <2>1. \A i \in 1 .. dot - Start : Start + i - 1 \in Start .. dot - 1
    BY <1>0, <1>1
  <2> QED
    BY <1>3, <1>4, <2>1
<1>6. Class(text[Start]) = {"INT_LITERAL", "FLOAT_LITERAL"}
  BY <1>0, Characters DEF Class
<1>7. HasType(s, "INT_LITERAL") /\ ~HasType(s, "FLOAT_LITERAL")
  <2>1. HasType(s, "INT_LITERAL")
    BY <1>3, <1>5 DEF HasType
  <2>2. \A k \in 2 .. Len(s) - 1 : s[k] # "."
    <3>1. \A k \in 2 .. Len(s) - 1 : k \in DOMAIN s
      <4> HIDE DEF s
      <4> QED BY <1>0, <1>1, <1>3
    <3> QED
      BY <1>5, <3>1, Characters
  <2>3. ~HasType(s, "FLOAT_LITERAL")
    BY <2>2 DEF HasType
  <2> QED
    BY <2>1, <2>3
<1>8. ASSUME NEW more \in dot .. Len(text), NEW t \in {"INT_LITERAL", "FLOAT_LITERAL"},
             HasType(SubSeq(text, Start, more), t)
      PROVE  FALSE
  <2> DEFINE m == SubSeq(text, Start, more)
             d == dot - Start + 1
  <2>1. /\ more \in Start .. Len(text) /\ dot \in Start .. more /\ dot \in 1 .. Len(text)
        /\ d \in 1 .. more - Start + 1
    BY <1>0, <1>1
  <2>2. DOMAIN m = 1 .. more - Start + 1 /\ Len(m) = more - Start + 1 /\ m[d] = text[dot]
    <3>1. /\ DOMAIN m = 1 .. more - Start + 1 /\ Len(m) = more - Start + 1
          /\ \A i \in Start .. more : m[i - Start + 1] = text[i]
      BY <1>0, <2>1, PartOfText
    <3> HIDE DEF m
    <3>2. m[d] = text[dot]
      BY <2>1, <3>1
    <3> QED
      BY <3>1, <3>2
  <2>3. m[d] = At(dot) /\ m[d] \notin Digits
    BY <1>0, <1>1, <2>1, <2>2, Texts0
  <2>4. CASE t = "INT_LITERAL"
    <3>1. \A i \in DOMAIN m : m[i] \in Digits
      BY <1>8, <2>4 DEF HasType
    <3> QED
      BY <2>1, <2>2, <2>3, <3>1
  <2>5. CASE t = "FLOAT_LITERAL"
    <3>1. PICK k \in 2 .. Len(m) - 1 : m[k] = "." /\ \A i \in DOMAIN m \ {k} : m[i] \in Digits
      BY <1>8, <2>5 DEF HasType
    <3> HIDE DEF m
    <3>2. k = d
      BY <2>1, <2>2, <2>3, <3>1
    <3>3. dot + 1 \in Start .. more /\ dot + 1 \in 1 .. Len(text) /\ d + 1 = dot + 1 - Start + 1
      <4>1. Start \in Int /\ dot \in Int /\ more \in Int /\ Start >= 1 /\ dot >= Start /\ more <= Len(text)
        BY <1>0, <2>1
      <4>2. k \in 2 .. more - Start + 1 - 1
        BY <2>2, <4>1
      <4>3. dot - Start + 1 <= more - Start + 1 - 1
        BY <3>2, <4>1, <4>2
      <4>4. dot + 1 <= more
        BY <4>1, <4>3
      <4> QED
        BY <1>0, <4>1, <4>4
    <3>4. m[dot + 1 - Start + 1] = text[dot + 1]
      <4>1. \A i \in Start .. more : m[i - Start + 1] = text[i]
        BY <1>0, <2>1, PartOfText DEF m
      <4> DEFINE e == dot + 1
      <4>2. e \in Start .. more
        BY <3>3
      <4> HIDE DEF e
      <4>3. m[e - Start + 1] = text[e]
        BY <4>1, <4>2
      <4> QED
        <5>1. Start \in Int /\ dot \in Int
          BY <1>0, <2>1
        <5> QED
          BY <4>3, <5>1 DEF e
    <3>5. At(dot + 1) = m[d + 1]
      BY <1>0, <3>3, <3>4, Texts0
    <3>6. d + 1 \in DOMAIN m \ {k}
      <4> HIDE DEF d
      <4>1. d \in Int /\ Len(m) \in Int /\ DOMAIN m = 1 .. Len(m)
        BY <1>0, <1>1, <2>1, <2>2 DEF d
      <4> QED
        BY <3>1, <3>2, <4>1
    <3> QED
      BY <2>3, <3>1, <3>2, <3>5, <3>6
  <2> QED
    BY <2>4, <2>5
<1>9. Longest(Start, dot - 1, "INT_LITERAL")
  <2>1. "INT_LITERAL" \in Types /\ s = SubSeq(text, Start, dot - 1)
    BY DEF Types, Lexeme
  <2> HIDE DEF s
  <2>2. \A more \in dot - 1 + 1 .. Len(text) : \A t \in Class(text[Start]) : ~HasType(SubSeq(text, Start, more), t)
    BY <1>2, <1>6, <1>8
  <2> QED
    BY <1>0, <1>2, <1>6, <1>7, <2>1, <2>2, ByClass
<1> QED
  BY <1>1, <1>9

LEMMA FloatIsLongest ==
  ASSUME TypeOK, end = "scanning", First \in Digits,
         NEW dot, dot = Past(Digits, Start + 1), At(dot) = "." /\ At(dot + 1) \in Digits,
         NEW to, to = Past(Digits, dot + 1)
  PROVE  /\ Longest(Start, to - 1, "FLOAT_LITERAL")
         /\ to \in Start + 1 .. Len(text) + 1
<1> DEFINE s == Lexeme(to)
           d == dot - Start + 1
<1>0. /\ text \in Texts /\ Len(text) \in Nat
      /\ Start \in 1 .. Len(text) /\ text[Start] \in Digits
  BY StartIs, Texts0, Characters DEF TypeOK
<1>a. NUL \notin Digits /\ "." # NUL /\ "." \notin Digits
  BY Characters DEF NUL
<1>1. /\ dot \in Start + 1 .. Len(text) + 1
      /\ \A k \in Start + 1 .. dot - 1 : At(k) \in Digits
  <2>1. Start + 1 \in 1 .. Len(text) + 1
    BY <1>0
  <2> QED
    BY <1>0, <1>a, <2>1, PastIs
<1>2. dot \in 1 .. Len(text) /\ dot > Start /\ dot + 1 \in 1 .. Len(text)
  <2>1. dot \in Int /\ dot + 1 \in Int /\ At(dot) # NUL /\ At(dot + 1) # NUL
    BY <1>0, <1>1, <1>a
  <2> QED
    BY <1>0, <1>1, <2>1, Texts0
<1>3. /\ to \in dot + 1 .. Len(text) + 1 /\ At(to) \notin Digits
      /\ \A k \in dot + 1 .. to - 1 : At(k) \in Digits
  <2>1. dot + 1 \in 1 .. Len(text) + 1
    BY <1>0, <1>2
  <2> QED
    BY <1>0, <1>a, <2>1, PastIs
<1>4. to > dot + 1 /\ to \in Int
  <2>1. to # dot + 1
    BY <1>3
  <2> QED
    BY <1>0, <1>2, <1>3, <2>1
<1>5. /\ to \in Start + 1 .. Len(text) + 1
      /\ to - 1 \in Start .. Len(text) /\ to - 1 + 1 = to
      /\ Start \in Int /\ dot \in Int
  BY <1>0, <1>2, <1>3, <1>4
<1>6. ASSUME NEW k \in Start .. to - 1, k # dot PROVE text[k] \in Digits
  <2>1. k = Start \/ k \in Start + 1 .. dot - 1 \/ k \in dot + 1 .. to - 1
    <3>1. Start \in Int /\ dot \in Int /\ to \in Int /\ k \in Int
      BY <1>4, <1>5
    <3> QED
      BY <1>6, <3>1
  <2>2. k \in 1 .. Len(text)
    BY <1>0, <1>5
  <2> QED
    BY <1>0, <1>1, <1>3, <2>1, <2>2, Texts0
<1>7. /\ DOMAIN s = 1 .. to - Start /\ Len(s) = to - Start
      /\ \A i \in 1 .. to - Start : s[i] = text[Start + i - 1]
      /\ s # <<>>
  BY <1>0, <1>5, LexemeIs
<1>8. /\ d \in 2 .. Len(s) - 1 /\ s[d] = "."
      /\ \A i \in DOMAIN s \ {d} : s[i] \in Digits
  <2> HIDE DEF s
  <2>1. d \in 2 .. Len(s) - 1
    <3>1. Len(s) = to - Start
      BY <1>7
    <3>2. d \in 2 .. to - Start - 1
      <4>1. Start \in Int /\ dot \in Int /\ to \in Int /\ dot > Start /\ to > dot + 1
        BY <1>2, <1>4, <1>5
      <4> QED
        BY <4>1
    <3> QED
      BY <3>1, <3>2
  <2>2. s[d] = "."
    <3>1. d \in 1 .. to - Start /\ Start + d - 1 = dot
      BY <1>2, <1>4, <1>5
    <3>2. s[d] = text[Start + d - 1]
      <4> HIDE DEF d
      <4> QED BY <1>7, <3>1
    <3> QED
      BY <1>0, <1>2, <3>1, <3>2, Texts0
  <2>3. ASSUME NEW i \in DOMAIN s \ {d} PROVE s[i] \in Digits
    <3>1. i \in 1 .. to - Start /\ i \in Int /\ i # d
      BY <1>5, <1>7
    <3>2. Start + i - 1 \in Start .. to - 1 /\ Start + i - 1 # dot
      <4>1. i # dot - Start + 1
        BY <3>1
      <4>2. to \in Int /\ Start \in Int /\ dot \in Int /\ i \in Int /\ i >= 1 /\ i <= to - Start
        BY <1>4, <1>5, <3>1
      <4>3. Start + i - 1 # dot
        BY <4>1, <4>2
      <4>4. Start + i - 1 \in Start .. to - 1
        BY <4>2
      <4> QED
        BY <4>3, <4>4
    <3>3. text[Start + i - 1] \in Digits
      BY <1>6, <3>2
    <3> QED
      BY <1>7, <3>1, <3>3
  <2> QED
    BY <2>1, <2>2, <2>3
<1>9. Class(text[Start]) = {"INT_LITERAL", "FLOAT_LITERAL"}
  BY <1>0, Characters DEF Class
<1>10. HasType(s, "FLOAT_LITERAL") /\ ~HasType(s, "INT_LITERAL")
  <2>1. d \in DOMAIN s
    <3> HIDE DEF s, d
    <3> QED BY <1>5, <1>7, <1>8
  <2> HIDE DEF s, d
  <2>2. HasType(s, "FLOAT_LITERAL")
    BY <1>7, <1>8 DEF HasType
  <2>3. ~HasType(s, "INT_LITERAL")
    BY <1>8, <1>a, <2>1 DEF HasType
  <2> QED
    BY <2>2, <2>3
<1>11. ASSUME NEW more \in to .. Len(text), NEW t \in {"INT_LITERAL", "FLOAT_LITERAL"},
              HasType(SubSeq(text, Start, more), t)
       PROVE  FALSE
  <2> DEFINE m == SubSeq(text, Start, more)
             e == to - Start + 1
  <2>1. /\ more \in Start .. Len(text) /\ dot \in Start .. more /\ to \in Start .. more
        /\ to \in 1 .. Len(text)
    BY <1>0, <1>2, <1>4, <1>5
  <2>2. /\ DOMAIN m = 1 .. more - Start + 1
        /\ \A i \in Start .. more : m[i - Start + 1] = text[i]
    BY <1>0, <2>1, PartOfText
  <2> HIDE DEF m
  <2>3. m[d] = "." /\ m[e] \notin Digits
    <3>1. m[d] = text[dot] /\ m[e] = text[to]
      BY <2>1, <2>2
    <3> QED
      BY <1>0, <1>2, <1>3, <2>1, <3>1, Texts0
  <2>4. d \in DOMAIN m /\ e \in DOMAIN m /\ d # e
    <3>1. /\ Start \in Int /\ dot \in Int /\ to \in Int /\ more \in Int
          /\ dot >= Start /\ dot <= more /\ to >= Start /\ to <= more /\ dot < to
      BY <1>4, <1>5, <2>1
    <3>2. d \in 1 .. more - Start + 1
      BY <3>1
    <3>3. e \in 1 .. more - Start + 1
      BY <3>1
    <3>4. d # e
      BY <3>1
    <3> HIDE DEF d, e
    <3> QED
      BY <2>2, <3>2, <3>3, <3>4
  <2> HIDE DEF d, e
  <2>5. CASE t = "INT_LITERAL"
    <3>1. \A i \in DOMAIN m : m[i] \in Digits
      BY <1>11, <2>5 DEF HasType, m
    <3> QED
      BY <2>3, <2>4, <3>1
  <2>6. CASE t = "FLOAT_LITERAL"
    <3>1. PICK k \in 2 .. Len(m) - 1 : m[k] = "." /\ \A i \in DOMAIN m \ {k} : m[i] \in Digits
      BY <1>11, <2>6 DEF HasType, m
    <3> QED
      BY <1>a, <2>3, <2>4, <3>1
  <2> QED
    BY <2>5, <2>6
<1>12. Longest(Start, to - 1, "FLOAT_LITERAL")
  <2>1. "FLOAT_LITERAL" \in Types /\ s = SubSeq(text, Start, to - 1)
    BY DEF Types, Lexeme
  <2> HIDE DEF s
  <2>2. \A more \in to - 1 + 1 .. Len(text) : \A t \in Class(text[Start]) : ~HasType(SubSeq(text, Start, more), t)
    BY <1>5, <1>9, <1>11
  <2> QED
    BY <1>0, <1>5, <1>9, <1>10, <2>1, <2>2, ByClass
<1> QED
  BY <1>5, <1>12

LEMMA StringIsLongest ==
  ASSUME TypeOK, end = "scanning", First = "'", Has("'", Start + 1),
         NEW last, last = Find("'", Start + 1)
  PROVE  /\ Longest(Start, last, "STRING_LITERAL")
         /\ last + 1 \in Start + 1 .. Len(text) + 1
<1>0. /\ text \in Texts /\ Len(text) \in Nat
      /\ Start \in 1 .. Len(text) /\ text[Start] = "'"
  <2>1. "'" # NUL
    BY DEF NUL
  <2> QED
    BY <2>1, StartIs, Texts0 DEF TypeOK
<1>1. /\ last \in Start + 1 .. Len(text) /\ text[last] = "'"
      /\ \A k \in Start + 1 .. last - 1 : text[k] # "'"
  <2>1. Start + 1 \in 1 .. Len(text) + 1
    BY <1>0
  <2> QED
    BY <1>0, <2>1, FindIs
<1>2. last \in Start .. Len(text) /\ last > Start /\ Start \in Int /\ last \in Int
  BY <1>0, <1>1
<1>3. Class(text[Start]) = {"STRING_LITERAL"}
  BY <1>0, Characters DEF Class
<1>4. HasType(SubSeq(text, Start, last), "STRING_LITERAL")
  <2> DEFINE s == SubSeq(text, Start, last)
  <2>1. /\ DOMAIN s = 1 .. last - Start + 1 /\ Len(s) = last - Start + 1 /\ s # <<>>
        /\ \A i \in 1 .. last - Start + 1 : s[i] = text[Start + i - 1]
    BY <1>0, <1>2, PartOfText
  <2> HIDE DEF s
  <2>2. ASSUME NEW i \in DOMAIN s PROVE s[i] = "'" <=> i \in {1, Len(s)}
    <3>1. i \in Int /\ i \in 1 .. last - Start + 1 /\ s[i] = text[Start + i - 1]
      BY <1>2, <2>1
    <3>2. CASE i = 1
      BY <1>0, <1>2, <3>1, <3>2
    <3>3. CASE i = last - Start + 1
      BY <1>1, <1>2, <2>1, <3>1, <3>3
    <3>4. CASE i # 1 /\ i # last - Start + 1
      <4>1. Start + i - 1 \in Start + 1 .. last - 1
        BY <1>2, <3>1, <3>4
      <4> QED
        BY <1>1, <2>1, <3>1, <3>4, <4>1
    <3> QED
      BY <3>2, <3>3, <3>4
  <2>3. Len(s) > 1
    BY <1>2, <2>1
  <2>4. HasType(s, "STRING_LITERAL")
    BY <2>1, <2>2, <2>3 DEF HasType
  <2> QED
    BY <2>4 DEF s
<1>5. ASSUME NEW more \in last + 1 .. Len(text), HasType(SubSeq(text, Start, more), "STRING_LITERAL")
      PROVE  FALSE
  <2> DEFINE m == SubSeq(text, Start, more)
             d == last - Start + 1
  <2>1. more \in Start .. Len(text) /\ more > last /\ last \in Start .. more
    BY <1>0, <1>2
  <2>2. /\ DOMAIN m = 1 .. more - Start + 1 /\ Len(m) = more - Start + 1
        /\ \A i \in Start .. more : m[i - Start + 1] = text[i]
    BY <1>0, <2>1, PartOfText
  <2> HIDE DEF m
  <2>3. m[d] = "'" /\ d \in DOMAIN m /\ d # 1 /\ d # Len(m)
    <3>1. /\ Start \in Int /\ last \in Int /\ more \in Int
          /\ last > Start /\ last < more
      BY <1>2, <2>1
    <3>2. d \in 1 .. more - Start + 1 /\ d # 1
      BY <3>1
    <3>3. d # more - Start + 1
      BY <3>1
    <3>4. m[d] = text[last]
      BY <2>1, <2>2
    <3> HIDE DEF d
    <3> QED
      BY <1>1, <2>2, <3>2, <3>3, <3>4
  <2> HIDE DEF d
  <2>4. \A i \in DOMAIN m : m[i] = "'" <=> i \in {1, Len(m)}
    BY <1>5 DEF HasType, m
  <2> QED
    BY <2>3, <2>4
<1>6. "STRING_LITERAL" \in Types
  BY DEF Types
<1>7. Longest(Start, last, "STRING_LITERAL")
  BY <1>0, <1>2, <1>3, <1>4, <1>5, <1>6, ByClass
<1> QED
  BY <1>0, <1>1, <1>7

LEMMA CommentIsLongest ==
  ASSUME TypeOK, end = "scanning", First = "#", Has("\n", Start + 1),
         NEW to, to = Find("\n", Start + 1)
  PROVE  /\ Longest(Start, to - 1, "COMMENT")
         /\ to \in Start + 1 .. Len(text) + 1
<1>0. /\ text \in Texts /\ Len(text) \in Nat
      /\ Start \in 1 .. Len(text) /\ text[Start] = "#"
  <2>1. "#" # NUL
    BY DEF NUL
  <2> QED
    BY <2>1, StartIs, Texts0 DEF TypeOK
<1>1. /\ to \in Start + 1 .. Len(text) /\ text[to] = "\n"
      /\ \A k \in Start + 1 .. to - 1 : text[k] # "\n"
  <2>1. Start + 1 \in 1 .. Len(text) + 1
    BY <1>0
  <2> QED
    BY <1>0, <2>1, FindIs
<1>2. to - 1 \in Start .. Len(text) /\ to - 1 + 1 = to /\ Start \in Int /\ to \in Int
  BY <1>0, <1>1
<1>3. Class(text[Start]) = {"COMMENT"}
  BY <1>0, Characters DEF Class
<1>4. HasType(SubSeq(text, Start, to - 1), "COMMENT")
  <2> DEFINE s == Lexeme(to)
  <2>1. /\ DOMAIN s = 1 .. to - Start /\ s # <<>> /\ s[1] = "#"
        /\ \A i \in 1 .. to - Start : s[i] = text[Start + i - 1]
    <3>1. to \in Start + 1 .. Len(text) + 1
      BY <1>0, <1>1
    <3> QED
      BY <1>0, <3>1, LexemeIs
  <2> HIDE DEF s
  <2>2. ASSUME NEW i \in DOMAIN s PROVE s[i] # "\n"
    <3>1. i \in Int /\ i \in 1 .. to - Start /\ s[i] = text[Start + i - 1]
      BY <1>2, <2>1
    <3>2. CASE i = 1
      BY <2>1, <3>2
    <3>3. CASE i # 1
      <4>1. Start + i - 1 \in Start + 1 .. to - 1
        BY <1>2, <3>1, <3>3
      <4> QED
        BY <1>1, <3>1, <4>1
    <3> QED
      BY <3>2, <3>3
  <2>3. HasType(s, "COMMENT")
    BY <2>1, <2>2 DEF HasType
  <2> QED
    BY <2>3 DEF s, Lexeme
<1>5. ASSUME NEW more \in to .. Len(text), HasType(SubSeq(text, Start, more), "COMMENT")
      PROVE  FALSE
  <2> DEFINE m == SubSeq(text, Start, more)
             d == to - Start + 1
  <2>1. more \in Start .. Len(text) /\ to \in Start .. more
    BY <1>0, <1>1, <1>2
  <2>2. /\ DOMAIN m = 1 .. more - Start + 1
        /\ \A i \in Start .. more : m[i - Start + 1] = text[i]
    BY <1>0, <2>1, PartOfText
  <2> HIDE DEF m
  <2>3. m[d] = "\n" /\ d \in DOMAIN m
    <3>1. Start \in Int /\ to \in Int /\ more \in Int /\ to >= Start /\ to <= more
      BY <1>2, <2>1
    <3>2. d \in 1 .. more - Start + 1
      BY <3>1
    <3>3. m[d] = text[to]
      BY <2>1, <2>2
    <3> HIDE DEF d
    <3> QED
      BY <1>1, <2>2, <3>2, <3>3
  <2> HIDE DEF d
  <2>4. \A i \in DOMAIN m : m[i] # "\n"
    BY <1>5 DEF HasType, m
  <2> QED
    BY <2>3, <2>4
<1>6. "COMMENT" \in Types
  BY DEF Types
<1>7. Longest(Start, to - 1, "COMMENT")
  BY <1>0, <1>2, <1>3, <1>4, <1>5, <1>6, ByClass
<1> QED
  BY <1>0, <1>1, <1>7

LEMMA UnknownIsNothing ==
  ASSUME TypeOK, end = "scanning", First \notin Known
  PROVE  Longest(Start, Start, "INVALID") /\ Start + 1 \in Start + 1 .. Len(text) + 1
<1>1. First # NUL
  BY DEF Known
<1>0. /\ text \in Texts /\ Len(text) \in Nat
      /\ Start \in 1 .. Len(text) /\ text[Start] = First
  BY <1>1, StartIs, Texts0 DEF TypeOK
<1>2. Class(text[Start]) = {}
  BY <1>0 DEF Class, Known
<1>3. ASSUME NEW to \in Start .. Len(text) PROVE TypesOf(Start, to) = {}
  <2>1. SubSeq(text, Start, to) \in Seq(STRING) /\ SubSeq(text, Start, to)[1] = text[Start]
    BY <1>0, PartOfText
  <2>2. \A t \in Types : ~HasType(SubSeq(text, Start, to), t)
    BY <1>2, <2>1, FirstDecides
  <2> QED
    BY <2>2 DEF TypesOf
<1>4. Start \in Start .. Len(text) /\ \A to \in Start + 1 .. Len(text) : to \in Start .. Len(text)
  BY <1>0
<1> QED
  BY <1>0, <1>3, <1>4 DEF Longest

-----------------------------------------------------------------------------
(* The token a call answers with is the last of all.                       *)
LEMMA LastToken ==
  ASSUME TypeOK, end = "scanning", NEW token \in Tokens, NEW to, Answer(token, to),
         token.start # 0 /\ token.type # "EOF" =>
           Longest(token.start, token.start + token.length - 1, token.type)
  PROVE  LongestMatch'
<1>1. tokens \in Seq(Tokens) /\ tokens' = Append(tokens, token) /\ text' = text
  BY DEF TypeOK, Answer
<1>2. tokens'[Len(tokens')] = token
  BY <1>1
<1>3. Longest(token.start, token.start + token.length - 1, token.type)'
        <=> Longest(token.start, token.start + token.length - 1, token.type)
  BY <1>1 DEF Longest, TypesOf
<1> QED
  BY <1>2, <1>3 DEF LongestMatch, Longest, TypesOf

LEMMA MadeLongest ==
  ASSUME TypeOK, end = "scanning", NEW type \in Types \union {"INVALID"},
         NEW to \in Start + 1 .. Len(text) + 1, MakeToken(type, to), Longest(Start, to - 1, type)
  PROVE  LongestMatch'
<1> DEFINE token == Token(type, Start, to)
<1>1. Start \in 1 .. Len(text) + 1 /\ Len(text) \in Nat
  BY StartIs, Texts0 DEF TypeOK
<1>2. token.type = type /\ token.start = Start /\ token.length = to - Start
  BY DEF Token
<1>3. token \in Tokens
  BY <1>1 DEF Token, Tokens
<1>4. token.start + token.length - 1 = to - 1
  BY <1>1, <1>2
<1>5. Answer(token, to)
  BY DEF MakeToken
<1> HIDE DEF token
<1> QED
  BY <1>2, <1>3, <1>4, <1>5, LastToken

LEMMA LongestStep ==
  ASSUME TypeOK, LongestMatch, [Next]_vars
  PROVE  LongestMatch'
<1>1. CASE Symbol
  <2>0. end = "scanning" /\ First \in Singles \union {"&"}
    BY <1>1 DEF Symbol
  <2>1. SymbolEnd \in Start + 1 .. Len(text) + 1
    BY <2>0, SymbolEndIs
  <2>2. CASE Lexeme(SymbolEnd) \in {<<".", ".">>, <<"&">>}
    <3>1. Answer(InvalidToken, SymbolEnd)
      BY <1>1, <2>2 DEF Symbol
    <3>2. InvalidToken \in Tokens /\ InvalidToken.start = 0
      BY Texts0 DEF InvalidToken, Tokens, TypeOK
    <3> QED
      BY <2>0, <3>1, <3>2, LastToken
  <2>3. CASE Lexeme(SymbolEnd) \notin {<<".", ".">>, <<"&">>}
    <3>1. MakeToken("SYMBOL", SymbolEnd)
      BY <1>1, <2>3 DEF Symbol
    <3>2. Longest(Start, SymbolEnd - 1, "SYMBOL")
      BY <2>0, <2>1, <2>3, SymbolIsLongest
    <3> QED
      BY <2>0, <2>1, <3>1, <3>2, MadeLongest DEF Types
  <2> QED
    BY <2>2, <2>3
<1>2. CASE Word
  <2> DEFINE to == Past(Letters \union Digits, Start + 1)
             type == IF Lexeme(to) \in Keywords THEN "KEYWORD" ELSE "IDENTIFIER"
  <2>1. end = "scanning" /\ First \in Letters /\ MakeToken(type, to)
    BY <1>2 DEF Word
  <2>2. Longest(Start, to - 1, type) /\ to \in Start + 1 .. Len(text) + 1
    BY <2>1, WordIsLongest
  <2>3. type \in Types
    BY DEF Types
  <2> HIDE DEF to, type
  <2> QED
    BY <2>1, <2>2, <2>3, MadeLongest
<1>3. CASE Number
  <2> DEFINE dot == Past(Digits, Start + 1)
             to == Past(Digits, dot + 1)
  <2>0. end = "scanning" /\ First \in Digits
    BY <1>3 DEF Number
  <2>1. CASE At(dot) = "." /\ At(dot + 1) \in Digits
    <3>1. MakeToken("FLOAT_LITERAL", to)
      BY <1>3, <2>1 DEF Number
    <3>2. Longest(Start, to - 1, "FLOAT_LITERAL") /\ to \in Start + 1 .. Len(text) + 1
      <4> DEFINE d == dot
      <4>1. d = Past(Digits, Start + 1) /\ At(d) = "." /\ At(d + 1) \in Digits /\ to = Past(Digits, d + 1)
        BY <2>1
      <4> HIDE DEF d, to
      <4> QED
        BY <2>0, <4>1, FloatIsLongest
    <3> HIDE DEF to
    <3> QED
      BY <2>0, <3>1, <3>2, MadeLongest DEF Types
  <2>2. CASE ~(At(dot) = "." /\ At(dot + 1) \in Digits)
    <3>1. MakeToken("INT_LITERAL", dot)
      BY <1>3, <2>2 DEF Number
    <3>2. Longest(Start, dot - 1, "INT_LITERAL") /\ dot \in Start + 1 .. Len(text) + 1
      BY <2>0, <2>2, IntegerIsLongest
    <3> HIDE DEF dot
    <3> QED
      BY <2>0, <3>1, <3>2, MadeLongest DEF Types
  <2> QED
    BY <2>1, <2>2
<1>4. ASSUME OverRead PROVE LongestMatch'
  <2>1. text' = text /\ tokens' = tokens
    BY <1>4 DEF OverRead
  <2> QED
    BY <2>1 DEF LongestMatch, Longest, TypesOf
<1>5. CASE String
  <2> DEFINE last == Find("'", Start + 1)
  <2>0. end = "scanning" /\ First = "'"
    BY <1>5 DEF String
  <2>1. CASE Has("'", Start + 1)
    <3>1. MakeToken("STRING_LITERAL", last + 1)
      BY <1>5, <2>1 DEF String
    <3>2. Longest(Start, last, "STRING_LITERAL") /\ last + 1 \in Start + 1 .. Len(text) + 1
      BY <2>0, <2>1, StringIsLongest
    <3>3. last \in Int
      <4>1. Start \in Int /\ Len(text) \in Int
        BY <2>0, StartIs, Texts0 DEF TypeOK
      <4>2. last \in Start + 1 .. Len(text)
        <5>1. Start + 1 \in 1 .. Len(text) + 1
          BY <2>0, StartIs, Texts0 DEF TypeOK, NUL
        <5> QED
          BY <2>1, <5>1, FindIs DEF TypeOK
      <4> HIDE DEF last
      <4> QED
        BY <4>1, <4>2
    <3> HIDE DEF last
    <3> DEFINE to == last + 1
    <3>4. /\ MakeToken("STRING_LITERAL", to) /\ Longest(Start, to - 1, "STRING_LITERAL")
          /\ to \in Start + 1 .. Len(text) + 1
      <4>1. to - 1 = last
        BY <3>3
      <4> QED
        BY <3>1, <3>2, <4>1
    <3> HIDE DEF to
    <3> QED
      BY <2>0, <3>4, MadeLongest DEF Types
  <2>2. CASE ~Has("'", Start + 1)
    BY <1>4, <1>5, <2>2 DEF String
  <2> QED
    BY <2>1, <2>2
<1>6. CASE Comment
  <2> DEFINE to == Find("\n", Start + 1)
  <2>0. end = "scanning" /\ First = "#"
    BY <1>6 DEF Comment
  <2>1. CASE Has("\n", Start + 1)
    <3>1. MakeToken("COMMENT", to)
      BY <1>6, <2>1 DEF Comment
    <3>2. Longest(Start, to - 1, "COMMENT") /\ to \in Start + 1 .. Len(text) + 1
      BY <2>0, <2>1, CommentIsLongest
    <3> HIDE DEF to
    <3> QED
      BY <2>0, <3>1, <3>2, MadeLongest DEF Types
  <2>2. CASE ~Has("\n", Start + 1)
    BY <1>4, <1>6, <2>2 DEF Comment
  <2> QED
    BY <2>1, <2>2
<1>7. CASE EndOfText
  <2>0. end = "scanning" /\ At(Start) = NUL /\ MakeToken("EOF", Start + 1)
    BY <1>7 DEF EndOfText, First
  <2>1. Start = Len(text) + 1 /\ Len(text) \in Nat
    BY <2>0, StartIs, Texts0 DEF TypeOK
  <2> DEFINE token == Token("EOF", Start, Start + 1)
  <2>2. token \in Tokens /\ token.type = "EOF"
    BY <2>1 DEF Token, Tokens
  <2>3. Answer(token, Start + 1)
    BY <2>0 DEF MakeToken
  <2> HIDE DEF token
  <2> QED
    BY <2>0, <2>2, <2>3, LastToken
<1>8. CASE Unknown
  <2>0. end = "scanning" /\ First \notin Known /\ MakeToken("INVALID", Start + 1)
    BY <1>8 DEF Unknown
  <2>1. Longest(Start, Start, "INVALID") /\ Start + 1 \in Start + 1 .. Len(text) + 1
    BY <2>0, UnknownIsNothing
  <2>2. Start \in Int
    BY <2>0, StartIs, Texts0 DEF TypeOK
  <2> DEFINE to == Start + 1
  <2>3. /\ MakeToken("INVALID", to) /\ Longest(Start, to - 1, "INVALID")
        /\ to \in Start + 1 .. Len(text) + 1
    <3>1. to - 1 = Start
      BY <2>2
    <3> QED
      BY <2>0, <2>1, <3>1
  <2> HIDE DEF to
  <2> QED
    BY <2>0, <2>3, MadeLongest
<1>9. CASE UNCHANGED vars
  BY <1>9 DEF vars, LongestMatch, Longest, TypesOf
<1> QED
  BY <1>1, <1>2, <1>3, <1>5, <1>6, <1>7, <1>8, <1>9 DEF Next, Over

\* Whatever the text, every token is the longest beginning of what is left that is a token,
\* and has its type: the lookahead of mtr_next_token is enough, and never too much.
THEOREM TokensAreLongest == Spec => []LongestMatch
<1>1. Init => LongestMatch
  BY DEF Init, LongestMatch
<1>2. TypeOK /\ LongestMatch /\ [Next]_vars => LongestMatch'
  BY LongestStep
<1> QED
  BY <1>1, <1>2, TypeCorrect, PTL DEF Spec
=============================================================================

---------------------------- MODULE ShellProofs -----------------------------
(***************************************************************************)
(* The shell runs the pipelines its operators ask for and joins the        *)
(* neighbours of a pipeline, for every text on its input, every limit of   *)
(* descriptors, and whatever the children do.                              *)
(***************************************************************************)
EXTENDS Shell, DataProofs

-----------------------------------------------------------------------------
(* Parts of sequences.                                                      *)

LEMMA PrefixLengthFacts ==
    ASSUME NEW T, NEW s \in Seq(T), NEW S
    PROVE  /\ PrefixLength(s, S) \in 0 .. Len(s)
           /\ \A i \in 1 .. PrefixLength(s, S) : s[i] \in S
           /\ PrefixLength(s, S) = Len(s) \/ s[PrefixLength(s, S) + 1] \notin S
<1> DEFINE Fits(n) == /\ \A i \in 1 .. n : s[i] \in S
                      /\ n = Len(s) \/ s[n + 1] \notin S
           Stops == {n \in 0 .. Len(s) : n = Len(s) \/ s[n + 1] \notin S}
<1>1. Len(s) \in Nat
  OBVIOUS
<1>2. PICK n \in Stops : \A k \in Stops : n <= k
  <2>1. Stops \in SUBSET Nat /\ Len(s) \in Stops
    BY <1>1
  <2> HIDE DEF Stops
  <2> QED  BY <2>1, LeastExists
<1>3. ASSUME NEW i \in 1 .. n PROVE s[i] \in S
  <2>1. i - 1 \in 0 .. Len(s) /\ i - 1 < n /\ i - 1 + 1 = i
    BY <1>1, <1>2
  <2>2. i - 1 \notin Stops
    BY <1>2, <2>1
  <2> QED  BY <2>1, <2>2
<1>4. \E m \in 0 .. Len(s) : Fits(m)
  BY <1>2, <1>3
<1>5. PrefixLength(s, S) = CHOOSE m \in 0 .. Len(s) : Fits(m)
  BY DEF PrefixLength
<1> HIDE DEF Fits
<1>6. PrefixLength(s, S) \in 0 .. Len(s) /\ Fits(PrefixLength(s, S))
  BY <1>4, <1>5
<1> QED  BY <1>6 DEF Fits

LEMMA SubSeqType ==
    ASSUME NEW T, NEW s \in Seq(T), NEW m \in Nat \ {0}, NEW n \in 0 .. Len(s)
    PROVE  /\ SubSeq(s, m, n) \in Seq(T)
           /\ Len(SubSeq(s, m, n)) = IF m <= n THEN n - m + 1 ELSE 0
           /\ \A i \in 1 .. n - m + 1 : SubSeq(s, m, n)[i] = s[m + i - 1]
<1>1. Len(s) \in Nat
  OBVIOUS
<1>2. \A i \in m .. n : s[i] \in T
  BY <1>1
<1> QED  BY <1>2, SubSeqProperties, m \in Int, n \in Int

-----------------------------------------------------------------------------
(* What the tokenizer takes from a text.                                    *)

Text == Seq(TextChars)

\* A token has characters of the alphabet, and takes one at least.
IsToken(token, text) ==
    /\ token.category \in Tokens \cup {"none"}
    /\ token.value \in Text
    /\ token.rest \in Text
    /\ token.category # "none" => Len(token.rest) < Len(text)

LEMMA RestType ==
    ASSUME NEW text \in Text, NEW m \in Nat \ {0}
    PROVE  /\ Rest(text, m) \in Text
           /\ m > 1 /\ text # << >> => Len(Rest(text, m)) < Len(text)
<1>1. Len(text) \in 0 .. Len(text)
  BY DEF Text
<1> HIDE DEF Text
<1>2. /\ SubSeq(text, m, Len(text)) \in Text
      /\ Len(SubSeq(text, m, Len(text))) = IF m <= Len(text) THEN Len(text) - m + 1 ELSE 0
  BY <1>1, SubSeqType DEF Text
<1>3. text # << >> => Len(text) > 0
  BY EmptySeq DEF Text
<1>4. Len(text) \in Nat
  BY DEF Text
<1> QED  BY <1>2, <1>3, <1>4 DEF Rest

LEMMA ToEscapedType ==
    ASSUME NEW c \in TextChars
    PROVE  ToEscaped(c) \in TextChars
BY DEF ToEscaped, TextChars, Quotes, Whitespace, Operators, Letters

LEMMA SymbolTokenType ==
    ASSUME NEW text \in Text, text # << >>
    PROVE  IsToken(SymbolToken(text), text)
<1> DEFINE n == PrefixLength(text, SymbolChars)
<1>1. n \in 0 .. Len(text) /\ Len(text) \in Nat \ {0}
  BY PrefixLengthFacts, EmptySeq DEF Text
<1> HIDE DEF n
<1>2. SubSeq(text, 1, n) \in Text
  BY <1>1, SubSeqType DEF Text
<1>3. Tail(text) \in Text
  BY HeadTailProperties DEF Text
<1>4. Rest(text, n + 1) \in Text /\ (n # 0 => Len(Rest(text, n + 1)) < Len(text))
  BY <1>1, RestType, n + 1 \in Nat \ {0}
<1>5. "symbol" \in Tokens
  BY DEF Tokens, Arguments
<1> QED  BY <1>2, <1>3, <1>4, <1>5 DEF IsToken, SymbolToken, Token, n

LEMMA PeekType ==
    ASSUME NEW text \in Text, text # << >>, NEW double \in Tokens, NEW single \in Tokens
    PROVE  IsToken(Peek(text, double, single), text)
<1>1. Len(text) \in Nat \ {0}
  BY EmptySeq DEF Text
<1>2. Rest(text, 2) \in Text /\ Len(Rest(text, 2)) < Len(text)
  BY RestType
<1>3. Rest(text, 3) \in Text /\ Len(Rest(text, 3)) < Len(text)
  BY RestType
<1>4. << >> \in Text
  BY EmptySeq DEF Text
<1> QED  BY <1>2, <1>3, <1>4 DEF IsToken, Peek, Token

\* A literal is read from its second character on, and a round takes one at least.
LEMMA LiteralTokenType ==
    ASSUME NEW text \in Text, text # << >>
    PROVE  IsToken(LiteralToken(text), text)
<1> DEFINE D     == (Nat \ {0}) \X Text
           S     == {x \in D : x[1] >= 2}
           last  == Head(text)
           bad(i) == i = Len(text) \/ ToEscaped(text[i + 1]) = text[i + 1]
           stop  == [x \in D |-> \/ x[1] > Len(text)
                                 \/ text[x[1]] = last
                                 \/ text[x[1]] = "\\" /\ bad(x[1])]
           out   == [x \in D |->
                        IF x[1] > Len(text) THEN Token("none", << >>, << >>)
                        ELSE IF text[x[1]] = last
                             THEN Token("literal", x[2], Rest(text, x[1] + 1))
                             ELSE Token("none", << >>, Rest(text, x[1] + 2))]
           next  == [x \in D |->
                        IF text[x[1]] # "\\"
                        THEN << x[1] + 1, Append(x[2], text[x[1]]) >>
                        ELSE << x[1] + 2, Append(x[2], ToEscaped(text[x[1] + 1])) >>]
           measure == [x \in D |-> IF x[1] > Len(text) THEN 0 ELSE Len(text) + 1 - x[1]]
           Body(f) == [s \in (Nat \ {0}) \X Seq(TextChars) |->
                         LET i == s[1]
                             value == s[2]
                         IN IF i > Len(text) THEN Token("none", << >>, << >>)
                            ELSE CASE text[i] = last -> Token("literal", value, Rest(text, i + 1))
                                   [] text[i] # last /\ text[i] # "\\" ->
                                        f[<< i + 1, Append(value, text[i]) >>]
                                   [] OTHER ->
                                        IF i = Len(text) \/ ToEscaped(text[i + 1]) = text[i + 1]
                                        THEN Token("none", << >>, Rest(text, i + 2))
                                        ELSE f[<< i + 2, Append(value, ToEscaped(text[i + 1])) >>]]
           from == CHOOSE f : f = Body(f)
<1>1. LiteralToken(text) = from[<< 2, << >> >>]
  BY DEF LiteralToken
<1>2. Len(text) \in Nat \ {0} /\ \A i \in 1 .. Len(text) : text[i] \in TextChars
  BY EmptySeq DEF Text
<1>3. ASSUME NEW f PROVE Body(f) = Loop(D, stop, out, next, f)
  BY DEF Loop, Text
<1>4. ASSUME NEW x \in D, ~stop[x]
      PROVE  /\ x[1] <= Len(text)
             /\ next[x] \in D
             /\ next[x][1] > x[1]
  <2>1. x[1] \in Nat \ {0} /\ x[2] \in Text /\ x[1] <= Len(text)
    BY <1>4
  <2>2. next[x] = IF text[x[1]] # "\\"
                  THEN << x[1] + 1, Append(x[2], text[x[1]]) >>
                  ELSE << x[1] + 2, Append(x[2], ToEscaped(text[x[1] + 1])) >>
    OBVIOUS
  <2> HIDE DEF next, D
  <2>3. CASE text[x[1]] # "\\"
    <3>1. Append(x[2], text[x[1]]) \in Text
      BY <1>2, <2>1, AppendProperties DEF Text
    <3>2. next[x] = << x[1] + 1, Append(x[2], text[x[1]]) >>
      BY <2>2, <2>3
    <3> DEFINE v == Append(x[2], text[x[1]])
    <3> HIDE DEF v, Text
    <3>3. << x[1] + 1, v >> \in D
      <4>1. v \in Text
        BY <3>1 DEF v
      <4>2. x[1] + 1 \in Nat \ {0}
        BY <2>1
      <4> QED  BY <4>1, <4>2 DEF D
    <3>4. << x[1] + 1, v >>[1] = x[1] + 1
      OBVIOUS
    <3> QED  BY <2>1, <3>2, <3>3, <3>4 DEF v
  <2>4. CASE text[x[1]] = "\\"
    <3>1. ~bad(x[1])
      BY <1>4, <2>4
    <3>2. x[1] + 1 \in 1 .. Len(text)
      BY <1>2, <2>1, <3>1
    <3>3. Append(x[2], ToEscaped(text[x[1] + 1])) \in Text
      BY <1>2, <2>1, <3>2, ToEscapedType, AppendProperties DEF Text
    <3>4. next[x] = << x[1] + 2, Append(x[2], ToEscaped(text[x[1] + 1])) >>
      BY <2>2, <2>4
    <3> DEFINE v == Append(x[2], ToEscaped(text[x[1] + 1]))
    <3> HIDE DEF v, Text
    <3>5. << x[1] + 2, v >> \in D
      <4>1. v \in Text
        BY <3>3 DEF v
      <4>2. x[1] + 2 \in Nat \ {0}
        BY <2>1
      <4> QED  BY <4>1, <4>2 DEF D
    <3>6. << x[1] + 2, v >>[1] = x[1] + 2
      OBVIOUS
    <3> QED  BY <2>1, <3>4, <3>5, <3>6 DEF v
  <2> QED  BY <2>1, <2>3, <2>4
<1>5. Ends(D, stop, next, measure)
  <2>1. measure \in [D -> Nat]
    BY <1>2
  <2>2. ASSUME NEW x \in D, ~stop[x] PROVE measure[next[x]] < measure[x]
    <3>1. /\ x[1] <= Len(text) /\ next[x] \in D /\ next[x][1] > x[1]
          /\ x[1] \in Nat /\ next[x][1] \in Nat
      BY <1>4, <2>2
    <3> HIDE DEF next, D
    <3> QED  BY <1>2, <3>1
  <2> HIDE DEF measure
  <2> QED  BY <1>4, <2>1, <2>2 DEF Ends
<1>6. from = Loop(D, stop, out, next, from)
  <2>1. PICK f : f = Loop(D, stop, out, next, f)
    <3> HIDE DEF D, stop, out, next, measure
    <3> QED  BY <1>5, LoopExists
  <2>2. f = Body(f)
    BY <1>3, <2>1
  <2> HIDE DEF Body
  <2>3. from = Body(from)
    BY <2>2
  <2> QED  BY <1>3, <2>3
<1> HIDE DEF from, Body, measure
<1>7. PICK y \in S : stop[y] /\ from[<< 2, << >> >>] = out[y]
  <2>1. S \in SUBSET D /\ \A x \in S : ~stop[x] => next[x] \in S
    <3>1. ASSUME NEW x \in S, ~stop[x] PROVE next[x] \in S
      <4>1. next[x] \in D /\ next[x][1] > x[1] /\ x[1] >= 2 /\ x[1] \in Nat
        BY <1>4, <3>1
      <4> HIDE DEF next
      <4> QED  BY <4>1
    <3> QED  BY <3>1
  <2>2. << 2, << >> >> \in S
    <3>1. << >> \in Text
      BY EmptySeq DEF Text
    <3> HIDE DEF Text
    <3> QED  BY <3>1
  <2> HIDE DEF D, S, stop, out, next
  <2> QED  BY <1>5, <1>6, <2>1, <2>2, LoopResult
<1>8. IsToken(out[y], text)
  <2>1. y \in D /\ y[1] \in Nat /\ y[1] >= 2 /\ y[2] \in Text
    OBVIOUS
  <2>2. out[y] = IF y[1] > Len(text) THEN Token("none", << >>, << >>)
                 ELSE IF text[y[1]] = last
                      THEN Token("literal", y[2], Rest(text, y[1] + 1))
                      ELSE Token("none", << >>, Rest(text, y[1] + 2))
    BY <2>1
  <2> HIDE DEF out, last
  <2>3. << >> \in Text /\ {"literal", "none"} \subseteq Tokens \cup {"none"}
    BY EmptySeq DEF Text, Tokens, Arguments
  <2>4. Rest(text, y[1] + 1) \in Text /\ Len(Rest(text, y[1] + 1)) < Len(text)
    BY <2>1, RestType, y[1] + 1 \in Nat \ {0}
  <2>5. Rest(text, y[1] + 2) \in Text
    BY <2>1, RestType, y[1] + 2 \in Nat \ {0}
  <2> QED  BY <2>1, <2>2, <2>3, <2>4, <2>5 DEF IsToken, Token
<1> QED  BY <1>1, <1>7, <1>8

LEMMA TokNextType ==
    ASSUME NEW text \in Text
    PROVE  IsToken(TokNext(text), text)
<1> DEFINE n == 1 + PrefixLength(text, Whitespace)
           t == Rest(text, n)
<1>1. n \in Nat \ {0}
  BY PrefixLengthFacts DEF Text
<1>2. t \in Text /\ Len(t) <= Len(text)
  <2>1. Len(text) \in 0 .. Len(text) /\ Len(text) \in Nat
    BY DEF Text
  <2> HIDE DEF n
  <2>2. t \in Text
    BY <1>1, RestType
  <2>3. Len(t) = IF n <= Len(text) THEN Len(text) - n + 1 ELSE 0
    BY <1>1, <2>1, SubSeqType DEF Rest, Text
  <2> QED  BY <1>1, <2>1, <2>2, <2>3
<1> HIDE DEF n, t
<1>3. CASE t = << >>
  <2>1. TokNext(text) = Token("none", << >>, << >>)
    BY <1>3 DEF TokNext, t, n
  <2>2. << >> \in Text
    BY EmptySeq DEF Text
  <2> QED  BY <2>1, <2>2 DEF IsToken, Token
<1>4. CASE t # << >>
  <2>1. Head(t) \in TextChars /\ Tail(t) \in Text /\ Len(Tail(t)) = Len(t) - 1
    BY <1>2, <1>4, HeadTailProperties DEF Text
  <2>2. Len(t) \in Nat /\ Len(text) \in Nat
    BY <1>2 DEF Text
  <2>3. IsToken(TokNext(text), t)
    <3>1. IsToken(Token(Head(t), << >>, Tail(t)), t) \/ Head(t) \notin {"newline", ";"}
      <4>1. << >> \in Text
        BY EmptySeq DEF Text
      <4>2. {"newline", ";"} \subseteq Tokens
        BY DEF Tokens, Separators
      <4>3. ASSUME Head(t) \in {"newline", ";"}
            PROVE  IsToken(Token(Head(t), << >>, Tail(t)), t)
        <5>1. Head(t) \in Tokens
          BY <4>2, <4>3
        <5>2. Len(Tail(t)) < Len(t)
          BY <2>1, <2>2
        <5> QED  BY <2>1, <4>1, <5>1, <5>2 DEF IsToken, Token
      <4> QED  BY <4>3
    <3>2. IsToken(Peek(t, "||", "|"), t) /\ IsToken(Peek(t, "&&", "invalid"), t)
      BY <1>2, <1>4, PeekType DEF Tokens, Separators
    <3>3. IsToken(LiteralToken(t), t)
      BY <1>2, <1>4, LiteralTokenType
    <3>4. IsToken(SymbolToken(t), t)
      BY <1>2, <1>4, SymbolTokenType
    <3>5. \/ TokNext(text) = Token(Head(t), << >>, Tail(t)) /\ Head(t) \in {"newline", ";"}
          \/ TokNext(text) = Peek(t, "||", "|")
          \/ TokNext(text) = Peek(t, "&&", "invalid")
          \/ TokNext(text) = LiteralToken(t)
          \/ TokNext(text) = SymbolToken(t)
      <4>1. TokNext(text) =
              IF t = << >> THEN Token("none", << >>, << >>)
              ELSE CASE Head(t) \in {"newline", ";"} -> Token(Head(t), << >>, Tail(t))
                     [] Head(t) = "|"      -> Peek(t, "||", "|")
                     [] Head(t) = "&"      -> Peek(t, "&&", "invalid")
                     [] Head(t) \in Quotes -> LiteralToken(t)
                     [] OTHER              -> SymbolToken(t)
        BY DEF TokNext, t, n
      <4> DEFINE h == Head(t)
                 newline == Token(h, << >>, Tail(t))
                 bar == Peek(t, "||", "|")
                 and == Peek(t, "&&", "invalid")
                 literal == LiteralToken(t)
                 symbol == SymbolToken(t)
      <4>2. TokNext(text) =
              CASE h \in {"newline", ";"} -> newline
                [] h = "|"      -> bar
                [] h = "&"      -> and
                [] h \in Quotes -> literal
                [] OTHER        -> symbol
        BY <1>4, <4>1
      <4> HIDE DEF h, newline, bar, and, literal, symbol
      <4>3. \/ TokNext(text) = newline /\ h \in {"newline", ";"}
            \/ TokNext(text) = bar \/ TokNext(text) = and
            \/ TokNext(text) = literal \/ TokNext(text) = symbol
        BY <4>2, Zenon
      <4> QED  BY <4>3 DEF h, newline, bar, and, literal, symbol
    <3> QED  BY <3>1, <3>2, <3>3, <3>4, <3>5
  <2>4. Len(TokNext(text).rest) \in Nat
    BY <2>3 DEF IsToken, Text
  <2> QED  BY <1>2, <2>2, <2>3, <2>4 DEF IsToken
<1> QED  BY <1>3, <1>4

LEMMA SeenType ==
    ASSUME NEW token, token.category \in Tokens \ {"newline"}
    PROVE  Seen(token) \in Tokens \ {"newline"}
BY DEF Seen, Tokens, Arguments

\* A newline can only be the last one of these tokens.
NewlineIsLast(list) == \A i \in 1 .. Len(list) : list[i] = "newline" => i = Len(list)

LEMMA TokNextLineType ==
    ASSUME NEW text \in Text
    PROVE  /\ TokNextLine(text).rest \in Text
           /\ TokNextLine(text).tokens \in Seq(Tokens)
           /\ NewlineIsLast(TokNextLine(text).tokens)
<1> DEFINE D    == Text \X Seq(Tokens)
           S    == {x \in D : \A i \in 1 .. Len(x[2]) : x[2][i] # "newline"}
           stop == [x \in D |-> TokNext(x[1]).category \in {"none", "newline"}]
           out  == [x \in D |->
                      IF TokNext(x[1]).category = "none"
                      THEN [tokens |-> x[2], rest |-> TokNext(x[1]).rest]
                      ELSE [tokens |-> Append(x[2], "newline"), rest |-> TokNext(x[1]).rest]]
           next == [x \in D |-> << TokNext(x[1]).rest, Append(x[2], Seen(TokNext(x[1]))) >>]
           measure == [x \in D |-> Len(x[1])]
           Body(f) == [s \in Seq(TextChars) \X Seq(Tokens) |->
                         LET nxt == TokNext(s[1])
                             toks == s[2]
                         IN CASE nxt.category = "none" -> [tokens |-> toks, rest |-> nxt.rest]
                              [] nxt.category = "newline" ->
                                   [tokens |-> Append(toks, "newline"), rest |-> nxt.rest]
                              [] OTHER -> f[<< nxt.rest, Append(toks, Seen(nxt)) >>]]
           from == CHOOSE f : f = Body(f)
<1>1. TokNextLine(text) = from[<< text, << >> >>]
  BY DEF TokNextLine
<1>2. ASSUME NEW f PROVE Body(f) = Loop(D, stop, out, next, f)
  BY DEF Loop, Text
<1>3. ASSUME NEW x \in D, ~stop[x]
      PROVE  /\ next[x] \in D
             /\ measure[next[x]] < measure[x]
             /\ x \in S => next[x] \in S
  <2> DEFINE token == TokNext(x[1])
  <2>1. x[1] \in Text /\ x[2] \in Seq(Tokens) /\ token.category \notin {"none", "newline"}
    BY <1>3
  <2>2. IsToken(token, x[1])
    BY <2>1, TokNextType
  <2> HIDE DEF token
  <2>3. token.rest \in Text /\ Len(token.rest) < Len(x[1])
    BY <2>1, <2>2 DEF IsToken
  <2>4. Seen(token) \in Tokens \ {"newline"}
    BY <2>1, <2>2, SeenType DEF IsToken
  <2> DEFINE list == Append(x[2], Seen(token))
  <2>5. /\ list \in Seq(Tokens) /\ Len(list) = Len(x[2]) + 1
        /\ \A i \in 1 .. Len(x[2]) : list[i] = x[2][i]
        /\ list[Len(x[2]) + 1] = Seen(token)
        /\ Len(x[2]) \in Nat
    BY <2>1, <2>4, AppendProperties
  <2>6. next[x] = << token.rest, list >>
    BY DEF token
  <2> HIDE DEF list, next
  <2>7. next[x] \in D
    BY <2>3, <2>5, <2>6
  <2>8. measure[next[x]] < measure[x]
    BY <2>3, <2>6, <2>7
  <2>9. ASSUME x \in S PROVE next[x] \in S
    <3>1. \A i \in 1 .. Len(list) : list[i] # "newline"
      BY <2>4, <2>5, <2>9
    <3> QED  BY <2>6, <2>7, <3>1
  <2> QED  BY <2>7, <2>8, <2>9
<1>4. Ends(D, stop, next, measure)
  <2>1. measure \in [D -> Nat]
    BY DEF Text
  <2> HIDE DEF measure, D, stop, next
  <2> QED  BY <1>3, <2>1 DEF Ends
<1>5. from = Loop(D, stop, out, next, from)
  <2>1. PICK f : f = Loop(D, stop, out, next, f)
    <3> HIDE DEF D, stop, out, next, measure
    <3> QED  BY <1>4, LoopExists
  <2>2. f = Body(f)
    BY <1>2, <2>1
  <2> HIDE DEF Body
  <2>3. from = Body(from)
    BY <2>2
  <2> QED  BY <1>2, <2>3
<1> HIDE DEF from, Body
<1>6. PICK y \in S : stop[y] /\ from[<< text, << >> >>] = out[y]
  <2>1. S \in SUBSET D /\ \A x \in S : ~stop[x] => next[x] \in S
    <3> HIDE DEF next, stop
    <3> QED  BY <1>3
  <2>2. << text, << >> >> \in S
    <3>1. << >> \in Seq(Tokens) /\ Len(<< >>) = 0
      BY EmptySeq
    <3> DEFINE none == << >>
    <3> HIDE DEF Text, none
    <3>2. << text, none >> \in D /\ << text, none >>[2] = none
      BY <3>1 DEF none
    <3>3. \A i \in 1 .. Len(none) : none[i] # "newline"
      BY <3>1 DEF none
    <3> HIDE DEF D
    <3>4. << text, none >> \in S
      BY <3>2, <3>3
    <3> QED  BY <3>4 DEF none
  <2> HIDE DEF D, S, stop, out, next, measure
  <2> QED  BY <1>4, <1>5, <2>1, <2>2, LoopResult
<1>7. y[1] \in Text /\ y[2] \in Seq(Tokens) /\ \A i \in 1 .. Len(y[2]) : y[2][i] # "newline"
  OBVIOUS
<1>8. TokNext(y[1]).rest \in Text
  BY <1>7, TokNextType DEF IsToken
<1> DEFINE list == Append(y[2], "newline")
<1>9. /\ list \in Seq(Tokens) /\ Len(list) = Len(y[2]) + 1
      /\ \A i \in 1 .. Len(y[2]) : list[i] = y[2][i]
      /\ Len(y[2]) \in Nat
  <2>1. "newline" \in Tokens
    BY DEF Tokens, Separators
  <2> QED  BY <1>7, <2>1, AppendProperties
<1>10. TokNextLine(text) \in {[tokens |-> y[2], rest |-> TokNext(y[1]).rest],
                              [tokens |-> list, rest |-> TokNext(y[1]).rest]}
  BY <1>1, <1>6
<1>11. NewlineIsLast(y[2]) /\ NewlineIsLast(list)
  <2> HIDE DEF list
  <2> QED  BY <1>7, <1>9 DEF NewlineIsLast
<1> HIDE DEF list
<1> QED  BY <1>7, <1>8, <1>9, <1>10, <1>11

-----------------------------------------------------------------------------
(* What the parser takes from a line.                                       *)

Commands == [words : Seq(Arguments) \ {<< >>}, op : Ops]

LEMMA FindOpType ==
    ASSUME NEW token
    PROVE  /\ FindOp(token) \in Ops
           /\ FindOp(token) = "terminator" => token = "newline"
<1>1. \/ token = "|" /\ FindOp(token) = "pipe"
      \/ token = "&&" /\ FindOp(token) = "and"
      \/ token = "||" /\ FindOp(token) = "or"
      \/ token = "newline" /\ FindOp(token) = "terminator"
      \/ FindOp(token) = "separator"
  BY Zenon DEF FindOp
<1> QED  BY <1>1 DEF Ops

\* Taking a command, when there is an operator behind its words: the command ends
\* the line only with the last token.
LEMMA CommandType ==
    ASSUME NEW list \in Seq(Tokens), list # << >>, IsArg(Head(list)),
           CountArguments(list) < Len(list), NewlineIsLast(list)
    PROVE  /\ Command(list) \in Commands
           /\ Behind(list) \in Seq(Tokens)
           /\ NewlineIsLast(Behind(list))
           /\ Command(list).op = "terminator" => Behind(list) = << >>
<1> DEFINE n == CountArguments(list)
<1>1. /\ n \in 0 .. Len(list)
      /\ \A i \in 1 .. n : list[i] \in Arguments
      /\ n = Len(list) \/ list[n + 1] \notin Arguments
  BY PrefixLengthFacts DEF CountArguments
<1>2. Len(list) \in Nat \ {0} /\ Head(list) = list[1]
  BY EmptySeq
<1>3. n >= 1 /\ n < Len(list)
  BY <1>1, <1>2 DEF IsArg
<1> HIDE DEF n
<1>4. SubSeq(list, 1, n) \in Seq(Arguments) /\ Len(SubSeq(list, 1, n)) = n
  <2>1. 1 \in Int /\ n \in Int
    BY <1>1
  <2>2. /\ SubSeq(list, 1, n) \in Seq(Arguments)
        /\ Len(SubSeq(list, 1, n)) = IF 1 <= n THEN n - 1 + 1 ELSE 0
    BY ONLY <1>1, <2>1, SubSeqProperties
  <2> QED  BY <1>3, <2>1, <2>2
<1>5. SubSeq(list, 1, n) # << >>
  BY <1>3, <1>4, EmptySeq
<1>6. /\ Command(list).op = FindOp(list[n + 1])
      /\ Command(list) = [words |-> SubSeq(list, 1, n), op |-> FindOp(list[n + 1])]
  BY DEF Command, n
<1>7. Command(list) \in Commands
  BY <1>4, <1>5, <1>6, FindOpType DEF Commands
<1> DEFINE r == Behind(list)
<1>8. /\ r \in Seq(Tokens)
      /\ Len(r) = IF n + 2 <= Len(list) THEN Len(list) - (n + 2) + 1 ELSE 0
      /\ \A i \in 1 .. Len(list) - (n + 2) + 1 : r[i] = list[(n + 2) + i - 1]
  <2> DEFINE m == n + 2
  <2>1. m \in Nat \ {0} /\ Len(list) \in 0 .. Len(list)
    BY <1>1, <1>2
  <2>2. r = SubSeq(list, m, Len(list))
    BY DEF Behind, n
  <2> HIDE DEF m, r
  <2>3. /\ r \in Seq(Tokens)
        /\ Len(r) = IF m <= Len(list) THEN Len(list) - m + 1 ELSE 0
        /\ \A i \in 1 .. Len(list) - m + 1 : r[i] = list[m + i - 1]
    BY <2>1, <2>2, SubSeqType
  <2> QED  BY <2>3 DEF m
<1> HIDE DEF r
<1>9. ASSUME NEW i \in 1 .. Len(r), r[i] = "newline" PROVE i = Len(r)
  <2>1. i \in 1 .. Len(list) - (n + 2) + 1 /\ Len(r) = Len(list) - (n + 2) + 1
    BY <1>1, <1>2, <1>8
  <2>2. (n + 2) + i - 1 \in 1 .. Len(list) /\ list[(n + 2) + i - 1] = "newline"
    BY <1>1, <1>2, <1>8, <1>9, <2>1
  <2>3. (n + 2) + i - 1 = Len(list)
    BY <2>2 DEF NewlineIsLast
  <2> QED  BY <1>1, <1>2, <2>1, <2>3
<1>10. ASSUME Command(list).op = "terminator" PROVE r = << >>
  <2>1. list[n + 1] = "newline"
    BY <1>6, <1>10, FindOpType
  <2>2. n + 1 \in 1 .. Len(list)
    BY <1>1, <1>2, <1>3
  <2>3. n + 1 = Len(list)
    BY <2>1, <2>2 DEF NewlineIsLast
  <2>4. Len(r) = 0
    BY <1>1, <1>2, <1>8, <2>3
  <2> QED  BY <1>8, <2>4, EmptySeq
<1> QED  BY <1>7, <1>8, <1>9, <1>10 DEF NewlineIsLast, r

-----------------------------------------------------------------------------
(* Pipelines and results.  These are ResultBefore, PipelineStart and Wanted *)
(* of any commands c and results r, so that they can be compared before and *)
(* after a step.                                                            *)

LastResult(r, k) ==
    LET executed == {i \in DOMAIN r : i < k}
    IN IF executed = {} THEN "success"
       ELSE r[CHOOSE i \in executed : \A j \in executed : j <= i]

Starting(c, k, i) ==
    /\ i = 1 \/ c[i - 1].op # "pipe"
    /\ \A j \in i .. k - 1 : c[j].op = "pipe"

First(c, k) == CHOOSE i \in 1 .. k : Starting(c, k, i)

IsWanted(c, r, k) ==
    \/ First(c, k) = 1
    \/ c[First(c, k) - 1].op = "separator"
    \/ c[First(c, k) - 1].op = "and" /\ LastResult(r, First(c, k)) = "success"
    \/ c[First(c, k) - 1].op = "or" /\ LastResult(r, First(c, k)) = "failed"

LEMMA SameNames ==
    ASSUME NEW k
    PROVE  /\ ResultBefore(k) = LastResult(results, k)
           /\ ResultBefore(k)' = LastResult(results', k)
           /\ Wanted(k) <=> IsWanted(commands, results, k)
           /\ Wanted(k)' <=> IsWanted(commands', results', k)
<1>1. /\ ResultBefore(k) = LastResult(results, k)
      /\ ResultBefore(k)' = LastResult(results', k)
  BY DEF ResultBefore, LastResult
<1>2. PipelineStart(k) = First(commands, k)
  BY DEF PipelineStart, First, Starting
<1>3. PipelineStart(k)' = First(commands', k)
  BY DEF PipelineStart, First, Starting
<1>4. Wanted(k) <=> IsWanted(commands, results, k)
  BY <1>2 DEF Wanted, IsWanted, ResultBefore, LastResult
<1>5. Wanted(k)' <=> IsWanted(commands', results', k)
  BY <1>3 DEF Wanted, IsWanted, ResultBefore, LastResult
<1> QED  BY <1>1, <1>4, <1>5

\* A set of numbers with a bound has a greatest one.
LEMMA GreatestExists ==
    ASSUME NEW n \in Nat, NEW S \in SUBSET (0 .. n), S # {}
    PROVE  \E x \in S : \A y \in S : y <= x
<1> DEFINE T == {n - x : x \in S}
<1>1. T \in SUBSET Nat /\ T # {}
  <2>1. \A x \in S : n - x \in Nat
    OBVIOUS
  <2>2. PICK x : x \in S
    OBVIOUS
  <2> QED  BY <2>1, <2>2
<1>2. PICK z \in T : \A y \in T : z <= y
  BY <1>1, LeastExists
<1>3. PICK x \in S : z = n - x
  BY <1>2
<1>4. \A y \in S : n - x <= n - y
  BY <1>2, <1>3
<1> QED  BY <1>4

\* The result before k is that of the last command executed before it.
LEMMA LastResultIs ==
    ASSUME NEW r, NEW k \in Nat, DOMAIN r \subseteq Nat,
           NEW i \in DOMAIN r, i < k, \A j \in DOMAIN r : j < k => j <= i
    PROVE  LastResult(r, k) = r[i]
<1> DEFINE executed == {j \in DOMAIN r : j < k}
           last == CHOOSE x \in executed : \A j \in executed : j <= x
<1>1. i \in executed /\ \A j \in executed : j <= i
  OBVIOUS
<1>2. last \in executed /\ \A j \in executed : j <= last
  BY <1>1
<1>3. last <= i /\ i <= last /\ last \in Nat /\ i \in Nat
  BY <1>1, <1>2
<1> HIDE DEF last
<1>4. last = i
  BY <1>3
<1> QED  BY <1>1, <1>4 DEF LastResult, last

LEMMA NoResult ==
    ASSUME NEW r, NEW k, \A j \in DOMAIN r : ~(j < k)
    PROVE  LastResult(r, k) = "success"
BY DEF LastResult

\* It depends on the results before k only.
LEMMA SameLastResult ==
    ASSUME NEW r, NEW s, NEW k \in Nat, DOMAIN r \subseteq Nat, DOMAIN s \subseteq Nat,
           \A j \in Nat : j < k =>
                /\ j \in DOMAIN r <=> j \in DOMAIN s
                /\ j \in DOMAIN r => r[j] = s[j]
    PROVE  LastResult(r, k) = LastResult(s, k)
<1> DEFINE executed == {j \in DOMAIN r : j < k}
<1>1. CASE executed = {}
  <2>1. (\A j \in DOMAIN r : ~(j < k)) /\ (\A j \in DOMAIN s : ~(j < k))
    BY <1>1
  <2> QED  BY <2>1, NoResult
<1>2. CASE executed # {}
  <2>1. executed \in SUBSET (0 .. k)
    OBVIOUS
  <2>2. PICK i \in executed : \A j \in executed : j <= i
    <3> HIDE DEF executed
    <3> QED  BY <1>2, <2>1, GreatestExists
  <2>3. /\ i \in DOMAIN r /\ i < k /\ \A j \in DOMAIN r : j < k => j <= i
        /\ i \in DOMAIN s /\ \A j \in DOMAIN s : j < k => j <= i
        /\ r[i] = s[i]
    BY <2>2
  <2>4. LastResult(r, k) = r[i] /\ LastResult(s, k) = s[i]
    BY <2>3, LastResultIs
  <2> QED  BY <2>3, <2>4
<1> QED  BY <1>1, <1>2

\* A command is in one pipeline, and its pipeline starts somewhere.
LEMMA FirstIs ==
    ASSUME NEW c, NEW k \in Nat \ {0}
    PROVE  /\ First(c, k) \in 1 .. k
           /\ Starting(c, k, First(c, k))
           /\ \A i \in 1 .. k : Starting(c, k, i) => i = First(c, k)
<1> DEFINE S == {i \in 1 .. k : \A j \in i .. k - 1 : c[j].op = "pipe"}
<1>1. PICK i \in S : \A j \in S : i <= j
  <2>1. S \in SUBSET Nat /\ k \in 1 .. k /\ k .. k - 1 = {}
    OBVIOUS
  <2>2. k \in S
    BY <2>1
  <2> HIDE DEF S
  <2> QED  BY <2>1, <2>2, LeastExists
<1>2. i = 1 \/ c[i - 1].op # "pipe"
  <2>1. SUFFICES ASSUME i # 1, c[i - 1].op = "pipe" PROVE FALSE
    OBVIOUS
  <2>2. i - 1 \in S
    BY <1>1, <2>1
  <2> QED  BY <1>1, <2>2
<1>3. i \in 1 .. k /\ Starting(c, k, i)
  BY <1>1, <1>2 DEF Starting
<1>4. First(c, k) \in 1 .. k /\ Starting(c, k, First(c, k))
  <2> HIDE DEF S
  <2> QED  BY <1>3 DEF First
<1>5. ASSUME NEW x \in 1 .. k, NEW y \in 1 .. k, Starting(c, k, x), Starting(c, k, y), x < y
      PROVE  FALSE
  <2>1. y - 1 \in x .. k - 1 /\ y # 1
    BY <1>5
  <2>2. c[y - 1].op = "pipe"
    BY <1>5, <2>1 DEF Starting
  <2> QED  BY <1>5, <2>1, <2>2 DEF Starting
<1>6. ASSUME NEW x \in 1 .. k, Starting(c, k, x) PROVE x = First(c, k)
  BY <1>4, <1>5, <1>6
<1> QED  BY <1>4, <1>6

\* Behind a pipe a pipeline goes on, and behind another operator one starts.
LEMMA FirstStep ==
    ASSUME NEW c, NEW k \in Nat \ {0}
    PROVE  /\ First(c, 1) = 1
           /\ k > 1 /\ c[k - 1].op = "pipe" => First(c, k) = First(c, k - 1)
           /\ k > 1 /\ c[k - 1].op # "pipe" => First(c, k) = k
<1>1. First(c, 1) = 1
  BY FirstIs
<1>2. ASSUME k > 1, c[k - 1].op = "pipe" PROVE First(c, k) = First(c, k - 1)
  <2> DEFINE i == First(c, k - 1)
  <2>1. k - 1 \in Nat \ {0}
    BY <1>2
  <2>2. i \in 1 .. k - 1 /\ Starting(c, k - 1, i)
    BY <2>1, FirstIs
  <2> HIDE DEF i
  <2>3. i \in 1 .. k /\ Starting(c, k, i)
    BY <1>2, <2>2 DEF Starting
  <2> QED  BY <2>3, FirstIs DEF i
<1>3. ASSUME k > 1, c[k - 1].op # "pipe" PROVE First(c, k) = k
  <2>1. k \in 1 .. k /\ Starting(c, k, k)
    BY <1>3 DEF Starting
  <2> QED  BY <2>1, FirstIs
<1> QED  BY <1>1, <1>2, <1>3

\* A later result does not change whether a command was wanted.
LEMMA SameWanted ==
    ASSUME NEW c, NEW r, NEW s, NEW k \in Nat \ {0}, DOMAIN r \subseteq Nat, DOMAIN s \subseteq Nat,
           \A j \in Nat : j < k =>
                /\ j \in DOMAIN r <=> j \in DOMAIN s
                /\ j \in DOMAIN r => r[j] = s[j]
    PROVE  IsWanted(c, r, k) <=> IsWanted(c, s, k)
<1> DEFINE first == First(c, k)
<1>1. first \in Nat /\ first <= k
  BY FirstIs
<1> HIDE DEF first
<1>2. \A j \in Nat : j < first =>
         /\ j \in DOMAIN r <=> j \in DOMAIN s
         /\ j \in DOMAIN r => r[j] = s[j]
  BY <1>1
<1>3. LastResult(r, first) = LastResult(s, first)
  BY <1>1, <1>2, SameLastResult
<1> QED  BY <1>3 DEF IsWanted, first

-----------------------------------------------------------------------------
(* The inductive invariant.                                                 *)

\* Nothing is left of the line before.
FreshInv ==
    phase \in {"read", "parse"} =>
        /\ current = 1
        /\ pipes = << >> /\ results = << >>
        /\ previous_result = "success" /\ ~is_skipping

\* The terminator ends the last command only: the operators between commands are
\* those that sh_run knows.
ParseInv ==
    /\ NewlineIsLast(tokens)
    /\ \A k \in 1 .. Len(commands) :
          commands[k].op = "terminator" => k = Len(commands) /\ tokens = << >>
    /\ phase = "read" => commands = << >>

\* The pipe of a command is writable only while that command is waited for, and
\* previous_pipe_output is that of the command before current_command, if it has one.
PipeInv ==
    /\ phase # "wait" => child = NoChild
    /\ phase = "run" =>
         /\ \A k \in DOMAIN pipes : k < current /\ ~pipes[k].writable
         /\ current - 1 \in DOMAIN pipes => previous_pipe_output = current - 1
    /\ phase = "wait" =>
         /\ current \in DOMAIN pipes
         /\ \A k \in DOMAIN pipes : k <= current /\ (k < current => ~pipes[k].writable)
         /\ child.stdin # current
         /\ child.reads => child.stdin # 0
         /\ open > 3

\* previous_result is that of the last command executed, and is_skipping says of the
\* command before current_command that it was not executed.
ResultInv ==
    /\ phase \in {"run", "wait"} =>
         /\ \A k \in DOMAIN results : k < current
         /\ previous_result = ResultBefore(current)
    /\ phase = "run" => (is_skipping <=> current > 1 /\ current - 1 \notin DOMAIN results)
    /\ phase = "wait" => ~is_skipping /\ Wanted(current)

IInv ==
    /\ TypeOK
    /\ FreshInv
    /\ ParseInv
    /\ PipeInv
    /\ PipesConnectNeighbours
    /\ ResultInv
    /\ RunsWhatOperatorsAsk

-----------------------------------------------------------------------------
(* Types.                                                                   *)

Pipes == [content : 0 .. PipeCapacity, writable : BOOLEAN]
Children(readable) ==
    [stdin : {0} \cup readable, piped : BOOLEAN, reads : BOOLEAN,
     left : 0 .. MaxOutput, end : {"none"} \cup Results]

TextType ==
    /\ phase \in {"read", "parse", "run", "wait", "exited", "failed", "crashed"}
    /\ input \in Seq(TextChars)
    /\ line \in Seq(Tokens) /\ tokens \in Seq(Tokens)
    /\ commands \in Seq(Commands)

RunType ==
    /\ current \in 1 .. Len(commands) + 1
    /\ previous_result \in Results
    /\ is_skipping \in BOOLEAN
    /\ DOMAIN results \subseteq 1 .. Len(commands)
    /\ \A k \in DOMAIN results : results[k] \in Results

PipeType ==
    /\ previous_pipe_output \in {0} \cup DOMAIN pipes
    /\ DOMAIN pipes \subseteq 1 .. Len(commands)
    /\ \A k \in DOMAIN pipes : pipes[k] \in Pipes
    /\ child \in Children(DOMAIN pipes)
    /\ open \in 3 .. MaxOpen

LEMMA TypeParts ==
    /\ TypeOK <=> TextType /\ RunType /\ PipeType
    /\ TypeOK' <=> TextType' /\ RunType' /\ PipeType'
BY DEF TypeOK, TextType, RunType, PipeType, Pipes, Children, Commands

LEMMA SetPipeFacts ==
    ASSUME TypeOK, NEW k \in 1 .. Len(commands), NEW content \in 0 .. PipeCapacity,
           NEW writable \in BOOLEAN, SetPipe(k, content, writable)
    PROVE  /\ DOMAIN pipes' = DOMAIN pipes \cup {k}
           /\ DOMAIN pipes' \subseteq 1 .. Len(commands)
           /\ \A i \in DOMAIN pipes' : pipes'[i] \in Pipes
           /\ pipes'[k].writable <=> writable
           /\ \A i \in DOMAIN pipes : i # k => pipes'[i] = pipes[i]
<1> DEFINE new == [content |-> content, writable |-> writable]
<1>1. new \in Pipes /\ (new.writable <=> writable)
  BY DEF Pipes
<1> HIDE DEF new
<1>2. pipes' = [i \in DOMAIN pipes \cup {k} |-> IF i = k THEN new ELSE pipes[i]]
  BY DEF SetPipe, new
<1>3. DOMAIN pipes \subseteq 1 .. Len(commands) /\ \A i \in DOMAIN pipes : pipes[i] \in Pipes
  BY DEF TypeOK, Pipes
<1>4. \A i \in DOMAIN pipes' : pipes'[i] \in Pipes
  BY <1>1, <1>2, <1>3
<1> QED  BY <1>1, <1>2, <1>3, <1>4

LEMMA ReturnsFacts ==
    ASSUME TypeOK, current \in 1 .. Len(commands), NEW result \in Results, Returns(result)
    PROVE  /\ phase' = "run" /\ current' = current + 1 /\ previous_result' = result
           /\ DOMAIN results' = DOMAIN results \cup {current}
           /\ DOMAIN results' \subseteq 1 .. Len(commands)
           /\ \A k \in DOMAIN results' : results'[k] \in Results
           /\ results'[current] = result
           /\ \A k \in DOMAIN results : k # current => results'[k] = results[k]
<1> DEFINE r == results'
<1>1. r = [k \in DOMAIN results \cup {current} |-> IF k = current THEN result ELSE results[k]]
  BY DEF Returns
<1>2. /\ DOMAIN results \subseteq 1 .. Len(commands)
      /\ \A k \in DOMAIN results : results[k] \in Results
  BY DEF TypeOK
<1> HIDE DEF r
<1>3. /\ DOMAIN r = DOMAIN results \cup {current}
      /\ DOMAIN r \subseteq 1 .. Len(commands)
      /\ \A k \in DOMAIN r : r[k] \in Results
      /\ r[current] = result
      /\ \A k \in DOMAIN results : k # current => r[k] = results[k]
  BY <1>1, <1>2
<1> QED  BY <1>3 DEF Returns, r

LEMMA NoChildType == NoChild \in Children({}) /\ NoChild.stdin = 0
BY ShellAssumption DEF NoChild, Children, Results

LEMMA InitHolds ==
    ASSUME Init
    PROVE  IInv
<1>1. TypeOK
  <2>1. << >> \in Seq(Tokens) /\ << >> \in Seq(Commands) /\ Len(<< >>) = 0
    BY EmptySeq
  <2>2. input \in Seq(TextChars)
    BY ShellAssumption DEF Init
  <2>3. child \in Children(DOMAIN pipes)
    BY NoChildType DEF Init, Children
  <2>4. TextType
    BY <2>1, <2>2 DEF Init, TextType
  <2>5. RunType
    <3>1. current = 1 /\ Len(commands) = 0 /\ DOMAIN results = {}
      BY <2>1 DEF Init
    <3>2. current \in 1 .. Len(commands) + 1
      BY <3>1
    <3>3. previous_result \in Results /\ is_skipping \in BOOLEAN
      BY DEF Init, Results
    <3>4. /\ DOMAIN results \subseteq 1 .. Len(commands)
          /\ \A k \in DOMAIN results : results[k] \in Results
      BY <3>1
    <3> QED  BY <3>2, <3>3, <3>4 DEF RunType
  <2>6. PipeType
    BY <2>3, ShellAssumption DEF Init, PipeType
  <2> QED  BY <2>4, <2>5, <2>6, TypeParts
<1>2. FreshInv /\ ParseInv /\ PipeInv /\ PipesConnectNeighbours
  BY DEF Init, FreshInv, ParseInv, PipeInv, PipesConnectNeighbours, NewlineIsLast
<1>3. ResultInv /\ RunsWhatOperatorsAsk
  BY DEF Init, ResultInv, RunsWhatOperatorsAsk
<1> QED  BY <1>1, <1>2, <1>3 DEF IInv

\* A line is over.
LEMMA NextLineStep ==
    ASSUME IInv, phase \in {"parse", "run"}, NextLine("read")
    PROVE  IInv'
<1> USE DEF NextLine
<1>1. child = NoChild /\ phase' = "read"
  BY DEF IInv, PipeInv
<1>2. TypeOK'
  <2>1. << >> \in Seq(Tokens) /\ << >> \in Seq(Commands) /\ Len(<< >>) = 0
    BY EmptySeq
  <2>2. child' \in Children(DOMAIN pipes')
    BY <1>1, NoChildType DEF Children
  <2>3. TextType /\ PipeType
    BY TypeParts DEF IInv
  <2>4. TextType'
    BY <2>1, <2>3 DEF TextType
  <2>5. RunType'
    <3>1. current' = 1 /\ Len(commands') = 0 /\ DOMAIN results' = {}
      BY <2>1
    <3>2. current' \in 1 .. Len(commands') + 1
      BY <3>1
    <3>3. previous_result' \in Results /\ is_skipping' \in BOOLEAN
      BY DEF Results
    <3>4. DOMAIN results' \subseteq 1 .. Len(commands')
          /\ \A k \in DOMAIN results' : results'[k] \in Results
      BY <3>1
    <3> QED  BY <3>2, <3>3, <3>4 DEF RunType
  <2>6. PipeType'
    BY <2>2, <2>3 DEF PipeType
  <2> QED  BY <2>4, <2>5, <2>6, TypeParts
<1>3. FreshInv' /\ ParseInv' /\ PipeInv' /\ PipesConnectNeighbours'
  BY <1>1 DEF FreshInv, ParseInv, PipeInv, PipesConnectNeighbours, NewlineIsLast
<1>4. ResultInv' /\ RunsWhatOperatorsAsk'
  BY DEF ResultInv, RunsWhatOperatorsAsk
<1> QED  BY <1>2, <1>3, <1>4 DEF IInv

-----------------------------------------------------------------------------
(* Reading and parsing.                                                     *)

LEMMA SameTypes ==
    ASSUME TypeOK, UNCHANGED << runVars, child, open >>, TextType',
           Len(commands) \in Nat, Len(commands') \in Nat, Len(commands) <= Len(commands')
    PROVE  TypeOK'
<1>1. RunType /\ PipeType
  BY TypeParts
<1>2. RunType'
  BY <1>1 DEF RunType, runVars
<1>3. PipeType'
  BY <1>1 DEF PipeType, runVars
<1> QED  BY <1>2, <1>3, TypeParts

\* As long as nothing is run there is nothing to be wrong.
LEMMA NothingRun ==
    ASSUME IInv, phase \in {"read", "parse"}, phase' \in {"read", "parse", "crashed"},
           TypeOK', ParseInv', UNCHANGED << runVars, child, open >>
    PROVE  IInv'
<1> USE DEF runVars
<1>1. FreshInv' /\ PipeInv' /\ PipesConnectNeighbours'
  BY DEF IInv, FreshInv, PipeInv, PipesConnectNeighbours
<1>2. ResultInv'
  BY DEF ResultInv
<1>3. RunsWhatOperatorsAsk'
  BY DEF IInv, FreshInv, RunsWhatOperatorsAsk
<1> QED  BY <1>1, <1>2, <1>3 DEF IInv

LEMMA ReadLineStep ==
    ASSUME IInv, ReadLine
    PROVE  IInv'
<1>1. TextType /\ commands = << >> /\ phase = "read"
  BY TypeParts DEF IInv, ReadLine, ParseInv
<1>2. /\ input' \in Text /\ line' \in Seq(Tokens) /\ NewlineIsLast(line')
      /\ tokens' = line' /\ commands' = commands /\ phase' \in {"parse", "read"}
      /\ UNCHANGED << runVars, child, open >>
  <2>1. input \in Text
    BY <1>1 DEF TextType, Text
  <2> QED  BY <2>1, TokNextLineType DEF ReadLine
<1>3. TextType'
  BY <1>1, <1>2 DEF TextType, Text
<1>4. ParseInv'
  <2>1. Len(commands') = 0
    BY <1>1, <1>2
  <2>2. NewlineIsLast(tokens)'
    BY <1>2 DEF NewlineIsLast
  <2> QED  BY <1>1, <1>2, <2>1, <2>2 DEF ParseInv
<1>5. TypeOK'
  <2>1. Len(commands) \in Nat /\ Len(commands') \in Nat /\ Len(commands) <= Len(commands')
    BY <1>1, <1>2
  <2> QED  BY <1>2, <1>3, <2>1, SameTypes DEF IInv
<1> QED  BY <1>1, <1>2, <1>4, <1>5, NothingRun

LEMMA SkipTokenStep ==
    ASSUME IInv, SkipToken
    PROVE  IInv'
<1>1. TextType /\ phase = "parse" /\ tokens # << >> /\ NewlineIsLast(tokens)
  BY TypeParts DEF IInv, SkipToken, ParseInv
<1>2. tokens' = Tail(tokens) /\ UNCHANGED << input, phase, line, commands, runVars, child, open >>
  BY DEF SkipToken
<1> DEFINE rest == tokens'
<1>3. /\ rest \in Seq(Tokens) /\ Len(rest) = Len(tokens) - 1
      /\ \A i \in 1 .. Len(rest) : rest[i] = tokens[i + 1]
  BY <1>1, <1>2, HeadTailProperties DEF TextType
<1>4. TextType'
  BY <1>1, <1>2, <1>3 DEF TextType
<1>5. ParseInv'
  <2>1. Len(tokens) \in Nat /\ Len(rest) \in Nat
    BY <1>1, <1>3 DEF TextType
  <2> HIDE DEF rest
  <2>2. NewlineIsLast(rest)
    <3>1. ASSUME NEW i \in 1 .. Len(rest), rest[i] = "newline" PROVE i = Len(rest)
      <4>1. i + 1 \in 1 .. Len(tokens) /\ tokens[i + 1] = "newline"
        BY <1>3, <2>1, <3>1
      <4>2. i + 1 = Len(tokens)
        BY <1>1, <4>1 DEF NewlineIsLast
      <4> QED  BY <1>3, <2>1, <4>2
    <3> QED  BY <3>1 DEF NewlineIsLast
  <2>3. \A k \in 1 .. Len(commands) : commands[k].op # "terminator"
    BY <1>1 DEF IInv, ParseInv
  <2> QED  BY <1>1, <1>2, <2>2, <2>3 DEF ParseInv, rest, NewlineIsLast
<1>6. TypeOK'
  <2>1. Len(commands) \in Nat /\ commands' = commands
    BY <1>1, <1>2 DEF TextType
  <2> QED  BY <1>2, <1>4, <2>1, SameTypes DEF IInv
<1> QED  BY <1>1, <1>2, <1>5, <1>6, NothingRun

LEMMA TakeCommandStep ==
    ASSUME IInv, TakeCommand
    PROVE  IInv'
<1>1. TextType /\ phase = "parse" /\ tokens # << >> /\ NewlineIsLast(tokens)
  BY TypeParts DEF IInv, TakeCommand, ParseInv
<1> DEFINE c == commands'
           new == Command(tokens)
           rest == Behind(tokens)
<1>2. /\ c = Append(commands, new) /\ tokens' = rest
      /\ UNCHANGED << input, phase, line, runVars, child, open >>
  BY DEF TakeCommand
<1>3. /\ new \in Commands /\ rest \in Seq(Tokens) /\ NewlineIsLast(rest)
      /\ new.op = "terminator" => rest = << >>
  BY <1>1, CommandType DEF TakeCommand, TextType
<1> HIDE DEF c, new, rest
<1>4. /\ commands \in Seq(Commands) /\ Len(commands) \in Nat
      /\ c \in Seq(Commands) /\ Len(c) = Len(commands) + 1
      /\ \A k \in 1 .. Len(commands) : c[k] = commands[k]
      /\ c[Len(commands) + 1] = new
  BY <1>1, <1>2, <1>3, AppendProperties DEF TextType
<1>5. TextType'
  BY <1>1, <1>2, <1>3, <1>4 DEF TextType, c
<1>6. ParseInv'
  <2>1. \A k \in 1 .. Len(commands) : commands[k].op # "terminator"
    BY <1>1 DEF IInv, ParseInv
  <2>2. ASSUME NEW k \in 1 .. Len(c), c[k].op = "terminator"
        PROVE  k = Len(c) /\ rest = << >>
    <3>1. k \notin 1 .. Len(commands)
      BY <1>4, <2>1, <2>2
    <3>2. k = Len(commands) + 1
      BY <1>4, <3>1
    <3> QED  BY <1>3, <1>4, <2>2, <3>2
  <2>3. phase' = "parse" /\ NewlineIsLast(tokens)'
    BY <1>1, <1>2, <1>3 DEF NewlineIsLast
  <2> QED  BY <1>2, <2>2, <2>3 DEF ParseInv, c
<1>7. TypeOK'
  <2>1. Len(commands) \in Nat /\ Len(commands') \in Nat /\ Len(commands) <= Len(commands')
    BY <1>4 DEF c
  <2> QED  BY <1>2, <1>5, <2>1, SameTypes DEF IInv
<1> QED  BY <1>1, <1>2, <1>6, <1>7, NothingRun

LEMMA NoOperatorStep ==
    ASSUME IInv, NoOperator
    PROVE  IInv'
<1>1. TextType /\ phase = "parse" /\ ParseInv
  BY TypeParts DEF IInv, NoOperator
<1>2. phase' = "crashed" /\ UNCHANGED << input, parserVars, runVars, child, open >>
  BY DEF NoOperator
<1>3. TextType'
  BY <1>1, <1>2 DEF TextType, parserVars
<1>4. ParseInv'
  BY <1>1, <1>2 DEF ParseInv, parserVars, NewlineIsLast
<1>5. TypeOK'
  <2>1. Len(commands) \in Nat /\ commands' = commands
    BY <1>1, <1>2 DEF TextType, parserVars
  <2> QED  BY <1>2, <1>3, <2>1, SameTypes DEF IInv
<1> QED  BY <1>1, <1>2, <1>4, <1>5, NothingRun

LEMMA RunCommandsStep ==
    ASSUME IInv, RunCommands
    PROVE  IInv'
<1> USE DEF runVars, parserVars
<1>1. TextType /\ phase = "parse" /\ ParseInv /\ FreshInv
  BY TypeParts DEF IInv, RunCommands
<1>2. phase' = "run" /\ UNCHANGED << input, parserVars, runVars, child, open >>
  BY DEF RunCommands
<1>3. TypeOK'
  <2>1. TextType'
    BY <1>1, <1>2 DEF TextType
  <2>2. Len(commands) \in Nat /\ commands' = commands
    BY <1>1, <1>2 DEF TextType
  <2> QED  BY <1>2, <2>1, <2>2, SameTypes DEF IInv
<1>4. current = 1 /\ DOMAIN pipes = {} /\ DOMAIN results = {}
      /\ previous_result = "success" /\ ~is_skipping
  BY <1>1 DEF FreshInv
<1>5. FreshInv' /\ PipesConnectNeighbours'
  BY <1>2 DEF FreshInv, PipesConnectNeighbours
<1>6. ParseInv'
  BY <1>1, <1>2 DEF ParseInv, NewlineIsLast
<1>7. PipeInv'
  BY <1>1, <1>2, <1>4 DEF IInv, PipeInv
<1>8. ResultInv'
  <2>1. LastResult(results, current) = "success"
    BY <1>4, NoResult
  <2>2. ResultBefore(current)' = "success"
    BY <1>2, <2>1 DEF ResultBefore, LastResult
  <2> QED  BY <1>2, <1>4, <2>2 DEF ResultInv
<1>9. RunsWhatOperatorsAsk'
  BY <1>2, <1>4 DEF RunsWhatOperatorsAsk
<1> QED  BY <1>3, <1>5, <1>6, <1>7, <1>8, <1>9 DEF IInv

-----------------------------------------------------------------------------
(* Running.                                                                 *)

LEMMA SameRuns ==
    ASSUME RunsWhatOperatorsAsk, UNCHANGED << current, commands, results >>
    PROVE  RunsWhatOperatorsAsk'
<1>1. ASSUME NEW k \in 1 .. current' - 1
      PROVE  k \in DOMAIN results' <=> Wanted(k)'
  <2>1. Wanted(k)' <=> Wanted(k)
    BY SameNames
  <2> QED  BY <2>1 DEF RunsWhatOperatorsAsk
<1> QED  BY <1>1 DEF RunsWhatOperatorsAsk

\* sh_run ends.
LEMMA EndedStep ==
    ASSUME IInv, phase = "run", phase' \in {"exited", "failed"}, is_skipping' = FALSE,
           UNCHANGED << input, parserVars, current, previous_result, previous_pipe_output,
                        pipes, results, child, open >>
    PROVE  IInv'
<1> USE DEF parserVars
<1>1. TextType /\ RunType /\ PipeType
  BY TypeParts DEF IInv
<1>2. TextType' /\ RunType' /\ PipeType'
  BY <1>1 DEF TextType, RunType, PipeType
<1>3. FreshInv' /\ PipesConnectNeighbours' /\ ResultInv'
  BY DEF FreshInv, PipesConnectNeighbours, ResultInv
<1>4. ParseInv' /\ PipeInv'
  BY DEF IInv, ParseInv, PipeInv, NewlineIsLast
<1>5. RunsWhatOperatorsAsk'
  BY SameRuns DEF IInv
<1> QED  BY <1>2, <1>3, <1>4, <1>5, TypeParts DEF IInv

\* Only the operators that cannot stand between two commands are not there.
LEMMA OperatorBefore ==
    ASSUME IInv, current \in 2 .. Len(commands)
    PROVE  /\ previous_op = commands[current - 1].op
           /\ previous_op \in {"separator", "pipe", "and", "or"}
<1>1. commands \in Seq(Commands) /\ Len(commands) \in Nat
  BY TypeParts DEF IInv, TextType
<1>2. current - 1 \in 1 .. Len(commands) /\ current - 1 # Len(commands) /\ current # 1
  BY <1>1
<1>3. previous_op = commands[current - 1].op
  BY <1>2 DEF previous_op
<1>4. commands[current - 1].op \in Ops
  <2>1. commands[current - 1] \in Commands
    BY <1>1, <1>2
  <2> QED  BY <2>1 DEF Commands
<1>5. commands[current - 1].op # "terminator"
  BY <1>2 DEF IInv, ParseInv
<1> QED  BY <1>3, <1>4, <1>5 DEF Ops

\* The test of execute_command, from the operator, the last result and is_skipping,
\* is what the operators of the line ask for.
LEMMA TurnIsWanted ==
    ASSUME IInv, phase = "run", current <= Len(commands)
    PROVE  Wanted(current) <=> ~Skipped
<1>1. /\ current \in Nat \ {0} /\ Len(commands) \in Nat
      /\ previous_result \in Results /\ is_skipping \in BOOLEAN
  BY TypeParts DEF IInv, TextType, RunType
<1>2. /\ previous_result = LastResult(results, current)
      /\ is_skipping <=> current > 1 /\ current - 1 \notin DOMAIN results
  BY SameNames DEF IInv, ResultInv
<1>3. Wanted(current) <=> IsWanted(commands, results, current)
  BY SameNames
<1>4. CASE current = 1
  <2>1. IsWanted(commands, results, current)
    BY <1>4, FirstStep DEF IsWanted
  <2>2. ~Skipped
    BY <1>2, <1>4 DEF Skipped, previous_op
  <2> QED  BY <1>3, <2>1, <2>2
<1>5. CASE current > 1
  <2> DEFINE op == commands[current - 1].op
  <2>1. current \in 2 .. Len(commands)
    BY <1>1, <1>5
  <2>2. previous_op = op /\ op \in {"separator", "pipe", "and", "or"}
    BY <2>1, OperatorBefore
  <2>3. CASE op = "pipe"
    <3>1. First(commands, current) = First(commands, current - 1)
      BY <1>1, <1>5, <2>3, FirstStep
    <3>2. IsWanted(commands, results, current) <=> Wanted(current - 1)
      BY <3>1, SameNames DEF IsWanted
    <3>3. Wanted(current - 1) <=> current - 1 \in DOMAIN results
      BY <1>1, <1>5 DEF IInv, RunsWhatOperatorsAsk
    <3>4. Skipped <=> is_skipping
      BY <2>2, <2>3 DEF Skipped, IsSkippedOp
    <3> QED  BY <1>2, <1>3, <1>5, <3>2, <3>3, <3>4
  <2>4. CASE op # "pipe"
    <3>1. First(commands, current) = current
      BY <1>1, <1>5, <2>4, FirstStep
    <3>2. IsWanted(commands, results, current) <=>
            \/ op = "separator"
            \/ op = "and" /\ previous_result = "success"
            \/ op = "or" /\ previous_result = "failed"
      BY <1>2, <1>5, <3>1 DEF IsWanted
    <3>3. Skipped <=>
            \/ op = "and" /\ previous_result = "failed"
            \/ op = "or" /\ previous_result = "success"
      BY <2>2, <2>4 DEF Skipped, IsSkippedOp
    <3> QED  BY <1>1, <1>3, <2>2, <2>4, <3>2, <3>3 DEF Results
  <2> QED  BY <2>3, <2>4
<1> QED  BY <1>1, <1>4, <1>5

\* Another command is decided on: those before it keep their results.
LEMMA TurnIsOver ==
    ASSUME IInv, phase \in {"run", "wait"}, current \in 1 .. Len(commands),
           commands' = commands, current' = current + 1,
           DOMAIN results' \subseteq DOMAIN results \cup {current},
           DOMAIN results \subseteq DOMAIN results',
           \A k \in DOMAIN results : k # current => results'[k] = results[k],
           current \in DOMAIN results' <=> Wanted(current)
    PROVE  /\ RunsWhatOperatorsAsk'
           /\ \A k \in DOMAIN results' : k < current'
<1> DEFINE r == results'
<1>1. current \in Nat \ {0} /\ DOMAIN results \subseteq Nat
      /\ \A k \in DOMAIN results : k < current
  BY TypeParts DEF IInv, TextType, RunType, ResultInv
<1> HIDE DEF r
<1>2. DOMAIN r \subseteq Nat
  BY <1>1 DEF r
<1>3. ASSUME NEW k \in 1 .. current PROVE k \in DOMAIN r <=> Wanted(k)'
  <2>1. \A j \in Nat : j < k =>
            /\ j \in DOMAIN results <=> j \in DOMAIN r
            /\ j \in DOMAIN results => results[j] = r[j]
    BY <1>1 DEF r
  <2>2. IsWanted(commands, results, k) <=> IsWanted(commands, r, k)
    BY <1>1, <1>2, <2>1, SameWanted
  <2>3. Wanted(k)' <=> IsWanted(commands, r, k)
    BY SameNames DEF r
  <2>4. Wanted(k)' <=> Wanted(k)
    BY <2>2, <2>3, SameNames
  <2>5. k < current => (k \in DOMAIN results <=> Wanted(k))
    BY <1>1 DEF IInv, RunsWhatOperatorsAsk
  <2> QED  BY <1>1, <2>4, <2>5 DEF r
<1>4. RunsWhatOperatorsAsk'
  <2>1. ASSUME NEW k \in 1 .. current' - 1 PROVE k \in DOMAIN results' <=> Wanted(k)'
    BY <1>1, <1>3, <2>1 DEF r
  <2> QED  BY <2>1 DEF RunsWhatOperatorsAsk
<1>5. \A k \in DOMAIN r : k < current'
  BY <1>1 DEF r
<1> QED  BY <1>4, <1>5 DEF r

LEMMA SkipCommandStep ==
    ASSUME IInv, SkipCommand
    PROVE  IInv'
<1> USE DEF parserVars
<1>1. /\ phase = "run" /\ phase' = "run" /\ current <= Len(commands) /\ Skipped
      /\ is_skipping' = TRUE /\ current' = current + 1
      /\ UNCHANGED << input, parserVars, previous_result, previous_pipe_output,
                      pipes, results, child, open >>
  BY DEF SkipCommand
<1>2. TextType /\ RunType /\ PipeType
  BY TypeParts DEF IInv
<1>3. Len(commands) \in Nat /\ current \in 1 .. Len(commands)
  BY <1>1, <1>2 DEF TextType, RunType
<1>4. TextType' /\ RunType' /\ PipeType'
  <2>1. TextType' /\ PipeType'
    BY <1>1, <1>2 DEF TextType, PipeType
  <2>2. current' \in 1 .. Len(commands') + 1
    BY <1>1, <1>3
  <2>3. RunType'
    BY <1>1, <1>2, <2>2 DEF RunType
  <2> QED  BY <2>1, <2>3
<1>5. current \notin DOMAIN results /\ current \notin DOMAIN pipes
  BY <1>1, <1>3 DEF IInv, ResultInv, PipeInv
<1>6. RunsWhatOperatorsAsk' /\ \A k \in DOMAIN results' : k < current'
  <2>1. ~Wanted(current)
    BY <1>1, TurnIsWanted
  <2>2. current \in DOMAIN results' <=> Wanted(current)
    BY <1>1, <1>5, <2>1
  <2>3. /\ commands' = commands
        /\ DOMAIN results' \subseteq DOMAIN results \cup {current}
        /\ DOMAIN results \subseteq DOMAIN results'
        /\ \A k \in DOMAIN results : k # current => results'[k] = results[k]
    BY <1>1
  <2> QED  BY <1>1, <1>3, <2>2, <2>3, TurnIsOver
<1>7. ResultInv'
  <2>1. /\ \A j \in Nat : j < current => (j \in DOMAIN results <=> j \in DOMAIN results)
        /\ DOMAIN results \subseteq Nat
        /\ \A k \in DOMAIN results : k < current
        /\ previous_result = LastResult(results, current)
    BY <1>1, <1>2, SameNames DEF RunType, IInv, ResultInv
  <2>2. LastResult(results, current + 1) = LastResult(results, current)
    <3>1. {i \in DOMAIN results : i < current + 1} = {i \in DOMAIN results : i < current}
      BY <1>3, <2>1
    <3> DEFINE Of(executed) ==
                 IF executed = {} THEN "success"
                 ELSE results[CHOOSE i \in executed : \A j \in executed : j <= i]
    <3>2. /\ LastResult(results, current + 1) = Of({i \in DOMAIN results : i < current + 1})
          /\ LastResult(results, current) = Of({i \in DOMAIN results : i < current})
      BY DEF LastResult
    <3> HIDE DEF Of
    <3> QED  BY <3>1, <3>2
  <2>3. ResultBefore(current)' = LastResult(results, current + 1)
    BY <1>1 DEF ResultBefore, LastResult
  <2> QED  BY <1>1, <1>3, <1>5, <1>6, <2>1, <2>2, <2>3 DEF ResultInv
<1>8. PipeInv'
  <2>1. \A k \in DOMAIN pipes : k < current /\ ~pipes[k].writable
    BY <1>1 DEF IInv, PipeInv
  <2>2. current' - 1 \notin DOMAIN pipes'
    BY <1>1, <1>3, <1>5
  <2>3. \A k \in DOMAIN pipes' : k < current' /\ ~pipes'[k].writable
    BY <1>1, <1>2, <1>3, <2>1 DEF PipeType
  <2> QED  BY <1>1, <2>2, <2>3 DEF IInv, PipeInv
<1>9. FreshInv' /\ PipesConnectNeighbours' /\ ParseInv'
  BY <1>1 DEF IInv, FreshInv, PipesConnectNeighbours, ParseInv, NewlineIsLast
<1> QED  BY <1>4, <1>6, <1>7, <1>8, <1>9, TypeParts DEF IInv

\* A command that was executed has a result: fork failed, or its child has ended.
LEMMA ReturnsStep ==
    ASSUME IInv, phase \in {"run", "wait"}, current \in 1 .. Len(commands), Wanted(current),
           NEW result \in Results, Returns(result), is_skipping' = FALSE,
           UNCHANGED << input, parserVars >>
    PROVE  /\ TextType' /\ RunType'
           /\ FreshInv' /\ ParseInv' /\ PipesConnectNeighbours'
           /\ ResultInv' /\ RunsWhatOperatorsAsk'
<1> USE DEF parserVars
<1> DEFINE r == results'
<1>1. TextType /\ RunType
  BY TypeParts DEF IInv
<1>2. /\ phase' = "run" /\ current' = current + 1 /\ previous_result' = result
      /\ DOMAIN r = DOMAIN results \cup {current}
      /\ DOMAIN r \subseteq 1 .. Len(commands)
      /\ \A k \in DOMAIN r : r[k] \in Results
      /\ r[current] = result
      /\ \A k \in DOMAIN results : k # current => r[k] = results[k]
  BY ReturnsFacts DEF IInv
<1>3. Len(commands) \in Nat /\ commands' = commands
  BY <1>1 DEF TextType
<1>4. TextType'
  BY <1>1, <1>2 DEF TextType
<1>5. RunType'
  <2>1. current' \in 1 .. Len(commands') + 1
    BY <1>2, <1>3
  <2> HIDE DEF r
  <2> QED  BY <1>2, <1>3, <2>1 DEF RunType, r
<1>6. RunsWhatOperatorsAsk' /\ \A k \in DOMAIN r : k < current'
  <2>1. current \in DOMAIN r <=> Wanted(current)
    BY <1>2
  <2> QED  BY <1>2, <1>3, <2>1, TurnIsOver
<1>7. ResultInv'
  <2> HIDE DEF r
  <2>1. DOMAIN r \subseteq Nat /\ current + 1 \in Nat /\ current \in DOMAIN r
        /\ \A j \in DOMAIN r : j < current + 1 => j <= current
    BY <1>2, <1>3
  <2>2. LastResult(r, current + 1) = r[current]
    BY <2>1, LastResultIs
  <2>3. ResultBefore(current)' = LastResult(r, current + 1)
    BY <1>2 DEF ResultBefore, LastResult, r
  <2>4. previous_result' = ResultBefore(current)'
    BY <1>2, <2>2, <2>3
  <2>5. current' - 1 = current
    BY <1>3, <1>2
  <2> QED  BY <1>2, <1>6, <2>1, <2>4, <2>5 DEF ResultInv, r
<1>8. FreshInv' /\ PipesConnectNeighbours' /\ ParseInv'
  BY <1>2, <1>3 DEF IInv, FreshInv, PipesConnectNeighbours, ParseInv, NewlineIsLast
<1> QED  BY <1>4, <1>5, <1>6, <1>7, <1>8

LEMMA ForkFailsStep ==
    ASSUME IInv, ForkFails
    PROVE  IInv'
<1>1. /\ phase = "run" /\ current <= Len(commands) /\ ~Skipped /\ is_skipping' = FALSE
      /\ open + 2 <= MaxOpen /\ open' = open + 2 /\ Returns("failed")
      /\ UNCHANGED << input, parserVars, previous_pipe_output, pipes, child >>
  BY DEF ForkFails, Executing
<1>2. TextType /\ RunType /\ PipeType
  BY TypeParts DEF IInv
<1>3. Len(commands) \in Nat /\ current \in 1 .. Len(commands)
  BY <1>1, <1>2 DEF TextType, RunType
<1>4. Wanted(current)
  BY <1>1, TurnIsWanted
<1>5. /\ TextType' /\ RunType'
      /\ FreshInv' /\ ParseInv' /\ PipesConnectNeighbours'
      /\ ResultInv' /\ RunsWhatOperatorsAsk'
  BY <1>1, <1>3, <1>4, ReturnsStep DEF Results
<1>6. PipeType'
  <2>1. open' \in 3 .. MaxOpen
    BY <1>1, <1>2, ShellAssumption DEF PipeType
  <2>2. commands' = commands
    BY <1>1 DEF parserVars
  <2> QED  BY <1>1, <1>2, <2>1, <2>2 DEF PipeType
<1>7. PipeInv'
  <2>1. current' = current + 1 /\ phase' = "run"
    BY <1>1 DEF Returns
  <2>2. (\A k \in DOMAIN pipes : k < current /\ ~pipes[k].writable) /\ child = NoChild
    BY <1>1 DEF IInv, PipeInv
  <2>3. current' - 1 \notin DOMAIN pipes'
    BY <1>1, <1>3, <2>1, <2>2
  <2>4. \A k \in DOMAIN pipes' : k < current' /\ ~pipes'[k].writable
    BY <1>1, <1>2, <1>3, <2>1, <2>2 DEF PipeType
  <2> QED  BY <1>1, <2>1, <2>2, <2>3, <2>4 DEF PipeInv
<1> QED  BY <1>5, <1>6, <1>7, TypeParts DEF IInv

\* The pipe that is read is the one whose last writer has just ended.
LEMMA ForkStep ==
    ASSUME IInv, Fork
    PROVE  IInv'
<1> USE DEF parserVars
<1> DEFINE stdin == IF previous_op = "pipe" THEN previous_pipe_output ELSE 0
           forPipe == commands[current].op = "pipe"
<1>1. /\ phase = "run" /\ current <= Len(commands) /\ ~Skipped /\ is_skipping' = FALSE
      /\ open + 2 <= MaxOpen /\ open' = open + 2 /\ SetPipe(current, 0, TRUE)
      /\ child' \in [stdin : {stdin}, piped : {forPipe},
                     reads : IF stdin = 0 THEN {FALSE} ELSE BOOLEAN,
                     left : IF forPipe THEN 0 .. MaxOutput ELSE {0}, end : {"none"}]
      /\ phase' = "wait"
      /\ UNCHANGED << input, parserVars, current, previous_result, previous_pipe_output, results >>
  BY DEF Fork, Executing
<1>2. TextType /\ RunType /\ PipeType
  BY TypeParts DEF IInv
<1>3. Len(commands) \in Nat /\ current \in 1 .. Len(commands)
  BY <1>1, <1>2 DEF TextType, RunType
<1>4. Wanted(current)
  BY <1>1, TurnIsWanted
<1>5. /\ \A k \in DOMAIN pipes : k < current /\ ~pipes[k].writable
      /\ current - 1 \in DOMAIN pipes => previous_pipe_output = current - 1
      /\ current \notin DOMAIN pipes
  BY <1>1, <1>3 DEF IInv, PipeInv
<1>6. /\ DOMAIN pipes' = DOMAIN pipes \cup {current}
      /\ DOMAIN pipes' \subseteq 1 .. Len(commands)
      /\ \A i \in DOMAIN pipes' : pipes'[i] \in Pipes
      /\ \A i \in DOMAIN pipes : i # current => pipes'[i] = pipes[i]
  <2>1. 0 \in 0 .. PipeCapacity /\ TRUE \in BOOLEAN
    BY ShellAssumption
  <2>2. TypeOK
    BY DEF IInv
  <2> QED  BY <1>1, <1>3, <2>1, <2>2, SetPipeFacts
<1>7. stdin \in {0} \cup DOMAIN pipes
  BY <1>2 DEF PipeType
<1> DEFINE new == child'
<1>8. /\ new.stdin = stdin /\ (new.reads => stdin # 0)
      /\ new \in Children(DOMAIN pipes')
  <2> HIDE DEF stdin, forPipe, new
  <2>1. new \in [stdin : {stdin}, piped : {forPipe},
                 reads : IF stdin = 0 THEN {FALSE} ELSE BOOLEAN,
                 left : IF forPipe THEN 0 .. MaxOutput ELSE {0}, end : {"none"}]
    BY <1>1 DEF new
  <2>2. new.stdin = stdin /\ (new.reads => stdin # 0)
    BY <2>1
  <2> DEFINE answers == IF stdin = 0 THEN {FALSE} ELSE BOOLEAN
             amounts == IF forPipe THEN 0 .. MaxOutput ELSE {0}
  <2>3. /\ forPipe \in BOOLEAN /\ answers \subseteq BOOLEAN /\ amounts \subseteq 0 .. MaxOutput
        /\ {stdin} \subseteq {0} \cup DOMAIN pipes'
        /\ {"none"} \subseteq {"none"} \cup Results
    <3>1. forPipe \in BOOLEAN
      BY DEF forPipe
    <3>2. answers \subseteq BOOLEAN
      OBVIOUS
    <3>3. amounts \subseteq 0 .. MaxOutput
      BY ShellAssumption
    <3>4. {stdin} \subseteq {0} \cup DOMAIN pipes'
      BY <1>6, <1>7
    <3> QED  BY <3>1, <3>2, <3>3, <3>4
  <2>4. new \in [stdin : {stdin}, piped : {forPipe}, reads : answers, left : amounts,
                 end : {"none"}]
    BY <2>1
  <2> HIDE DEF answers, amounts
  <2>5. new \in Children(DOMAIN pipes')
    BY <2>3, <2>4 DEF Children
  <2> QED  BY <2>2, <2>5
<1> HIDE DEF new
<1>9. TextType' /\ RunType' /\ PipeType'
  <2>1. TextType' /\ RunType'
    BY <1>1, <1>2 DEF TextType, RunType
  <2>2. open' \in 3 .. MaxOpen
    BY <1>1, <1>2, ShellAssumption DEF PipeType
  <2>3. previous_pipe_output' \in {0} \cup DOMAIN pipes'
    BY <1>1, <1>2, <1>6 DEF PipeType
  <2>4. commands' = commands
    BY <1>1
  <2>5. PipeType'
    BY <1>6, <1>8, <2>2, <2>3, <2>4 DEF PipeType, new
  <2> QED  BY <2>1, <2>5
<1>10. PipeInv'
  <2>1. stdin # current
    BY <1>2, <1>3, <1>5, <1>7
  <2>2. \A k \in DOMAIN pipes' : k <= current /\ (k < current => ~pipes'[k].writable)
    <3>1. ASSUME NEW k \in DOMAIN pipes' PROVE k <= current /\ (k < current => ~pipes'[k].writable)
      BY <1>2, <1>3, <1>5, <1>6 DEF PipeType
    <3> QED  BY <3>1
  <2>3. open' > 3
    BY <1>1, <1>2, ShellAssumption DEF PipeType
  <2> HIDE DEF stdin
  <2> QED  BY <1>1, <1>6, <1>8, <2>1, <2>2, <2>3 DEF PipeInv, new
<1>11. PipesConnectNeighbours'
  <2>1. ASSUME previous_op' = "pipe", current' - 1 \in DOMAIN pipes'
        PROVE  child'.stdin = current' - 1 /\ ~pipes'[current' - 1].writable
    <3>1. previous_op' = previous_op
      BY <1>1 DEF previous_op
    <3>2. current - 1 \in DOMAIN pipes /\ current - 1 # current
      BY <1>1, <1>3, <1>6, <2>1
    <3>3. stdin = current - 1
      BY <1>5, <2>1, <3>1, <3>2
    <3>4. ~pipes'[current - 1].writable
      BY <1>5, <1>6, <3>2
    <3> HIDE DEF stdin
    <3> QED  BY <1>1, <1>8, <3>3, <3>4 DEF new
  <2> QED  BY <2>1 DEF PipesConnectNeighbours
<1>12. ResultInv' /\ RunsWhatOperatorsAsk'
  <2>1. RunsWhatOperatorsAsk'
    BY <1>1, SameRuns DEF IInv
  <2>2. Wanted(current)'
    <3>1. Wanted(current)' <=> IsWanted(commands', results', current')
      BY DEF Wanted, IsWanted, PipelineStart, First, Starting, ResultBefore, LastResult
    <3> QED  BY <1>1, <1>4, <3>1, SameNames
  <2>3. previous_result' = ResultBefore(current)'
    BY <1>1 DEF IInv, ResultInv, ResultBefore
  <2>4. \A k \in DOMAIN results' : k < current'
    BY <1>1 DEF IInv, ResultInv
  <2> QED  BY <1>1, <2>1, <2>2, <2>3, <2>4 DEF ResultInv
<1>13. FreshInv' /\ ParseInv'
  BY <1>1 DEF IInv, FreshInv, ParseInv, NewlineIsLast
<1> QED  BY <1>9, <1>10, <1>11, <1>12, <1>13, TypeParts DEF IInv

LEMMA WaitStep ==
    ASSUME IInv, Wait
    PROVE  IInv'
<1>1. /\ phase = "wait" /\ child.end # "none"
      /\ SetPipe(current, pipes[current].content, FALSE)
      /\ open' = open - 1 /\ previous_pipe_output' = current
      /\ Returns(child.end) /\ child' = NoChild
      /\ UNCHANGED << input, parserVars, is_skipping >>
  BY DEF Wait
<1>2. TextType /\ RunType /\ PipeType
  BY TypeParts DEF IInv
<1>3. /\ current \in DOMAIN pipes
      /\ \A k \in DOMAIN pipes : k <= current /\ (k < current => ~pipes[k].writable)
      /\ open > 3
  BY <1>1 DEF IInv, PipeInv
<1>4. Len(commands) \in Nat /\ current \in 1 .. Len(commands)
  BY <1>2, <1>3 DEF TextType, PipeType
<1>5. child.end \in Results
  BY <1>1, <1>2 DEF PipeType, Children
<1>6. Wanted(current) /\ is_skipping' = FALSE
  BY <1>1, <1>2 DEF IInv, ResultInv, RunType
<1>7. /\ TextType' /\ RunType'
      /\ FreshInv' /\ ParseInv' /\ PipesConnectNeighbours'
      /\ ResultInv' /\ RunsWhatOperatorsAsk'
  BY <1>1, <1>4, <1>5, <1>6, ReturnsStep
<1>8. /\ DOMAIN pipes' = DOMAIN pipes
      /\ \A i \in DOMAIN pipes' : pipes'[i] \in Pipes
      /\ ~pipes'[current].writable
      /\ \A i \in DOMAIN pipes : i # current => pipes'[i] = pipes[i]
  <2>1. pipes[current].content \in 0 .. PipeCapacity /\ FALSE \in BOOLEAN
    BY <1>2, <1>3 DEF PipeType, Pipes
  <2>2. TypeOK
    BY DEF IInv
  <2>3. /\ DOMAIN pipes' = DOMAIN pipes \cup {current}
        /\ \A i \in DOMAIN pipes' : pipes'[i] \in Pipes
        /\ pipes'[current].writable <=> FALSE
        /\ \A i \in DOMAIN pipes : i # current => pipes'[i] = pipes[i]
    BY <1>1, <1>4, <2>1, <2>2, SetPipeFacts
  <2> QED  BY <1>3, <2>3
<1>9. PipeType'
  <2>1. open' \in 3 .. MaxOpen
    BY <1>1, <1>2, <1>3, ShellAssumption DEF PipeType
  <2>2. commands' = commands
    BY <1>1 DEF parserVars
  <2>3. child' \in Children(DOMAIN pipes')
    BY <1>1, NoChildType DEF Children
  <2>4. previous_pipe_output' \in {0} \cup DOMAIN pipes'
    BY <1>1, <1>3, <1>8
  <2> QED  BY <1>2, <1>8, <2>1, <2>2, <2>3, <2>4 DEF PipeType
<1>10. PipeInv'
  <2>1. phase' = "run" /\ current' = current + 1 /\ current' - 1 = current
    BY <1>1, <1>4 DEF Returns
  <2>2. ASSUME NEW k \in DOMAIN pipes' PROVE k < current' /\ ~pipes'[k].writable
    <3>1. k \in DOMAIN pipes /\ k \in Nat /\ k <= current
      BY <1>2, <1>3, <1>8 DEF PipeType
    <3>2. CASE k = current
      BY <1>4, <1>8, <2>1, <3>2
    <3>3. CASE k # current
      BY <1>3, <1>4, <1>8, <2>1, <3>1, <3>3
    <3> QED  BY <3>2, <3>3
  <2> QED  BY <1>1, <2>1, <2>2 DEF PipeInv
<1> QED  BY <1>7, <1>9, <1>10, TypeParts DEF IInv

-----------------------------------------------------------------------------
(* The child.                                                               *)

\* While the shell waits a child changes contents and itself only.
LEMMA ChildActs ==
    ASSUME IInv, phase = "wait",
           UNCHANGED << input, phase, parserVars, current, previous_result, is_skipping,
                        previous_pipe_output, results, open >>,
           DOMAIN pipes' = DOMAIN pipes,
           \A i \in DOMAIN pipes : pipes'[i] \in Pipes
                                 /\ (pipes'[i].writable => pipes[i].writable \/ i = current),
           child' \in Children(DOMAIN pipes'),
           child'.stdin = child.stdin, child'.reads <=> child.reads
    PROVE  IInv'
<1> USE DEF parserVars
<1>1. TextType /\ RunType /\ PipeType
  BY TypeParts DEF IInv
<1>2. TextType' /\ RunType' /\ PipeType'
  BY <1>1 DEF TextType, RunType, PipeType
<1>3. FreshInv' /\ ParseInv'
  BY DEF IInv, FreshInv, ParseInv, NewlineIsLast
<1>4. PipeInv'
  <2>1. \A k \in DOMAIN pipes : k <= current /\ (k < current => ~pipes[k].writable)
    BY DEF IInv, PipeInv
  <2>2. \A k \in DOMAIN pipes' : k <= current' /\ (k < current' => ~pipes'[k].writable)
    BY <1>1, <2>1 DEF PipeType, RunType
  <2> QED  BY <2>2 DEF IInv, PipeInv
<1>5. PipesConnectNeighbours'
  <2>1. ASSUME previous_op' = "pipe", current' - 1 \in DOMAIN pipes'
        PROVE  child'.stdin = current' - 1 /\ ~pipes'[current' - 1].writable
    <3>1. previous_op' = previous_op
      BY DEF previous_op
    <3>2. child.stdin = current - 1 /\ ~pipes[current - 1].writable
      BY <2>1, <3>1 DEF IInv, PipesConnectNeighbours
    <3>3. current - 1 \in DOMAIN pipes /\ current - 1 # current
      BY <1>1, <2>1 DEF PipeType, RunType
    <3> QED  BY <3>2, <3>3
  <2> QED  BY <2>1 DEF PipesConnectNeighbours
<1>6. RunsWhatOperatorsAsk'
  BY SameRuns DEF IInv
<1>7. ResultInv'
  <2>1. Wanted(current)'
    <3>1. Wanted(current)' <=> IsWanted(commands', results', current')
      BY DEF Wanted, IsWanted, PipelineStart, First, Starting, ResultBefore, LastResult
    <3>2. Wanted(current)
      BY DEF IInv, ResultInv
    <3> QED  BY <3>1, <3>2, SameNames
  <2>2. previous_result' = ResultBefore(current)'
    BY DEF IInv, ResultInv, ResultBefore
  <2>3. \A k \in DOMAIN results' : k < current'
    BY DEF IInv, ResultInv
  <2> QED  BY <2>1, <2>2, <2>3 DEF IInv, ResultInv
<1> QED  BY <1>2, <1>3, <1>4, <1>5, <1>6, <1>7, TypeParts DEF IInv

LEMMA ChildWriteStep ==
    ASSUME IInv, ChildWrite
    PROVE  IInv'
<1>1. /\ phase = "wait" /\ child.left > 0 /\ pipes[current].content < PipeCapacity
      /\ SetPipe(current, pipes[current].content + 1, TRUE)
      /\ child' = [child EXCEPT !.left = @ - 1]
      /\ UNCHANGED << input, phase, parserVars, current, previous_result, is_skipping,
                      previous_pipe_output, results, open >>
  BY DEF ChildWrite
<1>2. TextType /\ RunType /\ PipeType /\ TypeOK
  BY TypeParts DEF IInv
<1>3. current \in DOMAIN pipes /\ current \in 1 .. Len(commands)
  BY <1>1, <1>2 DEF IInv, PipeInv, PipeType
<1>4. /\ DOMAIN pipes' = DOMAIN pipes
      /\ \A i \in DOMAIN pipes' : pipes'[i] \in Pipes
      /\ \A i \in DOMAIN pipes : i # current => pipes'[i] = pipes[i]
  <2>1. pipes[current].content + 1 \in 0 .. PipeCapacity /\ TRUE \in BOOLEAN
    BY <1>1, <1>2, <1>3, ShellAssumption DEF PipeType, Pipes
  <2>2. /\ DOMAIN pipes' = DOMAIN pipes \cup {current}
        /\ \A i \in DOMAIN pipes' : pipes'[i] \in Pipes
        /\ \A i \in DOMAIN pipes : i # current => pipes'[i] = pipes[i]
    BY <1>1, <1>2, <1>3, <2>1, SetPipeFacts
  <2> QED  BY <1>3, <2>2
<1>5. /\ child' \in Children(DOMAIN pipes')
      /\ child'.stdin = child.stdin /\ (child'.reads <=> child.reads)
  <2>1. child \in Children(DOMAIN pipes)
    BY <1>2 DEF PipeType
  <2>2. child.left - 1 \in 0 .. MaxOutput
    BY <1>1, <2>1, ShellAssumption DEF Children
  <2> DEFINE left == child.left - 1
  <2> HIDE DEF left
  <2>3. child' = [child EXCEPT !.left = left] /\ left \in 0 .. MaxOutput
    BY <1>1, <2>2 DEF left
  <2> QED  BY <1>4, <2>1, <2>3 DEF Children
<1> QED  BY <1>1, <1>4, <1>5, ChildActs

LEMMA ChildReadStep ==
    ASSUME IInv, ChildRead
    PROVE  IInv'
<1> DEFINE k == child.stdin
           source == pipes[k]
<1>1. /\ phase = "wait" /\ child.reads /\ source.content > 0
      /\ SetPipe(k, source.content - 1, source.writable)
      /\ UNCHANGED << input, phase, parserVars, current, previous_result, is_skipping,
                      previous_pipe_output, results, child, open >>
  BY DEF ChildRead
<1>2. TextType /\ RunType /\ PipeType /\ TypeOK
  BY TypeParts DEF IInv
<1>3. k \in DOMAIN pipes /\ k \in 1 .. Len(commands)
  BY <1>1, <1>2 DEF IInv, PipeInv, PipeType, Children
<1>4. source \in Pipes
  BY <1>2, <1>3 DEF PipeType
<1> HIDE DEF k
<1>5. /\ DOMAIN pipes' = DOMAIN pipes
      /\ \A i \in DOMAIN pipes' : pipes'[i] \in Pipes
      /\ pipes'[k].writable <=> source.writable
      /\ \A i \in DOMAIN pipes : i # k => pipes'[i] = pipes[i]
  <2>1. source.content - 1 \in 0 .. PipeCapacity /\ source.writable \in BOOLEAN
    BY <1>1, <1>4, ShellAssumption DEF Pipes
  <2>2. /\ DOMAIN pipes' = DOMAIN pipes \cup {k}
        /\ \A i \in DOMAIN pipes' : pipes'[i] \in Pipes
        /\ pipes'[k].writable <=> source.writable
        /\ \A i \in DOMAIN pipes : i # k => pipes'[i] = pipes[i]
    <3> HIDE DEF source
    <3> QED  BY <1>1, <1>2, <1>3, <2>1, SetPipeFacts
  <2> QED  BY <1>3, <2>2
<1>6. child' \in Children(DOMAIN pipes')
  BY <1>1, <1>2, <1>5 DEF PipeType
<1>7. \A i \in DOMAIN pipes : pipes'[i].writable => pipes[i].writable
  BY <1>5
<1> QED  BY <1>1, <1>5, <1>6, <1>7, ChildActs

LEMMA ChildEndsStep ==
    ASSUME IInv, ChildEnds
    PROVE  IInv'
<1>1. PICK end \in {"success", "failed"} : child' = [child EXCEPT !.end = end]
  BY DEF ChildEnds
<1>2. phase = "wait" /\ UNCHANGED << input, phase, parserVars, runVars, open >>
  BY DEF ChildEnds
<1>3. PipeType
  BY TypeParts DEF IInv
<1>4. /\ child' \in Children(DOMAIN pipes')
      /\ child'.stdin = child.stdin /\ (child'.reads <=> child.reads)
  <2>1. child \in Children(DOMAIN pipes) /\ DOMAIN pipes' = DOMAIN pipes
    BY <1>2, <1>3 DEF PipeType, runVars
  <2> QED  BY <1>1, <2>1 DEF Children, Results
<1>5. pipes' = pipes /\ \A i \in DOMAIN pipes : pipes[i] \in Pipes
  BY <1>2, <1>3 DEF PipeType, runVars
<1> QED  BY <1>2, <1>4, <1>5, ChildActs DEF runVars

-----------------------------------------------------------------------------

LEMMA StutterStep ==
    ASSUME IInv, UNCHANGED vars
    PROVE  IInv'
<1> USE DEF vars, parserVars, runVars
<1>1. TypeOK'
  BY DEF IInv, TypeOK
<1>2. FreshInv' /\ ParseInv' /\ PipeInv'
  BY DEF IInv, FreshInv, ParseInv, PipeInv, NewlineIsLast
<1>3. PipesConnectNeighbours'
  BY DEF IInv, PipesConnectNeighbours, previous_op
<1>4. RunsWhatOperatorsAsk'
  BY SameRuns DEF IInv
<1>5. ResultInv'
  <2>1. Wanted(current)' <=> Wanted(current)
    BY DEF Wanted, PipelineStart, ResultBefore
  <2>2. ResultBefore(current)' = ResultBefore(current)
    BY DEF ResultBefore
  <2> QED  BY <2>1, <2>2 DEF IInv, ResultInv
<1> QED  BY <1>1, <1>2, <1>3, <1>4, <1>5 DEF IInv

LEMMA Invariance == Spec => []IInv
<1>1. Init => IInv
  BY InitHolds
<1>2. IInv /\ [Next]_vars => IInv'
  <2> SUFFICES ASSUME IInv, [Next]_vars PROVE IInv'
    OBVIOUS
  <2>1. CASE ReadLine
    BY <2>1, ReadLineStep
  <2>2. CASE Reject
    BY <2>2, NextLineStep DEF Reject
  <2>3. CASE SkipToken
    BY <2>3, SkipTokenStep
  <2>4. CASE TakeCommand
    BY <2>4, TakeCommandStep
  <2>5. CASE NoOperator
    BY <2>5, NoOperatorStep
  <2>6. CASE RunCommands
    BY <2>6, RunCommandsStep
  <2>7. CASE SkipCommand
    BY <2>7, SkipCommandStep
  <2>8. CASE ExitCommand
    BY <2>8, EndedStep DEF ExitCommand, Executing
  <2>9. CASE PipeFails
    BY <2>9, EndedStep DEF PipeFails, Executing
  <2>10. CASE ForkFails
    BY <2>10, ForkFailsStep
  <2>11. CASE Fork
    BY <2>11, ForkStep
  <2>12. CASE Wait
    BY <2>12, WaitStep
  <2>13. CASE EndLine
    BY <2>13, NextLineStep DEF EndLine
  <2>14. CASE ChildWrite
    BY <2>14, ChildWriteStep
  <2>15. CASE ChildRead
    BY <2>15, ChildReadStep
  <2>16. CASE ChildEnds
    BY <2>16, ChildEndsStep
  <2>17. CASE Stopped \/ UNCHANGED vars
    BY <2>17, StutterStep DEF Stopped
  <2> QED
    BY <2>1, <2>2, <2>3, <2>4, <2>5, <2>6, <2>7, <2>8, <2>9, <2>10, <2>11, <2>12, <2>13,
       <2>14, <2>15, <2>16, <2>17 DEF Next, ShellStep, ChildStep
<1> QED  BY <1>1, <1>2, PTL DEF Spec

\* TypeOK of Shell: what the tokenizer takes from any text are tokens, the parser
\* makes commands with words of them, and execute_command never needs more than
\* MaxOpen descriptors, nor a pipe that is not there.
THEOREM TypeCorrect == Spec => []TypeOK
<1>1. IInv => TypeOK
  BY DEF IInv
<1> QED  BY <1>1, Invariance, PTL

\* RunsWhatOperatorsAsk: the test of execute_command, which sees only the operator
\* before a command, the last result and is_skipping, runs and skips pipelines as
\* a whole and according to the last command executed.
THEOREM OperatorsAreObeyed == Spec => []RunsWhatOperatorsAsk
<1>1. IInv => RunsWhatOperatorsAsk
  BY DEF IInv
<1> QED  BY <1>1, Invariance, PTL

\* PipesConnectNeighbours: previous_pipe_output is the pipe of the command before
\* whenever that command was forked, and its write end is closed by then.
THEOREM NeighboursAreConnected == Spec => []PipesConnectNeighbours
<1>1. IInv => PipesConnectNeighbours
  BY DEF IInv
<1> QED  BY <1>1, Invariance, PTL
=============================================================================

-------------------------- MODULE CJSONPrint_proofs --------------------------
(***************************************************************************)
(* For every tree, every buffer and every format: the printer of cJSON     *)
(* writes nothing behind the end of its buffer, leaves a null byte where   *)
(* strlen looks for one, and frees the buffer it allocated once (IInv);    *)
(* and what it prints is the text of the tree, whenever and however often  *)
(* the buffer is moved, and it fails for nothing but want of room          *)
(* (TextInv).                                                              *)
(*                                                                         *)
(* The second part goes like this.  Each call of print_value on the stack  *)
(* has a rest of its item's text still to print; the rests, from the       *)
(* innermost out, are what stands in the text behind what is printed       *)
(* (PrintedTo).  A step that writes t takes t off the front of the         *)
(* innermost rest (Prints), and one lemma (WritesTextKeeps) turns that     *)
(* into a step of the buffer.                                              *)
(***************************************************************************)
EXTENDS CJSONPrint, TLAPS, ProofFacts, SequenceTheorems

\* What may be in a buffer.  The literals are in Byte, too, but the provers do
\* not know of a literal that it is a string.
Symbol == Byte \cup {Nul, Junk, "n", "u", "l", "t", "r", "e", "f", "a", "s", "\"", "\\",
                     "0", "1", "b", "[", "]", "{", "}", ",", ":", " ", "\n", "\t", "no text"}

\* What a text may hold: any symbol but the null byte.
Letter == Symbol \ {Nul}

Place  == {"value", "returned", "comma", "close", "indent", "key", "named", "colon", "after"}
Frames == [item : Item, kid : Nat, at : Place]

KidsOf(f) == Len(Tree[f.item].kids)

\* A print_value is at a child that there is.
Placed(f) ==
    /\ f.kid <= KidsOf(f)
    /\ f.at = "value" => f.kid = 0
    /\ f.at = "comma" => f.kid < KidsOf(f)
    /\ f.at \in {"indent", "key", "named", "colon"} => f.kid > 0

\* Only the innermost print_value may still be before its value.
StackOK(s) ==
    /\ s \in Seq(Frames)
    /\ \A d \in 1..Len(s) : Placed(s[d])
    /\ \A d \in 1..(Len(s) - 1) : s[d].at # "value"

\* The depth that the printbuffer has with these calls running.
DepthOf(s) ==
    IF s = <<>> THEN 0 ELSE IF s[Len(s)].at = "value" THEN Len(s) - 1 ELSE Len(s)

Running ==
    /\ where \in {"idle", "printing", "printed", "returned", "failed", "null"}
    /\ where = "printing" <=> stack # <<>>
    /\ StackOK(stack)
    /\ depth \in Nat /\ (where = "printing" => depth = DepthOf(stack))
    /\ where = "idle" => depth = 0

Bytes == buffer \in Seq(Symbol) /\ offset \in Nat /\ length \in Nat

\* The caller of a preallocated buffer owns it, any other call its own one.
Own == IF noalloc THEN 0 ELSE 1
Owned ==
    /\ lost \in BOOLEAN /\ blocks \in Int
    /\ where \in {"idle", "null"} => blocks = 0
    /\ where = "idle" => ~lost
    /\ where \in {"printing", "printed", "returned"} => ~lost /\ blocks = Own
    /\ where = "failed" => blocks = (IF lost THEN 0 ELSE Own) /\ (lost => ~noalloc)

IInv == Running /\ Bytes /\ Owned /\ StaysInside

-----------------------------------------------------------------------------
\* What the operators on sequences return.
LEMMA OneDoes ==
    ASSUME NEW S, NEW x \in S
    PROVE  <<x>> \in Seq(S) /\ Len(<<x>>) = 1 /\ <<x>>[1] = x
OBVIOUS

\* Two symbols in a row.
LEMMA PairDoes ==
    ASSUME NEW S, NEW x \in S, NEW y \in S
    PROVE  <<x, y>> \in Seq(S) /\ Len(<<x, y>>) = 2 /\ <<x, y>>[2] = y
OBVIOUS

\* What a concatenation holds, and where.
LEMMA ConcatDoes ==
    ASSUME NEW S, NEW a \in Seq(S), NEW b \in Seq(S)
    PROVE  /\ a \o b \in Seq(S) /\ Len(a \o b) = Len(a) + Len(b)
           /\ \A i \in 1..Len(b) : (a \o b)[Len(a) + i] = b[i]
OBVIOUS

\* It begins with the first of the two.
LEMMA ConcatBegins ==
    ASSUME NEW S, NEW a \in Seq(S), NEW b \in Seq(S)
    PROVE  \A i \in 1..Len(a) : (a \o b)[i] = a[i]
OBVIOUS

\* What a push leaves of a stack.
LEMMA AppendDoes ==
    ASSUME NEW S, NEW s \in Seq(S), NEW x \in S
    PROVE  /\ Append(s, x) \in Seq(S) /\ Len(Append(s, x)) = Len(s) + 1
           /\ Append(s, x)[Len(s) + 1] = x
           /\ \A d \in 1..Len(s) : Append(s, x)[d] = s[d]
OBVIOUS

\* What a pop leaves of a stack.
LEMMA FrontDoes ==
    ASSUME NEW S, NEW s \in Seq(S), s # <<>>
    PROVE  /\ Len(s) \in Nat \ {0}
           /\ SubSeq(s, 1, Len(s) - 1) \in Seq(S)
           /\ Len(SubSeq(s, 1, Len(s) - 1)) = Len(s) - 1
           /\ \A d \in 1..Len(s) - 1 : SubSeq(s, 1, Len(s) - 1)[d] = s[d]
<1> DEFINE n == Len(s) - 1
           f == SubSeq(s, 1, n)
<1>1. Len(s) \in Nat \ {0}
  BY EmptySeq
<1>2. /\ n \in Nat /\ n + 1 = Len(s)
      /\ \A d \in 1..n : d \in 1..Len(s) /\ 1 + d - 1 = d
  BY <1>1
<1> HIDE DEF n
<1>3. /\ f \in Seq(S)
      /\ Len(f) = IF 1 <= n THEN n - 1 + 1 ELSE 0
      /\ \A d \in 1..n - 1 + 1 : f[d] = s[1 + d - 1]
  BY <1>2, SubSeqProperties
<1>4. n - 1 + 1 = n /\ (1 <= n \/ n = 0)
  BY <1>2
<1> HIDE DEF f
<1>5. f \in Seq(S) /\ Len(f) = n /\ \A d \in 1..n : f[d] = s[d]
  BY <1>2, <1>3, <1>4
<1> QED BY <1>1, <1>5 DEF f, n

-----------------------------------------------------------------------------
\* The characters that items are printed with are letters.
LEMMA LiteralsAreLetters ==
    {"[", "]", "{", "}", ",", ":", " ", "\n", "\t", "\"", "\\",
     "n", "u", "l", "t", "r", "e", "f", "a", "s", "0", "1", "b", "no text"} \subseteq Letter
BY DEF Letter, Symbol, Nul

\* Texts of items are sequences of letters.
LEMMA TextLetters == Seq(Byte) \subseteq Seq(Letter) /\ Seq(Letter) \subseteq Seq(Symbol)
<1>1. ASSUME NEW A, NEW B, A \subseteq B, NEW s \in Seq(A) PROVE s \in Seq(B)
  <2>1. s = [i \in 1..Len(s) |-> s[i]] /\ Len(s) \in Nat
    OBVIOUS
  <2>2. \A i \in 1..Len(s) : s[i] \in B
    BY <1>1
  <2> QED BY ONLY <2>1, <2>2
<1>2. Byte \subseteq Letter /\ Letter \subseteq Symbol
  BY DEF Byte, Letter, Symbol
<1> QED BY <1>1, <1>2

\* Concatenation: its letters, the empty text and how it nests.
LEMMA ConcatLetters ==
    ASSUME NEW a \in Seq(Letter), NEW b \in Seq(Letter), NEW c \in Seq(Letter)
    PROVE  /\ a \o b \in Seq(Letter) /\ (a \o b) \o c = a \o (b \o c)
           /\ <<>> \o a = a /\ a \o <<>> = a /\ <<>> \in Seq(Letter)
           /\ Len(a \o b) = Len(a) + Len(b)
<1>1. (a \o b) \o c = a \o (b \o c)
  BY ConcatAssociative
<1>2. <<>> \o a = a /\ a \o <<>> = a /\ <<>> \in Seq(Letter)
  BY ConcatEmptySeq
<1> QED BY <1>1, <1>2

\* The same about two operators, so that a proof sees only what is said here.
Letters   == Seq(Letter)
Cat(a, b) == a \o b

LEMMA CatNests ==
    \A a, b, c \in Letters : Cat(a, b) \in Letters /\ Cat(Cat(a, b), c) = Cat(a, Cat(b, c))
BY ConcatLetters DEF Letters, Cat

Nested(a, b, c, d, e) == (a \o ((b \o c) \o d)) \o e
Flat(a, b, c, d, e)   == a \o (b \o (c \o (d \o e)))

\* Brackets in a concatenation of five texts do not matter, ...
LEMMA ConcatNests ==
    ASSUME NEW a \in Seq(Letter), NEW b \in Seq(Letter), NEW c \in Seq(Letter),
           NEW d \in Seq(Letter), NEW e \in Seq(Letter)
    PROVE  Nested(a, b, c, d, e) = Flat(a, b, c, d, e)
<1>1. /\ a \in Letters /\ b \in Letters /\ c \in Letters /\ d \in Letters /\ e \in Letters
  BY DEF Letters
<1>2. Cat(b, c) \in Letters /\ Cat(Cat(b, c), d) = Cat(b, Cat(c, d)) /\ Cat(c, d) \in Letters
  BY ONLY <1>1, CatNests
<1>3. Cat(Cat(b, Cat(c, d)), e) = Cat(b, Cat(Cat(c, d), e)) /\ Cat(b, Cat(c, d)) \in Letters
  BY ONLY <1>1, <1>2, CatNests
<1>4. Cat(Cat(c, d), e) = Cat(c, Cat(d, e))
  BY ONLY <1>1, CatNests
<1>5. Cat(Cat(a, Cat(b, Cat(c, d))), e) = Cat(a, Cat(Cat(b, Cat(c, d)), e))
  BY ONLY <1>1, <1>3, CatNests
<1>6. Cat(Cat(a, Cat(Cat(b, c), d)), e) = Cat(a, Cat(b, Cat(c, Cat(d, e))))
  BY ONLY <1>2, <1>3, <1>4, <1>5
<1> QED BY ONLY <1>6 DEF Cat, Nested, Flat

\* ... and so sequences of symbols.
LEMMA TextSymbols == Seq(Byte) \subseteq Seq(Symbol)
BY TextLetters

\* A function over 1..n into S is a sequence of length n.
LEMMA ListIsSeq ==
    ASSUME NEW S, NEW n \in Nat, NEW f, \A i \in 1..n : f[i] \in S,
           f = [i \in 1..n |-> f[i]]
    PROVE  f \in Seq(S) /\ Len(f) = n
<1>1. f \in [1..n -> S]
  OBVIOUS
<1>2. f \in Seq(S)
  BY <1>1
<1>3. DOMAIN f = 1..n
  BY <1>1
<1>4. Len(f) = n
  BY <1>2, <1>3, LenProperties
<1> QED BY <1>2, <1>4

\* The sizes of what the buffer's operators return.
LEMMA OverDoes ==
    ASSUME NEW b \in Seq(Symbol), NEW n \in Nat, NEW s \in Seq(Symbol)
    PROVE  /\ Over(b, n, s) \in Seq(Symbol)
           /\ Len(Over(b, n, s)) = Larger(Len(b), n + Len(s))
           /\ \A i \in 1..Len(s) : Over(b, n, s)[n + i] = s[i]
<1> DEFINE L == Larger(Len(b), n + Len(s))
           o == Over(b, n, s)
<1>1. L \in Nat /\ Len(b) <= L /\ n + Len(s) <= L
  BY DEF Larger
<1>2. o = [i \in 1..L |-> IF i \in n + 1..n + Len(s) THEN s[i - n]
                          ELSE IF i <= Len(b) THEN b[i] ELSE Junk]
  BY DEF Over
<1> HIDE DEF L, o
<1>3. ASSUME NEW i \in 1..L PROVE o[i] \in Symbol
  <2>1. CASE i \in n + 1..n + Len(s)
    <3>1. i - n \in 1..Len(s) /\ o[i] = s[i - n]
      BY <1>1, <1>2, <2>1
    <3> QED BY <3>1
  <2>2. CASE i \notin n + 1..n + Len(s)
    <3>1. Junk \in Symbol
      BY DEF Symbol
    <3> QED BY <1>1, <1>2, <2>2, <3>1
  <2> QED BY <2>1, <2>2
<1>4. o = [i \in 1..L |-> o[i]]
  BY <1>2
<1>5. o \in Seq(Symbol) /\ Len(o) = L
  BY ONLY <1>1, <1>3, <1>4, ListIsSeq
<1>6. ASSUME NEW i \in 1..Len(s) PROVE o[n + i] = s[i]
  <2>1. n + i \in 1..L /\ n + i \in n + 1..n + Len(s) /\ (n + i) - n = i
    BY <1>1
  <2> QED BY <1>2, <2>1
<1> QED BY <1>5, <1>6 DEF L, o

\* A new block has the size asked for, and nothing is known of it.
LEMMA FreshDoes ==
    ASSUME NEW b \in Seq(Symbol), NEW k \in Nat, NEW n \in Nat
    PROVE  Fresh(b, k, n) \in Seq(Symbol) /\ Len(Fresh(b, k, n)) = n
<1> DEFINE f == Fresh(b, k, n)
<1>1. f = [i \in 1..n |-> IF i <= Smaller(k, Len(b)) THEN b[i] ELSE Junk]
  BY DEF Fresh
<1> HIDE DEF f
<1>2. ASSUME NEW i \in 1..n PROVE f[i] \in Symbol
  <2>1. Junk \in Symbol
    BY DEF Symbol
  <2>2. i <= Smaller(k, Len(b)) => i \in 1..Len(b)
    BY DEF Smaller
  <2> QED BY <1>1, <2>1, <2>2
<1>3. f = [i \in 1..n |-> f[i]]
  BY <1>1
<1>4. f \in Seq(Symbol) /\ Len(f) = n
  BY ONLY <1>2, <1>3, n \in Nat, ListIsSeq
<1> QED BY <1>4 DEF f

\* strlen finds the first null byte, if there is one.
LEMMA StrlenDoes ==
    ASSUME NEW b \in Seq(Symbol), NEW n \in Nat, \E k \in n + 1..Len(b) : b[k] = Nul
    PROVE  /\ Strlen(b, n) \in Nat /\ n + Strlen(b, n) < Len(b)
           /\ b[n + Strlen(b, n) + 1] = Nul
<1> DEFINE K == {k \in Nat : n + k < Len(b) /\ b[n + k + 1] = Nul}
<1>1. K # {}
  <2>1. PICK k \in n + 1..Len(b) : b[k] = Nul
    OBVIOUS
  <2>2. k - n - 1 \in Nat /\ n + (k - n - 1) < Len(b) /\ n + (k - n - 1) + 1 = k
    OBVIOUS
  <2> QED BY <2>1, <2>2
<1>2. PICK k \in K : \A j \in K : k <= j
  <2>1. K \subseteq Nat
    OBVIOUS
  <2> QED BY ONLY <1>1, <2>1, LeastElement
<1> DEFINE P(l) == /\ n + l = Len(b) \/ b[n + l + 1] = Nul
                   /\ \A j \in 1..l : b[n + j] # Nul
<1>3. k \in 0..Len(b) - n /\ P(k)
  <2>1. ASSUME NEW j \in 1..k, b[n + j] = Nul PROVE FALSE
    <3>1. j - 1 \in Nat /\ n + (j - 1) < Len(b) /\ n + (j - 1) + 1 = n + j /\ ~(k <= j - 1)
      BY <1>2
    <3> QED BY <1>2, <2>1, <3>1
  <2> QED BY <1>2, <2>1
<1>4. ASSUME NEW l \in 0..Len(b) - n, P(l) PROVE n + l < Len(b) /\ b[n + l + 1] = Nul
  <2>1. l <= k
    <3> SUFFICES ASSUME ~(l <= k) PROVE FALSE
      OBVIOUS
    <3>1. k + 1 \in 1..l /\ n + (k + 1) = n + k + 1
      BY <1>2
    <3> QED BY <1>2, <1>4, <3>1
  <2> QED BY <1>2, <1>4, <2>1
<1>5. Strlen(b, n) = CHOOSE l \in 0..Len(b) - n : P(l)
  BY DEF Strlen
<1>6. Strlen(b, n) \in 0..Len(b) - n /\ P(Strlen(b, n))
  <2> HIDE DEF P
  <2> QED BY <1>3, <1>5
<1> HIDE DEF P
<1>7. Strlen(b, n) \in Nat
  BY <1>6
<1> QED BY <1>4, <1>6, <1>7

-----------------------------------------------------------------------------
\* The first pass of print_string_ptr counts what the second one writes.
LEMMA EscapedDoes ==
    ASSUME NEW S \in {Symbol, Letter}, NEW c \in S
    PROVE  /\ EscapeCharacters(c) \in Nat /\ Escaped(c) \in Seq(S)
           /\ Len(Escaped(c)) = EscapeCharacters(c) + 1
<1> DEFINE Known == {"\\", "\"", "n", "u", "0", "1", "b"}
<1>1. Known \subseteq S
  <2>1. Known \subseteq Letter /\ Letter \subseteq Symbol
    BY DEF Letter, Symbol, Nul
  <2> HIDE DEF Known
  <2>2. S = Symbol \/ S = Letter
    OBVIOUS
  <2> QED BY <2>1, <2>2, Zenon
<1>2. CASE c \in DOMAIN Short
  <2>1. Escaped(c) = <<"\\", Short[c]>> /\ EscapeCharacters(c) = 1
    BY <1>2 DEF EscapeCharacters, Escaped
  <2>2. Short[c] \in Known /\ "\\" \in Known
    BY <1>2 DEF Short
  <2> HIDE DEF Known
  <2>3. <<"\\", Short[c]>> \in Seq(S) /\ Len(<<"\\", Short[c]>>) = 2
    <3>1. "\\" \in S /\ Short[c] \in S
      BY <1>1, <2>2
    <3> QED BY <3>1, PairDoes
  <2> QED BY <2>1, <2>3
<1>3. CASE c \notin DOMAIN Short /\ c \in Control
  <2>1. Escaped(c) = <<"\\", "u", "0", "0", "1", "b">> /\ EscapeCharacters(c) = 5
    BY <1>3 DEF EscapeCharacters, Escaped
  <2>2. \A v, w, x, y, z \in S : <<v, w, x, x, y, z>> \in Seq(S) /\ Len(<<v, w, x, x, y, z>>) = 6
    OBVIOUS
  <2>3. "\\" \in S /\ "u" \in S /\ "0" \in S /\ "1" \in S /\ "b" \in S
    BY <1>1
  <2> HIDE DEF Known
  <2>4. /\ <<"\\", "u", "0", "0", "1", "b">> \in Seq(S)
        /\ Len(<<"\\", "u", "0", "0", "1", "b">>) = 6
    BY <2>2, <2>3
  <2> QED BY <2>1, <2>4
<1>4. CASE c \notin DOMAIN Short /\ c \notin Control
  BY <1>4 DEF EscapeCharacters, Escaped
<1> QED BY <1>2, <1>3, <1>4

\* So output_length is the length of the escaped text.
LEMMA CountedRight ==
    ASSUME NEW S \in {Symbol, Letter}, NEW text \in Seq(S)
    PROVE  /\ EscapedText(text) \in Seq(S)
           /\ OutputLength(text) = Len(EscapedText(text))
<1>1. CASE text = NoText
  BY <1>1 DEF EscapedText, OutputLength
<1>2. CASE text # NoText
  <2> DEFINE N == Len(text)
             counts(f) == f = [i \in 0..N |-> IF i = 0 THEN N
                                              ELSE f[i - 1] + EscapeCharacters(text[i])]
             puts(f) == f = [i \in 0..N |-> IF i = 0 THEN <<>> ELSE f[i - 1] \o Escaped(text[i])]
             counted == CHOOSE f : counts(f)
             output  == CHOOSE f : puts(f)
  <2>1. N \in Nat /\ \A i \in 1..N : text[i] \in S
    OBVIOUS
  <2>2. OutputLength(text) = counted[N] /\ EscapedText(text) = output[N]
    BY <1>2 DEF OutputLength, EscapedText
  <2> HIDE DEF N
  <2>3. counts(counted)
    <3> DEFINE step == [i \in 1..N |-> [x \in Nat |-> x + EscapeCharacters(text[i])]]
    <3>1. step \in [1..N -> [Nat -> Nat]]
      BY <2>1, EscapedDoes, SMTT(40)
    <3>2. PICK f \in [0..N -> Nat] : Recurs(f, N, N, step)
      <4> HIDE DEF step
      <4> QED BY <2>1, <3>1, Recursion
    <3>3. ASSUME NEW i \in 0..N
          PROVE  f[i] = IF i = 0 THEN N ELSE f[i - 1] + EscapeCharacters(text[i])
      <4>1. i # 0 => i \in 1..N /\ i - 1 \in 0..N
        BY <2>1
      <4> QED BY <3>2, <4>1 DEF Recurs
    <3>4. counts(f)
      BY <3>2, <3>3
    <3> HIDE DEF counts
    <3> QED BY <3>4
  <2>4. puts(output)
    <3> DEFINE step == [i \in 1..N |-> [x \in Seq(S) |-> x \o Escaped(text[i])]]
    <3>1. step \in [1..N -> [Seq(S) -> Seq(S)]]
      BY <2>1, EscapedDoes
    <3>2. PICK f \in [0..N -> Seq(S)] : Recurs(f, N, <<>>, step)
      <4>1. <<>> \in Seq(S)
        OBVIOUS
      <4> HIDE DEF step
      <4> QED BY <2>1, <3>1, <4>1, Recursion
    <3>3. ASSUME NEW i \in 0..N
          PROVE  f[i] = IF i = 0 THEN <<>> ELSE f[i - 1] \o Escaped(text[i])
      <4>1. i # 0 => i \in 1..N /\ i - 1 \in 0..N
        BY <2>1
      <4> QED BY <3>2, <4>1 DEF Recurs
    <3>4. puts(f)
      BY <3>2, <3>3
    <3> HIDE DEF puts
    <3> QED BY <3>4
  <2> HIDE DEF counted, output
  <2> DEFINE Right(i) == output[i] \in Seq(S) /\ counted[i] = Len(output[i]) + (N - i)
             Wrong == {i \in 0..N : ~Right(i)}
  <2>5. Wrong = {}
    <3> SUFFICES ASSUME Wrong # {} PROVE FALSE
      OBVIOUS
    <3>1. PICK i \in Wrong : \A j \in Wrong : i <= j
      <4>1. Wrong \subseteq Nat
        BY <2>1
      <4> HIDE DEF Wrong
      <4> QED BY ONLY <4>1, Wrong # {}, LeastElement
    <3>2. i # 0
      <4>1. output[0] = <<>> /\ counted[0] = N
        BY <2>1, <2>3, <2>4
      <4>2. Right(0)
        BY <2>1, <4>1
      <4> QED BY <3>1, <4>2
    <3>3. i \in 1..N /\ i - 1 \in 0..N /\ Right(i - 1)
      <4>1. i \in 1..N /\ i - 1 \in 0..N /\ ~(i <= i - 1)
        BY <2>1, <3>1, <3>2
      <4> QED BY <3>1, <4>1
    <3>4. /\ output[i] = output[i - 1] \o Escaped(text[i])
          /\ counted[i] = counted[i - 1] + EscapeCharacters(text[i])
      BY <2>3, <2>4, <3>2, <3>3
    <3>5. Escaped(text[i]) \in Seq(S) /\ EscapeCharacters(text[i]) \in Nat
          /\ Len(Escaped(text[i])) = EscapeCharacters(text[i]) + 1
      BY <2>1, <3>3, EscapedDoes
    <3>6. output[i] \in Seq(S)
          /\ Len(output[i]) = Len(output[i - 1]) + Len(Escaped(text[i]))
      <4>1. output[i - 1] \in Seq(S)
        BY <3>3
      <4>2. Len(output[i - 1] \o Escaped(text[i])) = Len(output[i - 1]) + Len(Escaped(text[i]))
            /\ output[i - 1] \o Escaped(text[i]) \in Seq(S)
        BY <3>5, <4>1, ConcatDoes
      <4> HIDE DEF Right, Wrong
      <4> QED BY <3>4, <4>2
    <3>7. counted[i] = Len(output[i]) + (N - i)
      <4>1. Len(output[i - 1]) \in Nat
        BY <3>3
      <4>2. counted[i - 1] = Len(output[i - 1]) + (N - (i - 1))
        BY <3>3
      <4>3. /\ counted[i] = counted[i - 1] + EscapeCharacters(text[i])
            /\ Len(output[i]) = Len(output[i - 1]) + (EscapeCharacters(text[i]) + 1)
        BY <3>4, <3>5, <3>6
      <4>4. i \in Nat /\ EscapeCharacters(text[i]) \in Nat
        BY <3>3, <3>5
      <4>5. N \in Nat
        BY <2>1
      <4> DEFINE p == Len(output[i - 1])
                 e == EscapeCharacters(text[i])
      <4>6. p \in Nat /\ e \in Nat
        BY <4>1, <4>4
      <4> HIDE DEF p, e
      <4>7. (p + (N - (i - 1))) + e = (p + (e + 1)) + (N - i)
        BY ONLY <4>4, <4>5, <4>6
      <4> QED BY <4>2, <4>3, <4>7 DEF p, e
    <3> QED BY <3>1, <3>6, <3>7
  <2>6. Right(N)
    BY <2>1, <2>5
  <2> QED BY <2>1, <2>2, <2>6
<1> QED BY <1>1, <1>2

\* A string in quotes is as long as print_string_ptr asks for, null byte included.
QuotedBytes(text) ==
    Over(<<"\"">> \o EscapedText(text), OutputLength(text) + 1, <<"\"", Nul>>)

\* The quoted text ends in its null byte, wherever it is written.
LEMMA QuotedDoes ==
    ASSUME NEW text \in Seq(Symbol)
    PROVE  /\ OutputLength(text) \in Nat /\ QuotedBytes(text) \in Seq(Symbol)
           /\ Len(QuotedBytes(text)) = OutputLength(text) + 3
           /\ QuotedBytes(text)[OutputLength(text) + 3] = Nul
<1> DEFINE n == OutputLength(text)
           b == <<"\"">> \o EscapedText(text)
           e == <<"\"", Nul>>
<1>1. EscapedText(text) \in Seq(Symbol) /\ n = Len(EscapedText(text)) /\ n \in Nat
  BY Symbol \in {Symbol, Letter}, CountedRight
<1>2. <<"\"">> \in Seq(Symbol) /\ Len(<<"\"">>) = 1
  <2>1. "\"" \in Symbol
    BY DEF Symbol
  <2> QED BY <2>1, OneDoes
<1>3. e \in Seq(Symbol) /\ Len(e) = 2 /\ e[2] = Nul
  <2>1. "\"" \in Symbol /\ Nul \in Symbol
    BY DEF Symbol
  <2> QED BY <2>1, PairDoes
<1> HIDE DEF e, n
<1>4. b \in Seq(Symbol) /\ Len(b) = n + 1
  <2>1. b \in Seq(Symbol) /\ Len(b) = Len(<<"\"">>) + Len(EscapedText(text))
    BY <1>1, <1>2, ConcatDoes
  <2> HIDE DEF b
  <2>2. Len(b) = 1 + n
    BY <1>1, <1>2, <2>1
  <2> QED BY <1>1, <2>1, <2>2
<1> HIDE DEF b
<1>5. /\ Over(b, n + 1, e) \in Seq(Symbol)
      /\ Len(Over(b, n + 1, e)) = Larger(n + 1, n + 1 + 2)
      /\ \A i \in 1..2 : Over(b, n + 1, e)[n + 1 + i] = e[i]
  <2>1. n + 1 \in Nat
    BY <1>1
  <2>2. /\ Over(b, n + 1, e) \in Seq(Symbol)
        /\ Len(Over(b, n + 1, e)) = Larger(Len(b), n + 1 + Len(e))
        /\ \A i \in 1..Len(e) : Over(b, n + 1, e)[n + 1 + i] = e[i]
    BY <1>3, <1>4, <2>1, OverDoes
  <2> QED BY <1>3, <1>4, <2>2
<1>6. Larger(n + 1, n + 1 + 2) = n + 3 /\ (n + 1) + 2 = n + 3
  BY <1>1 DEF Larger
<1>7. Over(b, n + 1, e) = QuotedBytes(text)
  BY DEF QuotedBytes, b, e, n
<1>8. Over(b, n + 1, e)[n + 3] = Nul
  BY <1>3, <1>5, <1>6
<1> QED BY <1>1, <1>5, <1>6, <1>7, <1>8 DEF n

\* A null byte at the end is one in the text.
LEMMA EndsInNul ==
    ASSUME NEW b \in Seq(Symbol)
    PROVE  /\ Append(b, Nul) \in Seq(Symbol) /\ Len(Append(b, Nul)) = Len(b) + 1
           /\ Append(b, Nul)[Len(b) + 1] = Nul
<1>1. Nul \in Symbol
  BY DEF Symbol
<1> QED BY <1>1

\* Indentation is as long as the depth.
LEMMA TabsDo ==
    ASSUME NEW n \in Nat
    PROVE  Tabs(n) \in Seq(Symbol) /\ Len(Tabs(n)) = n
<1>1. "\t" \in Symbol
  BY DEF Symbol
<1> QED BY <1>1 DEF Tabs

-----------------------------------------------------------------------------
\* The calls of print_value that run.
LEMMA TopIs ==
    ASSUME NEW s, StackOK(s), s # <<>>
    PROVE  /\ Len(s) \in Nat \ {0} /\ Last(s) = s[Len(s)]
           /\ Last(s) \in Frames /\ Placed(Last(s))
           /\ Front(s) \in Seq(Frames) /\ Len(Front(s)) = Len(s) - 1
           /\ \A d \in 1..Len(s) - 1 : Front(s)[d] = s[d] /\ s[d] \in Frames
                                       /\ Placed(s[d]) /\ s[d].at # "value"
<1>1. s \in Seq(Frames) /\ Len(s) \in Nat \ {0}
  BY EmptySeq DEF StackOK
<1>2. Last(s) = s[Len(s)] /\ Front(s) = SubSeq(s, 1, Len(s) - 1)
  BY DEF Last, Front
<1>3. /\ SubSeq(s, 1, Len(s) - 1) \in Seq(Frames) /\ Len(SubSeq(s, 1, Len(s) - 1)) = Len(s) - 1
      /\ \A d \in 1..Len(s) - 1 : SubSeq(s, 1, Len(s) - 1)[d] = s[d]
  BY <1>1, FrontDoes
<1>4. Len(s) \in 1..Len(s) /\ \A d \in 1..Len(s) - 1 : d \in 1..Len(s)
  BY <1>1
<1> QED BY <1>1, <1>2, <1>3, <1>4 DEF StackOK

\* A print_value that returns leaves the others as they were.
LEMMA Returns ==
    ASSUME NEW s, StackOK(s), s # <<>>
    PROVE  StackOK(Front(s)) /\ DepthOf(Front(s)) = Len(s) - 1
<1> DEFINE r == Front(s)
<1>1. /\ Len(s) \in Nat \ {0} /\ r \in Seq(Frames) /\ Len(r) = Len(s) - 1
      /\ \A d \in 1..Len(s) - 1 : Placed(r[d]) /\ r[d].at # "value"
  BY TopIs
<1> HIDE DEF r
<1>2. StackOK(r)
  BY <1>1 DEF StackOK
<1>3. DepthOf(r) = Len(s) - 1
  <2>1. CASE r = <<>>
    BY <1>1, <2>1 DEF DepthOf
  <2>2. CASE r # <<>>
    <3>1. Len(r) \in 1..Len(s) - 1
      BY <1>1, <2>2
    <3> QED BY <1>1, <2>2, <3>1 DEF DepthOf
  <2> QED BY <2>1, <2>2
<1> QED BY <1>2, <1>3 DEF r

\* So does one that goes on.
LEMMA GoesOn ==
    ASSUME NEW s, StackOK(s), s # <<>>,
           NEW f \in Frames, Placed(f), f.at # "value"
    PROVE  /\ StackOK(Append(Front(s), f)) /\ DepthOf(Append(Front(s), f)) = Len(s)
           /\ Append(Front(s), f) # <<>> /\ Last(Append(Front(s), f)) = f
<1> DEFINE r == Front(s)
           t == Append(r, f)
<1>1. /\ Len(s) \in Nat \ {0} /\ r \in Seq(Frames) /\ Len(r) = Len(s) - 1
      /\ \A d \in 1..Len(s) - 1 : Placed(r[d]) /\ r[d].at # "value"
  BY TopIs
<1> HIDE DEF r
<1>2. /\ t \in Seq(Frames) /\ Len(t) = Len(s) /\ t[Len(s)] = f /\ t # <<>>
      /\ \A d \in 1..Len(s) - 1 : t[d] = r[d]
  <2>1. /\ t \in Seq(Frames) /\ Len(t) = Len(r) + 1 /\ t[Len(r) + 1] = f
        /\ \A d \in 1..Len(r) : t[d] = r[d]
    BY <1>1, AppendDoes
  <2> HIDE DEF t
  <2>2. Len(r) + 1 = Len(s)
    BY <1>1
  <2> QED BY <1>1, <2>1, <2>2
<1> HIDE DEF t
<1>3. \A d \in 1..Len(s) : d = Len(s) \/ d \in 1..Len(s) - 1
  BY <1>1
<1>4. StackOK(t)
  BY <1>1, <1>2, <1>3 DEF StackOK
<1>5. DepthOf(t) = Len(s) /\ Last(t) = f
  BY <1>2 DEF DepthOf, Last
<1> QED BY <1>2, <1>4, <1>5 DEF t, r

\* And one more when a list calls print_value for a child.
LEMMA Calls ==
    ASSUME NEW s, StackOK(s), s # <<>>,
           NEW f \in Frames, Placed(f), f.at # "value", NEW i \in Item
    PROVE  LET t == Append(Append(Front(s), f), Frame(i))
           IN  /\ StackOK(t) /\ DepthOf(t) = Len(s)
               /\ t # <<>> /\ Last(t) = Frame(i)
<1> DEFINE r == Append(Front(s), f)
           t == Append(r, Frame(i))
<1>1. Len(s) \in Nat \ {0}
  BY TopIs
<1>2. StackOK(r) /\ DepthOf(r) = Len(s) /\ r # <<>> /\ Last(r) = f
  BY GoesOn
<1> HIDE DEF r
<1>3. r \in Seq(Frames) /\ Len(r) = Len(s) /\ r[Len(r)].at # "value"
  BY <1>2 DEF StackOK, DepthOf, Last
<1>4. Frame(i) \in Frames /\ Placed(Frame(i)) /\ Frame(i).at = "value"
  BY PrintAssumption DEF Frame, Frames, Place, Placed, KidsOf, Item
<1>5. /\ t \in Seq(Frames) /\ Len(t) = Len(s) + 1 /\ t[Len(s) + 1] = Frame(i) /\ t # <<>>
      /\ \A d \in 1..Len(s) : t[d] = r[d]
  BY <1>3, <1>4
<1> HIDE DEF t
<1>6. \A d \in 1..Len(s) : Placed(r[d]) /\ r[d].at # "value"
  <2>1. \A d \in 1..Len(s) : d = Len(r) \/ d \in 1..Len(r) - 1
    BY <1>1, <1>3
  <2> QED BY <1>2, <1>3, <2>1 DEF StackOK
<1>7. \A d \in 1..Len(t) : d = Len(s) + 1 \/ d \in 1..Len(s)
  BY <1>1, <1>5
<1>8. StackOK(t)
  <2>1. \A d \in 1..Len(t) : Placed(t[d])
    BY <1>4, <1>5, <1>6, <1>7
  <2>2. \A d \in 1..Len(t) - 1 : t[d].at # "value"
    <3>1. \A d \in 1..Len(t) - 1 : d \in 1..Len(s)
      BY <1>1, <1>5
    <3> QED BY <1>5, <1>6, <3>1
  <2> QED BY <1>5, <2>1, <2>2 DEF StackOK
<1>9. DepthOf(t) = Len(s) /\ Last(t) = Frame(i)
  BY <1>1, <1>4, <1>5 DEF DepthOf, Last
<1> QED BY <1>5, <1>8, <1>9 DEF t, r

-----------------------------------------------------------------------------
\* What a step of the printer may write and where it may go on: inside of what
\* it asks ensure for, and with a null byte where strlen is to find one.
Allowed(needed, bytes, to) ==
    /\ needed \in Nat /\ bytes \in Seq(Symbol) /\ Len(bytes) <= needed + 1
    /\ to.offset \in Nat /\ to.depth \in Nat
    /\ StackOK(to.stack) /\ (to.stack # <<>> => to.depth = DepthOf(to.stack))
    /\ to.stack = <<>> \/ Last(to.stack).at \in {"returned", "named"} =>
           \E j \in 1..Len(bytes) : bytes[j] = Nul /\ to.offset < offset + j

\* What is written lands behind the offset, in a buffer that has room for it.
LEMMA Lands ==
    ASSUME NEW b \in Seq(Symbol), NEW n \in Nat, NEW s \in Seq(Symbol),
           n + Len(s) <= Len(b)
    PROVE  /\ Over(b, n, s) \in Seq(Symbol) /\ Len(Over(b, n, s)) = Len(b)
           /\ \A j \in 1..Len(s) : n + j \in 1..Len(b) /\ Over(b, n, s)[n + j] = s[j]
<1>1. /\ Over(b, n, s) \in Seq(Symbol)
      /\ Len(Over(b, n, s)) = Larger(Len(b), n + Len(s))
      /\ \A i \in 1..Len(s) : Over(b, n, s)[n + i] = s[i]
  BY OverDoes
<1>2. Larger(Len(b), n + Len(s)) = Len(b) /\ \A j \in 1..Len(s) : n + j \in 1..Len(b)
  BY DEF Larger
<1> QED BY <1>1, <1>2

\* ensure makes the buffer as large as it is asked to.
LEMMA GrownDoes ==
    ASSUME Bytes, NEW needed \in Nat, ~Refuses(needed), ~Fits(needed)
    PROVE  /\ Grown(needed) \in Seq(Symbol) /\ Len(Grown(needed)) = NewSize(needed)
           /\ NewSize(needed) \in Nat /\ Asked(needed) <= NewSize(needed)
<1>1. Asked(needed) \in Nat /\ Asked(needed) <= IntMax /\ IntMax \in Nat
  BY PrintAssumption DEF Asked, Refuses, Bytes
<1>2. NewSize(needed) \in Nat /\ Asked(needed) <= NewSize(needed)
  BY <1>1 DEF NewSize
<1>3. (IF reallocate THEN length ELSE offset + 1) \in Nat
  BY DEF Bytes
<1> QED BY <1>2, <1>3, FreshDoes DEF Grown, Bytes

\* A write behind the offset, with the step of the stack that goes with it.
LEMMA WriteKeeps ==
    ASSUME IInv, where = "printing", NEW needed, NEW bytes, NEW to,
           Allowed(needed, bytes, to), Write(needed, bytes, to)
    PROVE  IInv'
<1>1. /\ needed \in Nat /\ bytes \in Seq(Symbol) /\ Len(bytes) \in Nat
      /\ Len(bytes) <= needed + 1
  BY DEF Allowed
<1>2. Bytes /\ Len(buffer) = length /\ ~lost /\ blocks = Own
  BY DEF IInv, StaysInside, Owned
<1>3. CASE /\ ~Refuses(needed)
           /\ IF Fits(needed)
              THEN buffer' = Over(buffer, offset, bytes) /\ UNCHANGED length
              ELSE buffer' = Over(Grown(needed), offset, bytes) /\ length' = NewSize(needed)
           /\ offset' = to.offset /\ depth' = to.depth /\ stack' = to.stack
           /\ where' = IF to.stack = <<>> THEN "printed" ELSE "printing"
           /\ UNCHANGED <<call, lost, blocks, reallocate>>
  <2>1. /\ buffer' \in Seq(Symbol) /\ length' \in Nat /\ Len(buffer') = length'
        /\ \A j \in 1..Len(bytes) : offset + j \in 1..length' /\ buffer'[offset + j] = bytes[j]
    <3>1. CASE Fits(needed)
      <4>1. offset + Len(bytes) <= Len(buffer)
        BY <1>1, <1>2, <3>1 DEF Bytes, Fits, Asked
      <4> QED BY <1>1, <1>2, <1>3, <3>1, <4>1, Lands DEF Bytes
    <3>2. CASE ~Fits(needed)
      <4>1. /\ Grown(needed) \in Seq(Symbol) /\ Len(Grown(needed)) = NewSize(needed)
            /\ NewSize(needed) \in Nat /\ Asked(needed) <= NewSize(needed)
        BY <1>1, <1>2, <1>3, <3>2, GrownDoes
      <4>2. offset + Len(bytes) <= Len(Grown(needed))
        BY <1>1, <1>2, <4>1 DEF Bytes, Asked
      <4> QED BY <1>1, <1>2, <1>3, <3>2, <4>1, <4>2, Lands DEF Bytes
    <3> QED BY <3>1, <3>2
  <2>2. Running'
    BY <1>3 DEF Running, Allowed
  <2>3. Bytes'
    BY <1>3, <2>1 DEF Bytes, Allowed
  <2>4. Owned'
    BY <1>2, <1>3 DEF IInv, Owned, Own, noalloc
  <2>5. StaysInside'
    <3>1. SUFFICES ASSUME \/ where' = "printing" /\ Last(stack').at \in {"returned", "named"}
                          \/ where' \in {"printed", "returned"}
                   PROVE  \E k \in offset' + 1..length' : buffer'[k] = Nul
      BY <2>1 DEF StaysInside, Top
    <3>2. PICK j \in 1..Len(bytes) : bytes[j] = Nul /\ to.offset < offset + j
      BY <1>3, <3>1 DEF Allowed
    <3>3. offset + j \in offset' + 1..length' /\ buffer'[offset + j] = Nul
      BY <1>2, <1>3, <2>1, <3>2 DEF Bytes, Allowed
    <3> QED BY <3>3
  <2> QED BY <2>2, <2>3, <2>4, <2>5 DEF IInv
<1>4. CASE /\ where' = "failed" /\ stack' = <<>>
           /\ UNCHANGED <<call, buffer, length, offset, depth, lost, blocks, reallocate>>
  <2>1. Running'
    BY <1>4 DEF IInv, Running, StackOK
  <2>2. Owned'
    BY <1>2, <1>4 DEF IInv, Owned, Own, noalloc
  <2> QED BY <1>2, <1>4, <2>1, <2>2 DEF IInv, Bytes, StaysInside
<1>5. CASE /\ ~Refuses(needed) /\ ~Fits(needed)
           /\ buffer' = <<>> /\ length' = 0 /\ lost' = TRUE /\ blocks' = blocks - 1
           /\ where' = "failed" /\ stack' = <<>>
           /\ UNCHANGED <<call, offset, depth, reallocate>>
  <2>1. Running'
    BY <1>5 DEF IInv, Running, StackOK
  <2>2. Owned'
    BY <1>2, <1>5 DEF IInv, Owned, Own, noalloc, Refuses
  <2> QED BY <1>2, <1>5, <2>1, <2>2 DEF IInv, Bytes, StaysInside
<1> QED BY <1>3, <1>4, <1>5 DEF Write

-----------------------------------------------------------------------------
\* What a step finds: the innermost print_value, its item and the depth.
LEMMA PrintingIs ==
    ASSUME IInv, where = "printing"
    PROVE  /\ StackOK(stack) /\ stack # <<>> /\ Len(stack) \in Nat \ {0}
           /\ Top \in Frames /\ Placed(Top) /\ Top.item \in Item /\ Top.kid \in Nat
           /\ Top.at \in Place /\ KidsOf(Top) = Len(It.kids) /\ Len(It.kids) \in Nat
           /\ It.value \in Seq(Symbol)
           /\ \A k \in 1..Len(It.kids) :
                 It.kids[k] \in Item /\ Tree[It.kids[k]].name \in Seq(Symbol)
           /\ depth \in Nat /\ offset \in Nat
           /\ depth = IF Top.at = "value" THEN Len(stack) - 1 ELSE Len(stack)
<1>1. /\ StackOK(stack) /\ stack # <<>> /\ depth \in Nat /\ depth = DepthOf(stack)
      /\ offset \in Nat
  BY DEF IInv, Running, Bytes
<1>2. /\ Len(stack) \in Nat \ {0} /\ Top = stack[Len(stack)]
      /\ Top \in Frames /\ Placed(Top)
  BY <1>1, TopIs DEF Top
<1>3. Top.item \in Item /\ Top.kid \in Nat /\ Top.at \in Place
  BY <1>2 DEF Frames
<1>4. /\ It.value \in Seq(Symbol) /\ It.kids \in Seq(Item)
      /\ \A i \in Item : Tree[i].name \in Seq(Symbol)
  BY <1>3, PrintAssumption, TextSymbols DEF It
<1>5. KidsOf(Top) = Len(It.kids) /\ Len(It.kids) \in Nat
  BY <1>4 DEF KidsOf, It
<1>6. \A k \in 1..Len(It.kids) : It.kids[k] \in Item
  BY <1>4
<1>7. depth = IF Top.at = "value" THEN Len(stack) - 1 ELSE Len(stack)
  BY <1>1, <1>2 DEF DepthOf
<1> QED BY <1>1, <1>2, <1>3, <1>4, <1>5, <1>6, <1>7

\* A value that ends in a null byte, whether the offset stays at its start or
\* moves behind it; the printer returns from it.
LEMMA ValueKeeps ==
    ASSUME IInv, where = "printing", Top.at = "value", NEW b \in Seq(Symbol), NEW o,
           o \in {offset, offset + Len(b)},
           Write(Len(b) + 1, Append(b, Nul), [offset |-> o, depth |-> depth, stack |-> Returned])
    PROVE  IInv'
<1> DEFINE to == [offset |-> o, depth |-> depth, stack |-> Returned]
<1>1. /\ Append(b, Nul) \in Seq(Symbol) /\ Len(Append(b, Nul)) = Len(b) + 1
      /\ Append(b, Nul)[Len(b) + 1] = Nul /\ Len(b) \in Nat
  BY EndsInNul
<1>2. StackOK(Returned) /\ depth = DepthOf(Returned) /\ depth \in Nat /\ offset \in Nat
  BY PrintingIs, Returns DEF Returned
<1>3. Len(b) + 1 \in 1..Len(Append(b, Nul)) /\ o < offset + (Len(b) + 1) /\ o \in Nat
  BY <1>1, <1>2
<1>4. Allowed(Len(b) + 1, Append(b, Nul), to)
  BY <1>1, <1>2, <1>3 DEF Allowed
<1> QED BY <1>4, WriteKeeps

\* The constants' texts end in a null byte.
LEMMA ConstantDoes ==
    \A kind \in {"null", "true", "false"} : Constant(kind) \in Seq(Symbol)
<1>1. {"n", "u", "l", "t", "r", "e", "f", "a", "s"} \subseteq Symbol
  BY DEF Symbol
<1>2. <<"n", "u", "l", "l">> \in Seq(Symbol) /\ <<"t", "r", "u", "e">> \in Seq(Symbol)
  BY <1>1
<1>3. <<"f", "a", "l", "s", "e">> \in Seq(Symbol)
  BY <1>1
<1> QED BY <1>2, <1>3 DEF Constant

\* PrintConstant keeps the inductive invariant.
LEMMA PrintConstantKeeps == ASSUME IInv, PrintConstant PROVE IInv'
<1>1. where = "printing" /\ Top.at = "value" /\ Constant(It.kind) \in Seq(Symbol)
  BY ConstantDoes DEF PrintConstant, At
<1>2. offset \in {offset, offset + Len(Constant(It.kind))}
  OBVIOUS
<1> QED BY <1>1, <1>2, ValueKeeps DEF PrintConstant, WriteText

\* PrintNumber keeps the inductive invariant.
LEMMA PrintNumberKeeps == ASSUME IInv, PrintNumber PROVE IInv'
<1>1. where = "printing" /\ Top.at = "value" /\ It.value \in Seq(Symbol)
  BY PrintingIs DEF PrintNumber, At
<1>2. offset + Len(It.value) \in {offset, offset + Len(It.value)}
  OBVIOUS
<1> QED BY <1>1, <1>2, ValueKeeps DEF PrintNumber

\* PrintRaw keeps the inductive invariant.
LEMMA PrintRawKeeps == ASSUME IInv, PrintRaw PROVE IInv'
<1>1. where = "printing" /\ Top.at = "value" /\ It.value \in Seq(Symbol)
  BY PrintingIs DEF PrintRaw, At
<1>2. offset \in {offset, offset + Len(It.value)}
  OBVIOUS
<1> QED BY <1>1, <1>2, ValueKeeps DEF PrintRaw, WriteText

\* A string in quotes, of a value or a key.
LEMMA StringKeeps ==
    ASSUME IInv, where = "printing", NEW text \in Seq(Symbol), NEW frames,
           StackOK(frames), frames # <<>> => depth = DepthOf(frames),
           WriteString(text, frames)
    PROVE  IInv'
<1> DEFINE n == OutputLength(text)
           to == [offset |-> offset, depth |-> depth, stack |-> frames]
<1>1. /\ n \in Nat /\ QuotedBytes(text) \in Seq(Symbol) /\ Len(QuotedBytes(text)) = n + 3
      /\ QuotedBytes(text)[n + 3] = Nul
  BY QuotedDoes
<1> HIDE DEF n
<1>2. depth \in Nat /\ offset \in Nat
  BY PrintingIs
<1>3. n + 3 \in Nat /\ n + 3 \in 1..n + 3 /\ n + 3 <= n + 3 + 1 /\ offset < offset + (n + 3)
  BY <1>1, <1>2
<1>4. Allowed(n + 3, QuotedBytes(text), to)
  BY <1>1, <1>2, <1>3 DEF Allowed
<1>5. Write(n + 3, QuotedBytes(text), to)
  BY DEF WriteString, WriteText, QuotedBytes, n
<1> QED BY <1>4, <1>5, WriteKeeps

\* PrintString keeps the inductive invariant.
LEMMA PrintStringKeeps == ASSUME IInv, PrintString PROVE IInv'
<1>1. where = "printing" /\ Top.at = "value" /\ WriteString(It.value, Returned)
  BY DEF PrintString, At
<1>2. It.value \in Seq(Symbol) /\ StackOK(Returned) /\ depth = DepthOf(Returned)
  BY <1>1, PrintingIs, Returns DEF Returned
<1> QED BY <1>1, <1>2, StringKeeps

\* PrintNothing keeps the inductive invariant.
LEMMA PrintNothingKeeps == ASSUME IInv, PrintNothing PROVE IInv'
<1>1. Running'
  BY DEF PrintNothing, IInv, Running, StackOK
<1>2. Owned'
  BY DEF PrintNothing, At, IInv, Owned, Own, noalloc
<1> QED BY <1>1, <1>2 DEF PrintNothing, IInv, Bytes, StaysInside

\* UpdateOffset keeps the inductive invariant.
LEMMA UpdateOffsetKeeps == ASSUME IInv, UpdateOffset PROVE IInv'
<1>1. where = "printing" /\ Top.at \in {"returned", "named"} /\ where' = where
  BY DEF UpdateOffset
<1>2. offset' \in Nat
  <2>1. \E k \in offset + 1..Len(buffer) : buffer[k] = Nul
    BY <1>1 DEF IInv, StaysInside
  <2>2. Strlen(buffer, offset) \in Nat
    BY <2>1, StrlenDoes DEF IInv, Bytes
  <2> QED BY <2>2 DEF UpdateOffset, IInv, Bytes
<1> DEFINE f == [Top EXCEPT !.at = AfterText]
<1>3. f \in Frames /\ Placed(f) /\ f.at \in {"colon", "after", "comma", "close"}
  <2>1. Top \in Frames /\ Placed(Top) /\ KidsOf(Top) = Len(It.kids)
    BY <1>1, PrintingIs
  <2>2. AfterText \in {"colon", "after", "comma", "close"}
    BY DEF AfterText
  <2>3. f \in Frames /\ f.at = AfterText /\ f.kid = Top.kid /\ f.item = Top.item
    BY <2>1, <2>2 DEF Frames, Place
  <2>4. f.at = "comma" => f.kid < KidsOf(Top)
    BY <2>1, <2>3 DEF AfterText, More
  <2>5. f.at = "colon" => f.kid > 0
    BY <2>1, <2>3 DEF AfterText, Placed
  <2>6. KidsOf(f) = KidsOf(Top) /\ f.kid <= KidsOf(Top)
    BY <2>1, <2>3 DEF KidsOf, Placed
  <2> QED BY <2>2, <2>3, <2>4, <2>5, <2>6 DEF Placed
<1> HIDE DEF f
<1>4. /\ StackOK(stack') /\ DepthOf(stack') = Len(stack)
      /\ stack' # <<>> /\ Last(stack') = f
  <2>1. stack' = Append(Front(stack), f)
    BY DEF UpdateOffset, To, f
  <2> QED BY <1>1, <1>3, <2>1, PrintingIs, GoesOn
<1>5. depth' = Len(stack) /\ depth' \in Nat
  BY <1>1, PrintingIs DEF UpdateOffset
<1>6. Running'
  BY <1>1, <1>4, <1>5 DEF IInv, Running
<1>7. Owned'
  BY DEF UpdateOffset, IInv, Owned, Own, noalloc
<1>8. StaysInside'
  BY <1>1, <1>3, <1>4 DEF UpdateOffset, IInv, StaysInside, Top
<1> QED BY <1>2, <1>6, <1>7, <1>8 DEF UpdateOffset, IInv, Bytes

-----------------------------------------------------------------------------
\* Where a list goes on: at a place of its own, at a child, or at a member.
LEMMA ToDoes ==
    ASSUME IInv, where = "printing", NEW place \in {"close", "key", "named"},
           place # "close" => Top.kid > 0
    PROVE  /\ StackOK(To(place)) /\ DepthOf(To(place)) = Len(stack)
           /\ To(place) # <<>> /\ Last(To(place)).at = place
<1> DEFINE f == [Top EXCEPT !.at = place]
<1>1. Top \in Frames /\ Placed(Top)
  BY PrintingIs
<1>2. f \in Frames /\ f.at = place /\ f.kid = Top.kid /\ f.item = Top.item
  BY <1>1 DEF Frames, Place
<1>3. Placed(f)
  BY <1>1, <1>2 DEF Placed, KidsOf
<1> HIDE DEF f
<1>4. /\ StackOK(Append(Front(stack), f)) /\ DepthOf(Append(Front(stack), f)) = Len(stack)
      /\ Append(Front(stack), f) # <<>> /\ Last(Append(Front(stack), f)) = f
  BY <1>2, <1>3, PrintingIs, GoesOn
<1> QED BY <1>2, <1>4 DEF To, f

\* The frame of a print_value that is at another child and place.
Moved(f, k, place) == [f EXCEPT !.kid = k, !.at = place]

\* It is still a print_value of the same item.
LEMMA MovedDoes ==
    ASSUME NEW f \in Frames, NEW k \in Nat, NEW p \in Place
    PROVE  /\ Moved(f, k, p) \in Frames /\ Moved(f, k, p).at = p
           /\ Moved(f, k, p).kid = k /\ Moved(f, k, p).item = f.item
<1> DEFINE e == [f EXCEPT !.kid = k]
           g == [e EXCEPT !.at = p]
<1>1. e \in Frames /\ e.kid = k /\ e.item = f.item
  BY DEF Frames
<1> HIDE DEF e
<1>2. g \in Frames /\ g.at = p /\ g.kid = k /\ g.item = f.item
  BY <1>1 DEF Frames
<1> QED BY <1>2 DEF e, Moved

\* A child is in the tree, one level down.
LEMMA KidDoes ==
    ASSUME IInv, where = "printing", NEW k \in 1..Len(It.kids)
    PROVE  /\ StackOK(PrintKid(k)) /\ DepthOf(PrintKid(k)) = Len(stack)
           /\ PrintKid(k) # <<>> /\ Last(PrintKid(k)).at = "value"
<1> DEFINE f == Moved(Top, k, "returned")
<1>1. /\ Top \in Frames /\ KidsOf(Top) = Len(It.kids) /\ It.kids[k] \in Item
      /\ Len(It.kids) \in Nat
  BY PrintingIs
<1>2. f \in Frames /\ f.at = "returned" /\ f.kid = k /\ f.item = Top.item
  <2>1. k \in Nat /\ "returned" \in Place
    BY <1>1 DEF Place
  <2> QED BY <1>1, <2>1, MovedDoes
<1>3. Placed(f)
  BY <1>1, <1>2 DEF Placed, KidsOf
<1>4. Frame(It.kids[k]).at = "value"
  BY DEF Frame
<1> HIDE DEF f
<1>5. LET t == Append(Append(Front(stack), f), Frame(It.kids[k]))
      IN  /\ StackOK(t) /\ DepthOf(t) = Len(stack)
          /\ t # <<>> /\ Last(t) = Frame(It.kids[k])
  BY <1>1, <1>2, <1>3, PrintingIs, Calls
<1> QED BY <1>4, <1>5 DEF PrintKid, Moved, f

\* A member has a name to print.
LEMMA MemberDoes ==
    ASSUME IInv, where = "printing", NEW k \in 1..Len(It.kids)
    PROVE  /\ StackOK(Member(k)) /\ DepthOf(Member(k)) = Len(stack)
           /\ Member(k) # <<>> /\ Last(Member(k)).at \in {"indent", "key"}
<1> DEFINE f == Moved(Top, k, Formatted("indent", "key"))
<1>1. Top \in Frames /\ KidsOf(Top) = Len(It.kids) /\ Len(It.kids) \in Nat
  BY PrintingIs
<1>2. Formatted("indent", "key") \in {"indent", "key"}
  BY DEF Formatted
<1>3. /\ f \in Frames /\ f.at \in {"indent", "key"}
      /\ f.kid = k /\ f.item = Top.item
  <2>1. k \in Nat /\ Formatted("indent", "key") \in Place
    BY <1>1, <1>2 DEF Place
  <2> QED BY <1>1, <1>2, <2>1, MovedDoes
<1>4. Placed(f)
  BY <1>1, <1>3 DEF Placed, KidsOf
<1> HIDE DEF f
<1>5. /\ StackOK(Append(Front(stack), f)) /\ DepthOf(Append(Front(stack), f)) = Len(stack)
      /\ Append(Front(stack), f) # <<>> /\ Last(Append(Front(stack), f)) = f
  BY <1>3, <1>4, PrintingIs, GoesOn
<1> QED BY <1>3, <1>5 DEF Member, Moved, f

\* A list goes on, whatever it has written, where nobody calls strlen.
LEMMA ListKeeps ==
    ASSUME IInv, where = "printing", NEW needed \in Nat, NEW bytes \in Seq(Symbol),
           Len(bytes) <= needed + 1, NEW o \in Nat, NEW d, d = Len(stack), NEW frames,
           StackOK(frames), DepthOf(frames) = Len(stack), frames # <<>>,
           Last(frames).at \notin {"returned", "named"},
           Write(needed, bytes, [offset |-> o, depth |-> d, stack |-> frames])
    PROVE  IInv'
<1> DEFINE to == [offset |-> o, depth |-> d, stack |-> frames]
<1>1. d \in Nat
  BY PrintingIs
<1>2. Allowed(needed, bytes, to)
  BY <1>1 DEF Allowed
<1> QED BY <1>2, WriteKeeps

\* A list is closed with a null byte.
LEMMA CloseKeeps ==
    ASSUME IInv, where = "printing", Top.at # "value",
           NEW needed \in Nat, NEW bytes \in Seq(Symbol), Len(bytes) <= needed + 1,
           Len(bytes) > 0, bytes[Len(bytes)] = Nul,
           Write(needed, bytes, [offset |-> offset, depth |-> depth - 1, stack |-> Returned])
    PROVE  IInv'
<1> DEFINE to == [offset |-> offset, depth |-> depth - 1, stack |-> Returned]
<1>1. /\ StackOK(Returned) /\ depth - 1 = DepthOf(Returned) /\ depth - 1 \in Nat
      /\ offset \in Nat
  BY PrintingIs, Returns DEF Returned
<1>2. Len(bytes) \in 1..Len(bytes) /\ offset < offset + Len(bytes)
  BY <1>1
<1>3. Allowed(needed, bytes, to)
  BY <1>1, <1>2 DEF Allowed
<1> QED BY <1>3, WriteKeeps

\* The characters that lists are printed with.
LEMMA LiteralsAreSymbols ==
    {"[", "]", "{", "}", ",", ":", " ", "\n", "\t", Nul} \subseteq Symbol
BY DEF Symbol

\* OpenArray keeps the inductive invariant.
LEMMA OpenArrayKeeps == ASSUME IInv, OpenArray PROVE IInv'
<1> DEFINE frames == IF More THEN PrintKid(1) ELSE To("close")
           b == <<"[">>
<1>1. where = "printing" /\ Top.at = "value"
  BY DEF OpenArray, At
<1>2. depth + 1 = Len(stack) /\ offset + 1 \in Nat
  BY <1>1, PrintingIs
<1>3. /\ StackOK(frames) /\ DepthOf(frames) = Len(stack) /\ frames # <<>>
      /\ Last(frames).at \notin {"returned", "named"}
  <2>1. More => 1 \in 1..Len(It.kids)
    BY <1>1, PrintingIs DEF More
  <2> QED BY <1>1, <2>1, KidDoes, ToDoes
<1> HIDE DEF frames
<1>4. b \in Seq(Symbol) /\ Len(b) = 1
  BY LiteralsAreSymbols, OneDoes
<1>5. Write(1, b, [offset |-> offset + 1, depth |-> depth + 1, stack |-> frames])
  BY DEF OpenArray, frames
<1> HIDE DEF b
<1>6. 1 \in Nat /\ Len(b) <= 1 + 1
  BY <1>4
<1> QED BY <1>1, <1>2, <1>3, <1>4, <1>5, <1>6, ListKeeps

\* Comma keeps the inductive invariant.
LEMMA CommaKeeps == ASSUME IInv, Comma PROVE IInv'
<1> DEFINE b == Formatted(<<",", " ">>, <<",">>)
           k == Top.kid + 1
<1>1. where = "printing" /\ Top.at = "comma"
  BY DEF Comma, At
<1>2. depth = Len(stack) /\ offset \in Nat
  BY <1>1, PrintingIs
<1>3. k \in 1..Len(It.kids)
  BY <1>1, PrintingIs DEF Placed
<1>4. b \in Seq(Symbol)
  BY LiteralsAreSymbols, OneDoes, PairDoes DEF Formatted
<1>5. Write(Len(b) + 1, Append(b, Nul),
            [offset |-> offset + Len(b), depth |-> depth, stack |-> PrintKid(k)])
  BY DEF Comma
<1> HIDE DEF b, k
<1>6. /\ Append(b, Nul) \in Seq(Symbol) /\ Len(Append(b, Nul)) = Len(b) + 1
      /\ Len(b) + 1 \in Nat /\ offset + Len(b) \in Nat /\ Len(b) + 1 <= Len(b) + 1 + 1
  BY <1>2, <1>4, EndsInNul
<1> QED BY <1>1, <1>2, <1>3, <1>5, <1>6, KidDoes, ListKeeps

\* CloseArray keeps the inductive invariant.
LEMMA CloseArrayKeeps == ASSUME IInv, CloseArray PROVE IInv'
<1> DEFINE b == <<"]", Nul>>
<1>1. where = "printing" /\ Top.at # "value"
  BY DEF CloseArray, At
<1>2. b \in Seq(Symbol) /\ Len(b) = 2 /\ b[2] = Nul
  BY LiteralsAreSymbols, PairDoes
<1>3. Write(2, b, [offset |-> offset, depth |-> depth - 1, stack |-> Returned])
  BY DEF CloseArray
<1> HIDE DEF b
<1>4. 2 \in Nat /\ Len(b) <= 2 + 1 /\ Len(b) > 0 /\ b[Len(b)] = Nul
  BY <1>2
<1> QED BY <1>1, <1>2, <1>3, <1>4, CloseKeeps

\* OpenObject keeps the inductive invariant.
LEMMA OpenObjectKeeps == ASSUME IInv, OpenObject PROVE IInv'
<1> DEFINE b == Formatted(<<"{", "\n">>, <<"{">>)
           frames == IF More THEN Member(1) ELSE To("close")
<1>1. where = "printing" /\ Top.at = "value"
  BY DEF OpenObject, At
<1>2. depth + 1 = Len(stack) /\ offset \in Nat
  BY <1>1, PrintingIs
<1>3. /\ StackOK(frames) /\ DepthOf(frames) = Len(stack) /\ frames # <<>>
      /\ Last(frames).at \notin {"returned", "named"}
  <2>1. More => 1 \in 1..Len(It.kids)
    BY <1>1, PrintingIs DEF More
  <2> QED BY <1>1, <2>1, MemberDoes, ToDoes
<1>4. b \in Seq(Symbol)
  BY LiteralsAreSymbols, OneDoes, PairDoes DEF Formatted
<1>5. Write(Len(b) + 1, b, [offset |-> offset + Len(b), depth |-> depth + 1, stack |-> frames])
  BY DEF OpenObject
<1> HIDE DEF b, frames
<1>6. Len(b) + 1 \in Nat /\ offset + Len(b) \in Nat /\ Len(b) <= Len(b) + 1 + 1
  BY <1>2, <1>4
<1> QED BY <1>1, <1>2, <1>3, <1>4, <1>5, <1>6, ListKeeps

\* Indent keeps the inductive invariant.
LEMMA IndentKeeps == ASSUME IInv, Indent PROVE IInv'
<1>1. where = "printing" /\ Top.at = "indent"
  BY DEF Indent, At
<1>2. depth = Len(stack) /\ depth \in Nat /\ offset + depth \in Nat /\ Top.kid > 0
  BY <1>1, PrintingIs DEF Placed
<1>3. Tabs(depth) \in Seq(Symbol) /\ Len(Tabs(depth)) <= depth + 1
  BY <1>2, TabsDo
<1>4. Write(depth, Tabs(depth), [offset |-> offset + depth, depth |-> depth, stack |-> To("key")])
  BY DEF Indent
<1>5. /\ StackOK(To("key")) /\ DepthOf(To("key")) = Len(stack)
      /\ To("key") # <<>> /\ Last(To("key")).at = "key"
  BY <1>1, <1>2, ToDoes
<1> QED BY <1>1, <1>2, <1>3, <1>4, <1>5, ListKeeps

\* Key keeps the inductive invariant.
LEMMA KeyKeeps == ASSUME IInv, Key PROVE IInv'
<1> DEFINE name == Tree[It.kids[Top.kid]].name
<1>1. where = "printing" /\ Top.at = "key" /\ WriteString(name, To("named"))
  BY DEF Key, At
<1>2. Top.kid > 0 /\ name \in Seq(Symbol) /\ depth = Len(stack)
  <2>1. Top.kid > 0 /\ Top.kid \in 1..Len(It.kids)
    BY <1>1, PrintingIs DEF Placed
  <2> QED BY <1>1, <2>1, PrintingIs
<1> HIDE DEF name
<1>3. StackOK(To("named")) /\ DepthOf(To("named")) = Len(stack)
  BY <1>1, <1>2, ToDoes
<1> QED BY <1>1, <1>2, <1>3, StringKeeps

\* Colon keeps the inductive invariant.
LEMMA ColonKeeps == ASSUME IInv, Colon PROVE IInv'
<1> DEFINE b == Formatted(<<":", "\t">>, <<":">>)
           k == Top.kid
<1>1. where = "printing" /\ Top.at = "colon"
  BY DEF Colon, At
<1>2. depth = Len(stack) /\ offset \in Nat /\ k \in 1..Len(It.kids)
  BY <1>1, PrintingIs DEF Placed
<1>3. b \in Seq(Symbol)
  BY LiteralsAreSymbols, OneDoes, PairDoes DEF Formatted
<1>4. Write(Len(b), b, [offset |-> offset + Len(b), depth |-> depth, stack |-> PrintKid(k)])
  BY DEF Colon
<1> HIDE DEF b, k
<1>5. Len(b) \in Nat /\ offset + Len(b) \in Nat /\ Len(b) <= Len(b) + 1
  BY <1>2, <1>3
<1> QED BY <1>1, <1>2, <1>3, <1>4, <1>5, KidDoes, ListKeeps

\* AfterMember keeps the inductive invariant.
LEMMA AfterMemberKeeps == ASSUME IInv, AfterMember PROVE IInv'
<1> DEFINE c == IF More THEN <<",">> ELSE <<>>
           e == Formatted(<<"\n">>, <<>>)
           b == c \o e
           frames == IF More THEN Member(Top.kid + 1) ELSE To("close")
<1>1. where = "printing" /\ Top.at = "after"
  BY DEF AfterMember, At
<1>2. depth = Len(stack) /\ offset \in Nat
  BY <1>1, PrintingIs
<1>3. /\ StackOK(frames) /\ DepthOf(frames) = Len(stack) /\ frames # <<>>
      /\ Last(frames).at \notin {"returned", "named"}
  <2>1. More => Top.kid + 1 \in 1..Len(It.kids)
    BY <1>1, PrintingIs DEF More
  <2> QED BY <1>1, <2>1, MemberDoes, ToDoes
<1>4. c \in Seq(Symbol) /\ e \in Seq(Symbol)
  <2>1. <<>> \in Seq(Symbol)
    OBVIOUS
  <2> QED BY <2>1, LiteralsAreSymbols, OneDoes DEF Formatted
<1>5. Write(Len(b) + 1, Append(b, Nul),
            [offset |-> offset + Len(b), depth |-> depth, stack |-> frames])
  BY DEF AfterMember
<1> HIDE DEF c, e, frames
<1>6. b \in Seq(Symbol)
  BY <1>4, ConcatDoes
<1> HIDE DEF b
<1>7. /\ Append(b, Nul) \in Seq(Symbol) /\ Len(Append(b, Nul)) = Len(b) + 1
      /\ Len(b) + 1 \in Nat /\ offset + Len(b) \in Nat /\ Len(b) + 1 <= Len(b) + 1 + 1
  BY <1>2, <1>6, EndsInNul
<1> QED BY <1>1, <1>2, <1>3, <1>5, <1>7, ListKeeps

\* CloseObject keeps the inductive invariant.
LEMMA CloseObjectKeeps == ASSUME IInv, CloseObject PROVE IInv'
<1> DEFINE n == Formatted(depth - 1, 0)
           e == <<"}", Nul>>
           b == Tabs(n) \o e
           needed == Formatted(depth + 1, 2)
<1>1. where = "printing" /\ Top.at = "close"
  BY DEF CloseObject, At
<1>2. n \in Nat /\ needed = n + 2
  <2>1. depth - 1 \in Nat /\ depth \in Nat
    BY <1>1, PrintingIs
  <2> QED BY <2>1 DEF Formatted
<1>3. Write(needed, b, [offset |-> offset, depth |-> depth - 1, stack |-> Returned])
  BY DEF CloseObject
<1>4. e \in Seq(Symbol) /\ Len(e) = 2 /\ e[2] = Nul
  BY LiteralsAreSymbols, PairDoes
<1> HIDE DEF n, e, needed
<1>5. Tabs(n) \in Seq(Symbol) /\ Len(Tabs(n)) = n
  BY <1>2, TabsDo
<1>6. b \in Seq(Symbol) /\ Len(b) = n + 2
  <2>1. b \in Seq(Symbol) /\ Len(b) = Len(Tabs(n)) + Len(e)
    BY <1>4, <1>5, ConcatDoes
  <2> HIDE DEF b
  <2> QED BY <1>4, <1>5, <2>1
<1>7. b[Len(b)] = Nul
  <2>1. 2 \in 1..Len(e) /\ b[Len(Tabs(n)) + 2] = e[2]
    BY <1>4, <1>5, ConcatDoes
  <2>2. b[n + 2] = e[2]
    BY <1>5, <2>1
  <2> QED BY <1>4, <1>6, <2>2
<1> HIDE DEF b
<1>8. needed \in Nat /\ Len(b) <= needed + 1 /\ Len(b) > 0
  BY <1>2, <1>6
<1> QED BY <1>1, <1>3, <1>6, <1>7, <1>8, CloseKeeps

\* PrintValue keeps the inductive invariant.
LEMMA PrintValueKeeps == ASSUME IInv, PrintValue PROVE IInv'
BY PrintConstantKeeps, PrintNumberKeeps, PrintRawKeeps, PrintStringKeeps, PrintNothingKeeps,
   UpdateOffsetKeeps, OpenArrayKeeps, CommaKeeps, CloseArrayKeeps, OpenObjectKeeps,
   IndentKeeps, KeyKeeps, ColonKeeps, AfterMemberKeeps, CloseObjectKeeps DEF PrintValue

-----------------------------------------------------------------------------
\* The calls of the library around print_value.
LEMMA BeginKeeps ==
    ASSUME IInv, NEW name \in {"print", "buffered", "preallocated"}, NEW i \in Item,
           NEW format, NEW n \in Nat, Begin(name, i, format, n)
    PROVE  IInv'
<1>1. where = "idle" /\ depth = 0 /\ depth' = 0 /\ blocks = 0 /\ ~lost /\ ~lost'
  BY DEF IInv, Running, Owned, Begin
<1>2. Running'
  <2>1. Frame(i) \in Frames /\ Placed(Frame(i)) /\ Frame(i).at = "value"
    BY PrintAssumption DEF Frame, Frames, Place, Placed, KidsOf, Item
  <2>2. stack' \in Seq(Frames) /\ Len(stack') = 1 /\ stack'[1] = Frame(i) /\ stack' # <<>>
    BY <2>1 DEF Begin
  <2>3. StackOK(stack') /\ DepthOf(stack') = 0
    BY <2>1, <2>2 DEF StackOK, DepthOf
  <2> QED BY <1>1, <2>2, <2>3 DEF Begin, Running
<1>3. Bytes' /\ Len(buffer') = length'
  <2>1. <<>> \in Seq(Symbol) /\ 0 \in Nat
    OBVIOUS
  <2>2. Fresh(<<>>, 0, n) \in Seq(Symbol) /\ Len(Fresh(<<>>, 0, n)) = n
    BY <2>1, FreshDoes
  <2> QED BY <2>2 DEF IInv, Bytes, Begin
<1>4. Owned'
  <2>1. noalloc' <=> name = "preallocated"
    BY DEF Begin, noalloc
  <2>2. blocks' = Own' /\ blocks' \in Int
    BY <1>1, <2>1 DEF Begin, Own
  <2>3. where' = "printing" /\ lost' \in BOOLEAN
    BY DEF Begin, IInv, Owned
  <2> QED BY <1>1, <2>2, <2>3 DEF Owned
<1>5. StaysInside'
  <2>1. Last(stack').at = "value" /\ where' = "printing"
    BY DEF Begin, Last, Frame
  <2> QED BY <1>3, <2>1 DEF StaysInside, Top
<1> QED BY <1>2, <1>3, <1>4, <1>5 DEF IInv

\* BeginFails keeps the inductive invariant.
LEMMA BeginFailsKeeps ==
    ASSUME IInv, NEW name, NEW i, NEW format, BeginFails(name, i, format)
    PROVE  IInv'
<1>1. Running'
  BY DEF BeginFails, IInv, Running
<1>2. Owned'
  BY DEF BeginFails, IInv, Owned
<1> QED BY <1>1, <1>2 DEF BeginFails, IInv, Bytes, StaysInside

\* Return keeps the inductive invariant.
LEMMA ReturnKeeps == ASSUME IInv, Return PROVE IInv'
<1>1. Running'
  BY DEF Return, IInv, Running
<1>2. Owned'
  BY DEF Return, IInv, Owned, Own, noalloc
<1> QED BY <1>1, <1>2 DEF Return, IInv, Bytes, StaysInside

\* Shrink keeps the inductive invariant.
LEMMA ShrinkKeeps == ASSUME IInv, Shrink PROVE IInv'
<1> DEFINE end == offset + Strlen(buffer, offset)
<1>1. /\ Bytes /\ Len(buffer) = length /\ where = "printed" /\ where' = "returned"
      /\ \E k \in offset + 1..Len(buffer) : buffer[k] = Nul
  BY DEF Shrink, IInv, StaysInside
<1>2. end \in Nat /\ end < length /\ buffer[end + 1] = Nul
  BY <1>1, StrlenDoes DEF Bytes
<1>3. /\ buffer' = IF reallocate THEN Fresh(buffer, length, end + 1)
                   ELSE Over(Fresh(buffer, Smaller(length, end + 1), end + 1), end, <<Nul>>)
      /\ length' = end + 1 /\ offset' = end
  BY DEF Shrink
<1> HIDE DEF end
<1>4. buffer' \in Seq(Symbol) /\ Len(buffer') = length' /\ buffer'[end + 1] = Nul
  <2>1. end + 1 \in Nat /\ length \in Nat /\ Smaller(length, end + 1) \in Nat
    BY <1>1, <1>2 DEF Bytes, Smaller
  <2>2. CASE reallocate
    <3>1. Fresh(buffer, length, end + 1)[end + 1] = buffer[end + 1]
      BY <1>1, <1>2, <2>1 DEF Fresh, Smaller
    <3>2. /\ Fresh(buffer, length, end + 1) \in Seq(Symbol)
          /\ Len(Fresh(buffer, length, end + 1)) = end + 1
      BY <1>1, <2>1, FreshDoes DEF Bytes
    <3> QED BY <1>2, <1>3, <2>2, <3>1, <3>2
  <2>3. CASE ~reallocate
    <3> DEFINE f == Fresh(buffer, Smaller(length, end + 1), end + 1)
    <3>1. f \in Seq(Symbol) /\ Len(f) = end + 1
      BY <1>1, <2>1, FreshDoes DEF Bytes
    <3>2. <<Nul>> \in Seq(Symbol) /\ Len(<<Nul>>) = 1 /\ <<Nul>>[1] = Nul
      BY LiteralsAreSymbols, OneDoes
    <3> HIDE DEF f
    <3>3. /\ Over(f, end, <<Nul>>) \in Seq(Symbol) /\ Len(Over(f, end, <<Nul>>)) = Len(f)
          /\ \A j \in 1..Len(<<Nul>>) : Over(f, end, <<Nul>>)[end + j] = <<Nul>>[j]
      <4>1. end + Len(<<Nul>>) <= Len(f)
        BY <1>2, <3>1, <3>2
      <4> QED BY <1>2, <3>1, <3>2, <4>1, Lands, ZenonT(60)
    <3>4. 1 \in 1..Len(<<Nul>>)
      BY <3>2
    <3>5. Over(f, end, <<Nul>>)[end + 1] = Nul
      BY <3>2, <3>3, <3>4
    <3>6. buffer' = Over(f, end, <<Nul>>)
      BY <1>3, <2>3 DEF f
    <3> QED BY <1>3, <3>1, <3>3, <3>5, <3>6
  <2> QED BY <2>2, <2>3
<1>5. Running'
  BY <1>1 DEF Shrink, IInv, Running
<1>6. Bytes'
  BY <1>2, <1>3, <1>4 DEF Bytes
<1>7. Owned'
  BY DEF Shrink, IInv, Owned, Own, noalloc
<1>8. StaysInside'
  <2>1. end + 1 \in offset' + 1..length'
    BY <1>2, <1>3
  <2> QED BY <1>4, <2>1 DEF StaysInside
<1> QED BY <1>5, <1>6, <1>7, <1>8 DEF IInv

\* ShrinkFails keeps the inductive invariant.
LEMMA ShrinkFailsKeeps == ASSUME IInv, ShrinkFails PROVE IInv'
<1>1. Running'
  BY DEF ShrinkFails, IInv, Running
<1>2. Owned'
  BY DEF ShrinkFails, IInv, Owned, Own, noalloc
<1> QED BY <1>1, <1>2 DEF ShrinkFails, IInv, Bytes, StaysInside

\* Fail keeps the inductive invariant.
LEMMA FailKeeps == ASSUME IInv, Fail PROVE IInv'
<1>1. Running'
  BY DEF Fail, IInv, Running
<1>2. Owned'
  BY DEF Fail, IInv, Owned, Own, noalloc
<1> QED BY <1>1, <1>2 DEF Fail, IInv, Bytes, StaysInside

\* Release keeps the inductive invariant.
LEMMA ReleaseKeeps == ASSUME IInv, Release PROVE IInv'
<1>1. Running'
  BY DEF Release, IInv, Running
<1>2. Owned'
  <2>1. where' = "idle" /\ lost' = FALSE
    BY DEF Release
  <2>2. blocks' = 0
    BY DEF Release, IInv, Owned, Own
  <2>3. ~lost' /\ lost' \in BOOLEAN
    BY <2>1, Zenon
  <2> QED BY <2>1, <2>2, <2>3 DEF Owned
<1> QED BY <1>1, <1>2 DEF Release, IInv, Bytes, StaysInside

\* InitHooks keeps the inductive invariant.
LEMMA InitHooksKeeps == ASSUME IInv, InitHooks PROVE IInv'
<1>1. Running'
  BY DEF InitHooks, IInv, Running
<1>2. Owned'
  BY DEF InitHooks, IInv, Owned, Own, noalloc
<1> QED BY <1>1, <1>2 DEF InitHooks, IInv, Bytes, StaysInside

-----------------------------------------------------------------------------
\* The printer is always where its stack says, and its buffer as it should be.
THEOREM IInvAlways == Spec => []IInv
<1>1. Init => IInv
  <2> SUFFICES ASSUME Init PROVE IInv
    OBVIOUS
  <2>1. <<>> \in Seq(Frames) /\ <<>> \in Seq(Symbol) /\ Len(<<>>) = 0
    OBVIOUS
  <2>2. Running
    BY <2>1 DEF Init, Running, StackOK
  <2>3. Bytes /\ StaysInside
    BY <2>1 DEF Init, Bytes, StaysInside
  <2>4. Owned
    <3>1. ~lost /\ lost \in BOOLEAN
      BY Zenon DEF Init
    <3>2. where = "idle" /\ blocks = 0 /\ blocks \in Int
      BY DEF Init
    <3> QED BY <3>1, <3>2 DEF Owned
  <2> QED BY <2>2, <2>3, <2>4 DEF IInv
<1>2. ASSUME IInv, [Next]_vars PROVE IInv'
  <2>1. ASSUME NEW i \in Item, NEW f \in BOOLEAN, Begin("print", i, f, DefaultSize)
        PROVE  IInv'
    BY <1>2, <2>1, PrintAssumption, BeginKeeps
  <2>2. ASSUME NEW i \in Item, NEW f \in BOOLEAN, NEW n \in Room,
               Begin("buffered", i, f, n) \/ Begin("preallocated", i, f, n)
        PROVE  IInv'
    BY <1>2, <2>2, PrintAssumption, BeginKeeps
  <2>3. ASSUME NEW i \in Item, NEW f \in BOOLEAN, NEW name \in {"print", "buffered"},
               BeginFails(name, i, f)
        PROVE  IInv'
    BY <1>2, <2>3, BeginFailsKeeps
  <2>4. CASE PrintValue
    BY <1>2, <2>4, PrintValueKeeps
  <2>5. CASE Return \/ Shrink \/ ShrinkFails \/ Fail \/ Release \/ InitHooks
    BY <1>2, <2>5, ReturnKeeps, ShrinkKeeps, ShrinkFailsKeeps, FailKeeps, ReleaseKeeps,
       InitHooksKeeps
  <2>6. CASE UNCHANGED vars
    BY <1>2, <2>6 DEF vars, IInv, Running, Bytes, Owned, Own, noalloc, StaysInside, Top
  <2> QED BY <1>2, <2>1, <2>2, <2>3, <2>4, <2>5, <2>6 DEF Next
<1> QED BY <1>1, <1>2, PTL DEF Spec

\* Nothing is ever written behind the end of a buffer, however small the caller
\* made it, and strlen finds a null byte wherever the printer looks for one.
THEOREM StaysInsideAlways == Spec => []StaysInside
BY IInvAlways, PTL DEF IInv

\* A call that fails has freed the memory it took, once, and one that succeeds
\* leaves its caller exactly the text.
THEOREM BuffersFreedAlways == Spec => []BuffersFreed
<1>1. IInv => BuffersFreed
  BY DEF IInv, Owned, Own, BuffersFreed
<1> QED BY <1>1, IInvAlways, PTL

-----------------------------------------------------------------------------
\* What is before the place where a text is written stays.
LEMMA OverKeeps ==
    ASSUME NEW b \in Seq(Symbol), NEW n \in Nat, NEW s \in Seq(Symbol), n <= Len(b)
    PROVE  \A i \in 1..n : Over(b, n, s)[i] = b[i]
<1> SUFFICES ASSUME NEW i \in 1..n PROVE Over(b, n, s)[i] = b[i]
  OBVIOUS
<1>1. i \in 1..Larger(Len(b), n + Len(s)) /\ i \notin n + 1..n + Len(s) /\ i <= Len(b)
  BY DEF Larger
<1> QED BY <1>1 DEF Over

\* The quoted text is what print_string_ptr writes, but for the null byte.
LEMMA QuotedIs ==
    ASSUME NEW text \in Seq(Letter)
    PROVE  /\ Quoted(text) \in Seq(Letter) /\ Len(Quoted(text)) = OutputLength(text) + 2
           /\ OutputLength(text) \in Nat
           /\ \A i \in 1..OutputLength(text) + 2 : QuotedBytes(text)[i] = Quoted(text)[i]
<1> DEFINE n == OutputLength(text)
           quote == "\""
           q == <<quote>>
           b == q \o EscapedText(text)
           e == <<quote, Nul>>
<1>1. EscapedText(text) \in Seq(Letter) /\ n = Len(EscapedText(text)) /\ n \in Nat
  <2>1. EscapedText(text) \in Seq(Letter) /\ n = Len(EscapedText(text))
    BY Letter \in {Symbol, Letter}, CountedRight
  <2> QED BY <2>1
<1>2. quote \in Letter /\ quote \in Symbol /\ Nul \in Symbol
  BY LiteralsAreLetters DEF Letter, Symbol
<1>3. Quoted(text) = b \o q
  BY DEF Quoted
<1>4. QuotedBytes(text) = Over(b, n + 1, e)
  BY DEF QuotedBytes
<1> HIDE DEF quote, n
<1>5. q \in Seq(Letter) /\ Len(q) = 1 /\ q[1] = quote
  BY <1>2, OneDoes
<1>6. e \in Seq(Symbol) /\ Len(e) = 2 /\ e[1] = quote
  BY <1>2, PairDoes
<1> HIDE DEF e, q
<1>7. b \in Seq(Letter) /\ Len(b) = n + 1 /\ b \in Seq(Symbol)
  <2>1. b \in Seq(Letter) /\ Len(b) = Len(q) + Len(EscapedText(text))
    BY <1>1, <1>5, ConcatDoes
  <2> HIDE DEF b
  <2>2. Len(b) = n + 1
    BY <1>1, <1>5, <2>1
  <2>3. b \in Seq(Symbol)
    BY <2>1, TextLetters
  <2> QED BY <2>1, <2>2, <2>3
<1> HIDE DEF b
<1>8. /\ Quoted(text) \in Seq(Letter) /\ Len(Quoted(text)) = n + 2
      /\ Quoted(text)[n + 2] = quote /\ \A i \in 1..n + 1 : Quoted(text)[i] = b[i]
  <2>1. /\ b \o q \in Seq(Letter) /\ Len(b \o q) = Len(b) + Len(q)
        /\ (b \o q)[Len(b) + 1] = q[1]
        /\ \A i \in 1..Len(b) : (b \o q)[i] = b[i]
    <3>1. b \in Seq(Letter) /\ q \in Seq(Letter) /\ 1 \in 1..Len(q)
      BY <1>5, <1>7
    <3> QED BY <3>1, ConcatDoes, ConcatBegins
  <2>2. Len(b) + Len(q) = n + 2 /\ Len(b) + 1 = n + 2
    BY <1>1, <1>5, <1>7
  <2> QED BY <1>3, <1>5, <1>7, <2>1, <2>2
<1>9. \A i \in 1..n + 1 : QuotedBytes(text)[i] = b[i]
  <2>1. n + 1 \in Nat /\ n + 1 <= Len(b)
    BY <1>1, <1>7
  <2> QED BY <1>4, <1>6, <1>7, <2>1, OverKeeps
<1>10. QuotedBytes(text)[n + 2] = quote
  <2>1. n + 1 \in Nat /\ 1 \in 1..Len(e) /\ (n + 1) + 1 = n + 2
    BY <1>1, <1>6
  <2>2. Over(b, n + 1, e)[(n + 1) + 1] = e[1]
    BY <1>6, <1>7, <2>1, OverDoes
  <2> QED BY <1>4, <1>6, <2>1, <2>2
<1>11. \A i \in 1..n + 2 : i = n + 2 \/ i \in 1..n + 1
  BY <1>1
<1> QED BY <1>1, <1>8, <1>9, <1>10, <1>11 DEF n

\* The indentation is of letters.
LEMMA TabLetters ==
    ASSUME NEW n \in Nat
    PROVE  Tabs(n) \in Seq(Letter) /\ Len(Tabs(n)) = n /\ Tabs(0) = <<>>
<1>1. Tabs(n) \in Seq(Letter) /\ Len(Tabs(n)) = n
  <2>1. "\t" \in Letter
    BY LiteralsAreLetters
  <2> QED BY <2>1 DEF Tabs
<1>2. Tabs(0) = <<>>
  <2>1. Tabs(0) \in Seq({"\t"}) /\ Len(Tabs(0)) = 0
    BY DEF Tabs
  <2> QED BY <2>1, EmptySeq
<1> QED BY <1>1, <1>2

\* So are the constants and what lists are printed with.
LEMMA ListLetters ==
    /\ \A kind \in {"null", "true", "false"} : Constant(kind) \in Seq(Letter)
    /\ \A f \in BOOLEAN : Newline(f) \in Seq(Letter) /\ ColonText(f) \in Seq(Letter)
    /\ \A f \in BOOLEAN, kind \in Kind :
          OpenText(kind, f) \in Seq(Letter) /\ BetweenText(kind, f) \in Seq(Letter)
    /\ \A f \in BOOLEAN, kind \in Kind, d \in Nat : CloseText(kind, f, d) \in Seq(Letter)
    /\ \A f \in BOOLEAN, i \in Item : LastText(i, f) \in Seq(Letter)
<1>1. /\ \A x \in Letter : <<x>> \in Seq(Letter)
      /\ \A x, y \in Letter : <<x, y>> \in Seq(Letter)
      /\ <<>> \in Seq(Letter)
  OBVIOUS
<1>2. \A kind \in {"null", "true", "false"} : Constant(kind) \in Seq(Letter)
  <2>1. {"n", "u", "l", "t", "r", "e", "f", "a", "s"} \subseteq Letter
    BY LiteralsAreLetters
  <2>2. <<"n", "u", "l", "l">> \in Seq(Letter) /\ <<"t", "r", "u", "e">> \in Seq(Letter)
    BY <2>1
  <2>3. <<"f", "a", "l", "s", "e">> \in Seq(Letter)
    BY <2>1
  <2> QED BY <2>2, <2>3 DEF Constant
<1>3. \A f : Newline(f) \in Seq(Letter) /\ ColonText(f) \in Seq(Letter)
  BY <1>1, LiteralsAreLetters DEF Newline, ColonText
<1>4. \A f, kind : OpenText(kind, f) \in Seq(Letter) /\ BetweenText(kind, f) \in Seq(Letter)
  <2>1. \A x \in Letter, t \in Seq(Letter) : <<x>> \o t \in Seq(Letter)
    BY <1>1, ConcatLetters
  <2> QED BY <1>1, <1>3, <2>1, LiteralsAreLetters DEF OpenText, BetweenText
<1>5. \A f, kind : \A d \in Nat : CloseText(kind, f, d) \in Seq(Letter)
  <2>1. \A n \in Nat, x \in Letter : Tabs(n) \o <<x>> \in Seq(Letter)
    BY <1>1, TabLetters, ConcatLetters
  <2> QED BY <1>1, <2>1, LiteralsAreLetters DEF CloseText
<1>6. \A f, i : LastText(i, f) \in Seq(Letter)
  BY <1>3 DEF LastText
<1> QED BY <1>2, <1>3, <1>4, <1>5, <1>6

\* The texts of a list, from its end to its k-th one.
LEMMA JoinedDoes ==
    ASSUME NEW texts \in Seq(Seq(Letter)), NEW between \in Seq(Letter)
    PROVE  /\ Joined(texts, between, Len(texts) + 1) = <<>>
           /\ \A k \in 1..Len(texts) + 1 : Joined(texts, between, k) \in Seq(Letter)
           /\ \A k \in 1..Len(texts) :
                 Joined(texts, between, k) =
                     (IF k = 1 THEN <<>> ELSE between) \o (texts[k] \o Joined(texts, between, k + 1))
<1> DEFINE N == Len(texts)
           Sep(k) == IF k = 1 THEN <<>> ELSE between
           ends(f) == f = [n \in 0..N |-> IF n = 0 THEN <<>>
                                          ELSE Sep(N + 1 - n) \o (texts[N + 1 - n] \o f[n - 1])]
           last == CHOOSE f : ends(f)
           step == [n \in 1..N |-> [x \in Seq(Letter) |->
                                        Sep(N + 1 - n) \o (texts[N + 1 - n] \o x)]]
<1>1. N \in Nat /\ \A k \in 1..N : texts[k] \in Seq(Letter) /\ N + 1 - k \in 1..N
  OBVIOUS
<1>2. \A k : Joined(texts, between, k) = last[N + 1 - k]
  BY DEF Joined
<1>3. <<>> \in Seq(Letter) /\ \A k : Sep(k) \in Seq(Letter)
  OBVIOUS
<1> HIDE DEF N, Sep
<1>4. step \in [1..N -> [Seq(Letter) -> Seq(Letter)]]
  <2>1. ASSUME NEW n \in 1..N, NEW x \in Seq(Letter)
        PROVE  Sep(N + 1 - n) \o (texts[N + 1 - n] \o x) \in Seq(Letter)
    <3>1. texts[N + 1 - n] \in Seq(Letter) /\ Sep(N + 1 - n) \in Seq(Letter)
      BY <1>1, <1>3
    <3>2. texts[N + 1 - n] \o x \in Seq(Letter)
      BY <3>1, ConcatLetters
    <3> QED BY <3>1, <3>2, ConcatLetters
  <2> QED BY <2>1
<1>5. PICK f \in [0..N -> Seq(Letter)] : Recurs(f, N, <<>>, step)
  <2> HIDE DEF step
  <2> QED BY <1>1, <1>3, <1>4, Recursion
<1>6. ASSUME NEW n \in 0..N
      PROVE  f[n] = IF n = 0 THEN <<>> ELSE Sep(N + 1 - n) \o (texts[N + 1 - n] \o f[n - 1])
  <2>1. n # 0 => n \in 1..N /\ n - 1 \in 0..N
    BY <1>1
  <2>2. n # 0 => f[n - 1] \in Seq(Letter)
    BY <2>1
  <2> QED BY <1>5, <2>1, <2>2 DEF Recurs
<1>7. ends(f)
  BY <1>5, <1>6
<1>8. ends(last)
  <2> HIDE DEF ends
  <2> QED BY <1>7
<1> HIDE DEF last
<1>9. \A n \in 0..N : last[n] = IF n = 0 THEN <<>>
                                ELSE Sep(N + 1 - n) \o (texts[N + 1 - n] \o last[n - 1])
  BY <1>8
<1> DEFINE Good == {n \in 0..N : last[n] \in Seq(Letter)}
<1>10. \A n \in 0..N : last[n] \in Seq(Letter)
  <2>1. 0 \in Good
    <3>1. 0 \in 0..N
      BY <1>1
    <3>2. last[0] = <<>>
      BY <1>9, <3>1
    <3> QED BY <1>3, <3>1, <3>2
  <2>2. ASSUME NEW n \in 1..N, n - 1 \in Good PROVE n \in Good
    <3>1. n \in 0..N /\ n # 0 /\ last[n - 1] \in Seq(Letter) /\ N + 1 - n \in 1..N
      BY <1>1, <2>2
    <3>2. last[n] = Sep(N + 1 - n) \o (texts[N + 1 - n] \o last[n - 1])
      BY <1>9, <3>1
    <3>3. texts[N + 1 - n] \in Seq(Letter) /\ Sep(N + 1 - n) \in Seq(Letter)
      BY <1>1, <1>3, <3>1
    <3>4. texts[N + 1 - n] \o last[n - 1] \in Seq(Letter)
      BY <3>1, <3>3, ConcatLetters
    <3>5. last[n] \in Seq(Letter)
      BY <3>2, <3>3, <3>4, ConcatLetters
    <3> QED BY <3>1, <3>5
  <2>3. \A n \in 0..N : n \in Good
    <3> HIDE DEF Good
    <3> QED BY <1>1, <2>1, <2>2, Induction
  <2> QED BY <2>3
<1>11. Joined(texts, between, N + 1) = <<>>
  <2>1. N + 1 - (N + 1) = 0 /\ 0 \in 0..N
    BY <1>1
  <2> QED BY <1>2, <1>9, <2>1
<1>12. ASSUME NEW k \in 1..N + 1 PROVE Joined(texts, between, k) \in Seq(Letter)
  <2>1. N + 1 - k \in 0..N
    BY <1>1
  <2> QED BY <1>2, <1>10, <2>1
<1>13. ASSUME NEW k \in 1..N
       PROVE  Joined(texts, between, k) =
                  (IF k = 1 THEN <<>> ELSE between) \o (texts[k] \o Joined(texts, between, k + 1))
  <2> DEFINE n == N + 1 - k
  <2>1. n \in 0..N /\ n # 0 /\ N + 1 - n = k /\ n - 1 = N + 1 - (k + 1)
    BY <1>1
  <2> HIDE DEF n
  <2>2. last[n] = Sep(N + 1 - n) \o (texts[N + 1 - n] \o last[n - 1])
    BY <1>9, <2>1
  <2>3. last[n] = Sep(k) \o (texts[k] \o last[N + 1 - (k + 1)])
    BY <2>1, <2>2
  <2>4. Joined(texts, between, k) = last[n]
    BY <1>2 DEF n
  <2> QED BY <1>2, <2>3, <2>4 DEF Sep
<1> QED BY <1>11, <1>12, <1>13 DEF N

-----------------------------------------------------------------------------
\* A text for each format and depth.
Texts == [BOOLEAN -> [Nat -> Seq(Letter)]]

\* What PrintAssumption says of an item.
LEMMA ItemIs ==
    ASSUME NEW i \in Item
    PROVE  /\ i \in Nat /\ Tree[i].kind \in Kind
           /\ Tree[i].value \in Seq(Letter) /\ Tree[i].name \in Seq(Letter)
           /\ Tree[i].kids \in Seq(Item) /\ Len(Tree[i].kids) \in Nat
           /\ \A k \in 1..Len(Tree[i].kids) : /\ Tree[i].kids[k] \in Item /\ Tree[i].kids[k] > i
                                              /\ Tree[Tree[i].kids[k]].name \in Seq(Letter)
<1>1. /\ Tree[i].kind \in Kind
      /\ Tree[i].value \in Seq(Byte) /\ Tree[i].name \in Seq(Byte)
      /\ Tree[i].kids \in Seq(Item)
      /\ \A k \in 1..Len(Tree[i].kids) : Tree[i].kids[k] > i
  BY PrintAssumption
<1>2. i \in Nat
  BY PrintAssumption
<1>3. \A j \in Item : Tree[j].name \in Seq(Letter)
  BY PrintAssumption, TextLetters
<1>4. \A k \in 1..Len(Tree[i].kids) : Tree[i].kids[k] \in Item
  BY <1>1
<1>5. Tree[i].value \in Seq(Letter) /\ Tree[i].name \in Seq(Letter)
  BY <1>1, TextLetters
<1>6. Len(Tree[i].kids) \in Nat
  BY <1>1
<1>7. \A k \in 1..Len(Tree[i].kids) : Tree[Tree[i].kids[k]].name \in Seq(Letter)
  BY <1>3, <1>4
<1> QED BY <1>1, <1>2, <1>4, <1>5, <1>6, <1>7

\* What is before a child's text.
LEMMA NameLetters ==
    ASSUME NEW i \in Item, NEW k \in 1..Len(Tree[i].kids), NEW f \in BOOLEAN, NEW d \in Nat
    PROVE  NameText(i, k, f, d) \in Seq(Letter)
<1> DEFINE n == IF f THEN d + 1 ELSE 0
           q == Quoted(Tree[Tree[i].kids[k]].name)
<1>1. n \in Nat
  OBVIOUS
<1>2. q \in Seq(Letter) /\ ColonText(f) \in Seq(Letter) /\ <<>> \in Seq(Letter)
  <2>1. Tree[Tree[i].kids[k]].name \in Seq(Letter)
    BY ItemIs
  <2>2. ColonText(f) \in Seq(Letter)
    BY ListLetters
  <2> QED BY <2>1, <2>2, QuotedIs
<1> HIDE DEF n, q
<1>3. Tabs(n) \o (q \o ColonText(f)) \in Seq(Letter)
  BY <1>1, <1>2, TabLetters, ConcatLetters
<1> QED BY <1>2, <1>3 DEF NameText, n, q

\* The texts of an item's children.
LEMMA KidTextsDo ==
    ASSUME NEW g \in [Item -> Texts], NEW i \in Item, NEW f \in BOOLEAN, NEW d \in Nat
    PROVE  /\ KidTexts(g, i, f, d) \in Seq(Seq(Letter))
           /\ Len(KidTexts(g, i, f, d)) = Len(Tree[i].kids)
           /\ \A k \in 1..Len(Tree[i].kids) :
                 /\ g[Tree[i].kids[k]][f][d + 1] \in Seq(Letter)
                 /\ KidTexts(g, i, f, d)[k] = NameText(i, k, f, d) \o g[Tree[i].kids[k]][f][d + 1]
<1>1. \A k \in 1..Len(Tree[i].kids) : g[Tree[i].kids[k]][f][d + 1] \in Seq(Letter)
  <2> SUFFICES ASSUME NEW k \in 1..Len(Tree[i].kids)
               PROVE  g[Tree[i].kids[k]][f][d + 1] \in Seq(Letter)
    OBVIOUS
  <2>1. g[Tree[i].kids[k]] \in Texts /\ d + 1 \in Nat
    BY ItemIs
  <2>2. g[Tree[i].kids[k]][f] \in [Nat -> Seq(Letter)]
    BY <2>1 DEF Texts
  <2> QED BY <2>1, <2>2
<1>2. \A k \in 1..Len(Tree[i].kids) :
         NameText(i, k, f, d) \o g[Tree[i].kids[k]][f][d + 1] \in Seq(Letter)
  BY <1>1, NameLetters, ConcatLetters
<1>3. Len(Tree[i].kids) \in Nat
  BY ItemIs
<1> DEFINE n == Len(Tree[i].kids)
           Kid(k) == NameText(i, k, f, d) \o g[Tree[i].kids[k]][f][d + 1]
<1>4. KidTexts(g, i, f, d) = [k \in 1..n |-> Kid(k)]
  BY DEF KidTexts
<1>5. n \in Nat /\ \A k \in 1..n : Kid(k) \in Seq(Letter)
  BY <1>2, <1>3
<1> HIDE DEF n, Kid
<1>6. /\ KidTexts(g, i, f, d) \in Seq(Seq(Letter)) /\ Len(KidTexts(g, i, f, d)) = n
      /\ \A k \in 1..n : KidTexts(g, i, f, d)[k] = Kid(k)
  BY <1>4, <1>5
<1> QED BY <1>1, <1>6 DEF n, Kid

\* The text that an item gets from those of its children.
LEMMA TextFromDoes ==
    ASSUME NEW g \in [Item -> Texts], NEW i \in Item, NEW f \in BOOLEAN, NEW d \in Nat
    PROVE  TextFrom(g, i, f, d) \in Seq(Letter)
<1> DEFINE kind == Tree[i].kind
           t == KidTexts(g, i, f, d)
           list == OpenText(kind, f) \o (Joined(t, BetweenText(kind, f), 1)
                                           \o (LastText(i, f) \o CloseText(kind, f, d)))
<1>1. kind \in Kind /\ Tree[i].value \in Seq(Letter)
  BY ItemIs
<1>2. list \in Seq(Letter)
  <2>1. /\ OpenText(kind, f) \in Seq(Letter) /\ BetweenText(kind, f) \in Seq(Letter)
        /\ CloseText(kind, f, d) \in Seq(Letter) /\ LastText(i, f) \in Seq(Letter)
    BY <1>1, ListLetters
  <2>2. t \in Seq(Seq(Letter)) /\ 1 \in 1..Len(t) + 1
    BY KidTextsDo, SMTT(40)
  <2> HIDE DEF t, kind
  <2>3. Joined(t, BetweenText(kind, f), 1) \in Seq(Letter)
    BY <2>1, <2>2, JoinedDoes
  <2> QED BY <2>1, <2>3, ConcatLetters
<1>3. Quoted(Tree[i].value) \in Seq(Letter)
  BY <1>1, QuotedIs
<1>4. NoText \in Seq(Letter)
  <2>1. "no text" \in Letter
    BY LiteralsAreLetters
  <2> QED BY <2>1, OneDoes DEF NoText
<1>5. kind \in {"null", "true", "false"} => Constant(kind) \in Seq(Letter)
  BY ListLetters
<1> QED BY <1>1, <1>2, <1>3, <1>4, <1>5 DEF TextFrom, Kind

\* What an item's text is made of are the texts of its children, which come later.
LEMMA TextOfKids ==
    ASSUME NEW g, NEW h, NEW i \in Item, \A j \in Item : j > i => g[j] = h[j],
           NEW f \in BOOLEAN, NEW d \in Nat
    PROVE  TextFrom(g, i, f, d) = TextFrom(h, i, f, d)
<1>1. \A k \in 1..Len(Tree[i].kids) : g[Tree[i].kids[k]] = h[Tree[i].kids[k]]
  BY ItemIs
<1>2. KidTexts(g, i, f, d) = KidTexts(h, i, f, d)
  BY <1>1 DEF KidTexts
<1> QED BY <1>2, Zenon DEF TextFrom

\* So every item has a text.
LEMMA TextOfIs ==
    /\ TextOf \in [Item -> Texts]
    /\ \A i \in Item, f \in BOOLEAN, d \in Nat : TextOf[i][f][d] = TextFrom(TextOf, i, f, d)
<1> DEFINE Of(g, i) == [f \in BOOLEAN |-> [d \in Nat |-> TextFrom(g, i, f, d)]]
           is(g) == g = [i \in Item |-> Of(g, i)]
           rule == [i \in Item |-> [g \in [Item -> Texts] |-> Of(g, i)]]
           N == Len(Tree)
<1>1. N \in Nat /\ Item = 1..N
  BY PrintAssumption
<1>2. ASSUME NEW g \in [Item -> Texts], NEW i \in Item PROVE Of(g, i) \in Texts
  BY TextFromDoes DEF Texts
<1>3. ASSUME NEW g, NEW h, NEW i \in Item,
             \A j \in Item : j > i => g[j] = h[j]
      PROVE  Of(g, i) = Of(h, i)
  BY <1>3, TextOfKids
<1>4. <<>> \in Seq(Letter) /\ [f \in BOOLEAN |-> [d \in Nat |-> <<>>]] \in Texts
  <2>1. <<>> \in Seq(Letter)
    OBVIOUS
  <2> QED BY <2>1 DEF Texts
<1>5. TextOf = CHOOSE g : is(g)
  BY DEF TextOf
<1> HIDE DEF N, Of
<1>6. rule \in [Item -> [[Item -> Texts] -> Texts]]
  BY <1>2
<1>7. \A i \in Item : \A g, h \in [Item -> Texts] :
         (\A j \in Item : j > i => g[j] = h[j]) => rule[i][g] = rule[i][h]
  BY <1>3
<1>8. PICK g \in [Item -> Texts] : \A i \in Item : g[i] = rule[i][g]
  <2> HIDE DEF rule
  <2>1. rule \in [1..N -> [[1..N -> Texts] -> Texts]]
    BY <1>1, <1>6
  <2>2. LooksUp(rule, N, Texts)
    BY <1>1, <1>7 DEF LooksUp
  <2>3. \E g \in [1..N -> Texts] : Obeys(g, rule, N)
    BY <1>1, <1>4, <2>1, <2>2, DownRecursion
  <2>4. PICK g \in [1..N -> Texts] : Obeys(g, rule, N)
    BY <2>3
  <2>5. g \in [Item -> Texts] /\ \A i \in Item : g[i] = rule[i][g]
    BY <1>1, <2>4 DEF Obeys
  <2> QED BY <2>5
<1>9. is(g)
  BY <1>8
<1>10. is(TextOf)
  <2> HIDE DEF is
  <2> QED BY <1>5, <1>9
<1>11. DOMAIN TextOf = Item /\ TextOf = [i \in Item |-> TextOf[i]]
       /\ \A i \in Item : TextOf[i] = Of(TextOf, i)
  BY <1>10
<1> HIDE DEF is
<1> DEFINE Good == {n \in 0..N : \A j \in Item : j > N - n => TextOf[j] \in Texts}
<1>12. \A j \in Item : TextOf[j] \in Texts
  <2>1. 0 \in Good
    BY <1>1
  <2>2. ASSUME NEW n \in 1..N, n - 1 \in Good PROVE n \in Good
    <3> DEFINE i == N + 1 - n
               h == [j \in Item |-> IF j > i THEN TextOf[j]
                                    ELSE [f \in BOOLEAN |-> [d \in Nat |-> <<>>]]]
    <3>1. /\ i \in Item /\ n \in 0..N
          /\ \A j \in Item : (j > N - n <=> j = i \/ j > i) /\ (j > N - (n - 1) <=> j > i)
      BY <1>1
    <3>2. \A j \in Item : j > i => TextOf[j] \in Texts
      BY <2>2, <3>1
    <3> HIDE DEF i
    <3>3. h \in [Item -> Texts] /\ \A j \in Item : j > i => h[j] = TextOf[j]
      BY <1>4, <3>2
    <3> HIDE DEF h
    <3>4. Of(h, i) = Of(TextOf, i) /\ Of(h, i) \in Texts
      BY <1>2, <1>3, <3>1, <3>3
    <3>5. TextOf[i] \in Texts
      BY <1>11, <3>1, <3>4
    <3> QED BY <3>1, <3>2, <3>5
  <2>3. N \in 0..N /\ \A j \in Item : j > N - N
    BY <1>1
  <2>4. N \in Good
    <3> HIDE DEF Good
    <3> QED BY <1>1, <2>1, <2>2, <2>3, Induction
  <2> QED BY <2>3, <2>4
<1>13. TextOf \in [Item -> Texts]
  BY <1>11, <1>12
<1> QED BY <1>11, <1>13 DEF Of

\* What print_value refuses in a tree is what it refuses at the root and below it.
LEMMA UnprintableIs ==
    ASSUME NEW i \in Item
    PROVE  /\ Unprintable[i] = {} => /\ Tree[i].kind # "invalid"
                                     /\ ~(Tree[i].kind = "raw" /\ Tree[i].value = NoText)
           /\ \A k \in 1..Len(Tree[i].kids) :
                 Unprintable[i] = {} => Unprintable[Tree[i].kids[k]] = {}
<1> DEFINE Own_(j) == {m \in {j} : \/ Tree[m].kind = "invalid"
                                   \/ Tree[m].kind = "raw" /\ Tree[m].value = NoText}
           Of(g, j) == Own_(j) \cup UNION {g[Tree[j].kids[k]] : k \in 1..Len(Tree[j].kids)}
           is(g) == g = [j \in Item |-> Of(g, j)]
           rule == [j \in Item |-> [g \in [Item -> SUBSET Item] |-> Of(g, j)]]
           N == Len(Tree)
<1>1. N \in Nat /\ Item = 1..N
  BY PrintAssumption
<1>2. Unprintable = CHOOSE g : is(g)
  BY DEF Unprintable
<1>3. ASSUME NEW g \in [Item -> SUBSET Item], NEW j \in Item PROVE Of(g, j) \in SUBSET Item
  BY ItemIs
<1>4. ASSUME NEW g, NEW h, NEW j \in Item, \A m \in Item : m > j => g[m] = h[m]
      PROVE  Of(g, j) = Of(h, j)
  <2>1. \A k \in 1..Len(Tree[j].kids) : g[Tree[j].kids[k]] = h[Tree[j].kids[k]]
    BY <1>4, ItemIs
  <2> HIDE DEF Own_
  <2> QED BY <2>1
<1>5. \E g : is(g)
  <2> HIDE DEF N, Of
  <2>1. rule \in [1..N -> [[1..N -> SUBSET Item] -> SUBSET Item]]
    BY <1>1, <1>3
  <2>2. LooksUp(rule, N, SUBSET Item)
    BY <1>1, <1>4 DEF LooksUp
  <2>3. {} \in SUBSET Item
    OBVIOUS
  <2>4. \E g \in [1..N -> SUBSET Item] : Obeys(g, rule, N)
    <3> HIDE DEF rule
    <3> QED BY <1>1, <2>1, <2>2, <2>3, DownRecursion
  <2>5. PICK g \in [Item -> SUBSET Item] : \A j \in Item : g[j] = rule[j][g]
    <3>1. PICK g \in [1..N -> SUBSET Item] : Obeys(g, rule, N)
      BY <2>4
    <3>2. g \in [Item -> SUBSET Item] /\ \A j \in Item : g[j] = rule[j][g]
      <4> HIDE DEF rule
      <4> QED BY <1>1, <3>1 DEF Obeys
    <3> QED BY <3>2
  <2>6. is(g)
    BY <2>5
  <2> QED BY <2>6
<1>6. is(Unprintable)
  <2> HIDE DEF is
  <2> QED BY <1>2, <1>5
<1>7. Unprintable[i] = Of(Unprintable, i)
  <2> HIDE DEF Of
  <2> QED BY <1>6
<1> HIDE DEF is
<1>8. Own_(i) \subseteq Unprintable[i]
      /\ \A k \in 1..Len(Tree[i].kids) : Unprintable[Tree[i].kids[k]] \subseteq Unprintable[i]
  BY <1>7
<1> QED BY <1>8

-----------------------------------------------------------------------------
\* What is still to be printed of an item that print_value is at: behind its
\* k-th child, from its k-th child on, and wherever a frame says it is.
Behind(i, f, d, k) ==
    Joined(KidTexts(TextOf, i, f, d), BetweenText(Tree[i].kind, f), k + 1)
      \o (LastText(i, f) \o CloseText(Tree[i].kind, f, d))

FromKid(i, f, d, k) == TextOf[Tree[i].kids[k]][f][d + 1] \o Behind(i, f, d, k)
FromColon(i, f, d, k) == ColonText(f) \o FromKid(i, f, d, k)
FromKey(i, f, d, k) == Quoted(Tree[Tree[i].kids[k]].name) \o FromColon(i, f, d, k)

Rest(x, f, d) ==
    CASE x.at = "value" -> TextOf[x.item][f][d]
      [] x.at \in {"returned", "after", "comma"} -> Behind(x.item, f, d, x.kid)
      [] x.at = "close" -> CloseText(Tree[x.item].kind, f, d)
      [] x.at = "indent" -> Tabs(d + 1) \o FromKey(x.item, f, d, x.kid)
      [] x.at = "key" -> FromKey(x.item, f, d, x.kid)
      [] OTHER -> FromColon(x.item, f, d, x.kid)

\* The texts of an item, its children and what is around them are of letters.
LEMMA TextsAreLetters ==
    ASSUME NEW i \in Item, NEW f \in BOOLEAN, NEW d \in Nat
    PROVE  /\ TextOf[i][f][d] \in Seq(Letter)
           /\ BetweenText(Tree[i].kind, f) \in Seq(Letter) /\ LastText(i, f) \in Seq(Letter)
           /\ OpenText(Tree[i].kind, f) \in Seq(Letter) /\ ColonText(f) \in Seq(Letter)
           /\ CloseText(Tree[i].kind, f, d) \in Seq(Letter)
           /\ LastText(i, f) \o CloseText(Tree[i].kind, f, d) \in Seq(Letter)
<1>1. TextOf[i][f][d] \in Seq(Letter)
  BY TextOfIs, TextFromDoes
<1>2. Tree[i].kind \in Kind
  BY ItemIs
<1>3. /\ BetweenText(Tree[i].kind, f) \in Seq(Letter) /\ LastText(i, f) \in Seq(Letter)
      /\ OpenText(Tree[i].kind, f) \in Seq(Letter) /\ ColonText(f) \in Seq(Letter)
      /\ CloseText(Tree[i].kind, f, d) \in Seq(Letter)
  BY <1>2, ListLetters
<1> QED BY <1>1, <1>3, ConcatLetters

\* What is behind a child: at last the end of the list, ...
LEMMA BehindLast ==
    ASSUME NEW i \in Item, NEW f \in BOOLEAN, NEW d \in Nat
    PROVE  Behind(i, f, d, Len(Tree[i].kids)) =
               LastText(i, f) \o CloseText(Tree[i].kind, f, d)
<1> DEFINE t == KidTexts(TextOf, i, f, d)
           b == BetweenText(Tree[i].kind, f)
           e == LastText(i, f) \o CloseText(Tree[i].kind, f, d)
<1>1. /\ t \in Seq(Seq(Letter)) /\ Len(t) = Len(Tree[i].kids)
      /\ b \in Seq(Letter) /\ e \in Seq(Letter)
  BY TextOfIs, KidTextsDo, TextsAreLetters
<1>2. Behind(i, f, d, Len(Tree[i].kids)) = Joined(t, b, Len(Tree[i].kids) + 1) \o e
  BY DEF Behind
<1> HIDE DEF t, b, e
<1>3. Joined(t, b, Len(Tree[i].kids) + 1) = <<>>
  BY <1>1, JoinedDoes
<1>4. <<>> \o e = e
  BY <1>1, ConcatLetters
<1> QED BY <1>2, <1>3, <1>4 DEF e

\* ... before that the next child, after what separates the two.
LEMMA BehindIs ==
    ASSUME NEW i \in Item, NEW f \in BOOLEAN, NEW d \in Nat, NEW k \in 0..Len(Tree[i].kids)
    PROVE  /\ Behind(i, f, d, k) \in Seq(Letter)
           /\ k < Len(Tree[i].kids) =>
                 Behind(i, f, d, k) =
                     (IF k = 0 THEN <<>> ELSE BetweenText(Tree[i].kind, f))
                       \o (NameText(i, k + 1, f, d) \o FromKid(i, f, d, k + 1))
<1> DEFINE t == KidTexts(TextOf, i, f, d)
           b == BetweenText(Tree[i].kind, f)
           e == LastText(i, f) \o CloseText(Tree[i].kind, f, d)
           n == Len(Tree[i].kids)
           name == NameText(i, k + 1, f, d)
           kid == TextOf[Tree[i].kids[k + 1]][f][d + 1]
           sep == IF k = 0 THEN <<>> ELSE b
           J(m) == Joined(t, b, m)
<1>1. /\ t \in Seq(Seq(Letter)) /\ Len(t) = n /\ n \in Nat
      /\ b \in Seq(Letter) /\ e \in Seq(Letter)
  BY TextOfIs, KidTextsDo, TextsAreLetters, ItemIs
<1>2. k + 1 \in 1..n + 1 /\ (k < n => k + 1 \in 1..n /\ (k + 1) + 1 \in 1..n + 1) /\ (k + 1 = 1 <=> k = 0)
  BY <1>1
<1>3. k < n => /\ name \in Seq(Letter) /\ kid \in Seq(Letter)
               /\ t[k + 1] = name \o kid
  BY <1>2, TextOfIs, KidTextsDo, NameLetters
<1>4. Behind(i, f, d, k) = J(k + 1) \o e /\ FromKid(i, f, d, k + 1) = kid \o (J((k + 1) + 1) \o e)
  BY DEF Behind, FromKid
<1>5. sep \in Seq(Letter)
  BY <1>1
<1>6. \A m \in 1..n + 1 : J(m) \in Seq(Letter)
  <2> HIDE DEF t, b, n
  <2> QED BY <1>1, JoinedDoes
<1>7. k < n => J(k + 1) = sep \o (t[k + 1] \o J((k + 1) + 1))
  <2> HIDE DEF t, b, n
  <2>1. k < n => J(k + 1) = (IF k + 1 = 1 THEN <<>> ELSE b) \o (t[k + 1] \o J((k + 1) + 1))
    BY <1>1, <1>2, JoinedDoes
  <2> QED BY <1>2, <2>1
<1>8. ASSUME k < n
      PROVE  Behind(i, f, d, k) = sep \o (name \o FromKid(i, f, d, k + 1))
  <2> DEFINE j == J((k + 1) + 1)
  <2>1. j \in Seq(Letter) /\ name \in Seq(Letter) /\ kid \in Seq(Letter)
    BY <1>2, <1>3, <1>6, <1>8
  <2>2. Behind(i, f, d, k) = (sep \o ((name \o kid) \o j)) \o e
    BY <1>3, <1>4, <1>7, <1>8
  <2>3. FromKid(i, f, d, k + 1) = kid \o (j \o e)
    BY <1>4
  <2>4. e \in Seq(Letter) /\ sep \in Seq(Letter)
    BY <1>1, <1>5
  <2> HIDE DEF j, name, kid, e, sep
  <2>5. (sep \o ((name \o kid) \o j)) \o e = sep \o (name \o (kid \o (j \o e)))
    <3>1. Nested(sep, name, kid, j, e) = Flat(sep, name, kid, j, e)
      BY <2>1, <2>4, ConcatNests
    <3> QED BY <3>1 DEF Nested, Flat
  <2> QED BY <2>2, <2>3, <2>5
<1>9. Behind(i, f, d, k) \in Seq(Letter)
  <2>1. J(k + 1) \in Seq(Letter) /\ e \in Seq(Letter)
    BY <1>1, <1>2, <1>6
  <2> HIDE DEF e, J
  <2> QED BY <1>4, <2>1, ConcatLetters, ZenonT(60)
<1> QED BY <1>8, <1>9

\* What is left of a child and its name, and what comes with them.
LEMMA FromIs ==
    ASSUME NEW i \in Item, NEW f \in BOOLEAN, NEW d \in Nat, NEW k \in 1..Len(Tree[i].kids)
    PROVE  /\ TextOf[Tree[i].kids[k]][f][d + 1] \in Seq(Letter)
           /\ Behind(i, f, d, k) \in Seq(Letter)
           /\ FromKid(i, f, d, k) \in Seq(Letter) /\ FromColon(i, f, d, k) \in Seq(Letter)
           /\ FromKey(i, f, d, k) \in Seq(Letter)
           /\ Quoted(Tree[Tree[i].kids[k]].name) \in Seq(Letter)
<1>1. Tree[i].kids[k] \in Item /\ d + 1 \in Nat /\ Tree[Tree[i].kids[k]].name \in Seq(Letter)
      /\ Len(Tree[i].kids) \in Nat
  BY ItemIs
<1>2. TextOf[Tree[i].kids[k]][f][d + 1] \in Seq(Letter) /\ ColonText(f) \in Seq(Letter)
  BY <1>1, TextsAreLetters
<1>3. Quoted(Tree[Tree[i].kids[k]].name) \in Seq(Letter)
  BY <1>1, QuotedIs
<1>4. Behind(i, f, d, k) \in Seq(Letter)
  <2>1. k \in 0..Len(Tree[i].kids)
    BY <1>1
  <2> QED BY <2>1, BehindIs
<1>5. FromKid(i, f, d, k) \in Seq(Letter)
  BY <1>2, <1>4, ConcatLetters DEF FromKid
<1>6. FromColon(i, f, d, k) \in Seq(Letter)
  BY <1>2, <1>5, ConcatLetters DEF FromColon
<1>7. FromKey(i, f, d, k) \in Seq(Letter)
  BY <1>3, <1>6, ConcatLetters DEF FromKey
<1> QED BY <1>2, <1>3, <1>4, <1>5, <1>6, <1>7

\* What is left to be printed is a text.
LEMMA RestDoes ==
    ASSUME NEW x \in Frames, Placed(x), NEW f \in BOOLEAN, NEW d \in Nat
    PROVE  Rest(x, f, d) \in Seq(Letter)
<1>1. x.item \in Item /\ x.kid \in 0..Len(Tree[x.item].kids) /\ x.at \in Place
  BY ItemIs DEF Frames, Placed, KidsOf
<1>2. /\ TextOf[x.item][f][d] \in Seq(Letter) /\ CloseText(Tree[x.item].kind, f, d) \in Seq(Letter)
      /\ Behind(x.item, f, d, x.kid) \in Seq(Letter)
  BY <1>1, TextsAreLetters, BehindIs
<1>3. CASE x.at \in {"value", "returned", "after", "comma", "close"}
  BY <1>2, <1>3 DEF Rest
<1>4. CASE x.at \in {"indent", "key", "named", "colon"}
  <2>1. x.kid \in 1..Len(Tree[x.item].kids)
    BY <1>1, <1>4 DEF Placed
  <2>2. FromKey(x.item, f, d, x.kid) \in Seq(Letter) /\ FromColon(x.item, f, d, x.kid) \in Seq(Letter)
    BY <1>1, <2>1, FromIs
  <2>3. Tabs(d + 1) \o FromKey(x.item, f, d, x.kid) \in Seq(Letter)
    BY <2>2, TabLetters, ConcatLetters
  <2> QED BY <1>4, <2>2, <2>3 DEF Rest
<1> QED BY <1>1, <1>3, <1>4 DEF Place

-----------------------------------------------------------------------------
\* The text w has t behind its first n letters.
Stands(w, n, t) == n + Len(t) <= Len(w) /\ \A m \in 1..Len(t) : w[n + m] = t[m]

\* What stands behind n letters does so part by part.
LEMMA StandsInParts ==
    ASSUME NEW w \in Seq(Letter), NEW n \in Nat, NEW a \in Seq(Letter), NEW b \in Seq(Letter),
           Stands(w, n, a \o b)
    PROVE  Stands(w, n, a) /\ Stands(w, n + Len(a), b)
<1>1. /\ Len(a \o b) = Len(a) + Len(b) /\ Len(a) \in Nat /\ Len(b) \in Nat
      /\ \A m \in 1..Len(a) : (a \o b)[m] = a[m]
      /\ \A m \in 1..Len(b) : (a \o b)[Len(a) + m] = b[m]
  BY ConcatDoes, ConcatBegins
<1>2. n + (Len(a) + Len(b)) <= Len(w) /\ \A m \in 1..Len(a \o b) : w[n + m] = (a \o b)[m]
  BY <1>1 DEF Stands
<1>3. Stands(w, n, a)
  <2>1. \A m \in 1..Len(a) : m \in 1..Len(a \o b)
    BY <1>1
  <2>2. n + Len(a) <= Len(w)
    BY <1>1, <1>2
  <2> QED BY <1>1, <1>2, <2>1, <2>2 DEF Stands
<1>4. Stands(w, n + Len(a), b)
  <2>1. \A m \in 1..Len(b) : Len(a) + m \in 1..Len(a \o b) /\ n + (Len(a) + m) = (n + Len(a)) + m
    BY <1>1
  <2>2. (n + Len(a)) + Len(b) <= Len(w)
    BY <1>1, <1>2
  <2>3. ASSUME NEW m \in 1..Len(b) PROVE w[(n + Len(a)) + m] = b[m]
    BY <1>1, <1>2, <2>1
  <2> QED BY <2>2, <2>3 DEF Stands
<1> QED BY <1>3, <1>4

\* The text w is printed up to its first n letters: behind them stands what is
\* left of the innermost print_value, then what is left of the one around it,
\* and so on to the end of w; p says where each of them ends.
Ends(p, s, f, w) ==
    /\ p \in [0..Len(s) -> Nat] /\ p[0] = Len(w)
    /\ \A j \in 1..Len(s) : /\ Stands(w, p[j], Rest(s[j], f, j - 1))
                            /\ p[j - 1] = p[j] + Len(Rest(s[j], f, j - 1))

PrintedTo(n, s, f, w) == \E p : Ends(p, s, f, w) /\ p[Len(s)] = n

\* With the next text t, the printer comes from the stack s to the stack r.
Prints(t, s, r, f) ==
    \A w \in Seq(Letter), n \in Nat :
        PrintedTo(n, s, f, w) => Stands(w, n, t) /\ PrintedTo(n + Len(t), r, f, w)

\* What is left of the calls on a stack are texts.
LEMMA RestsAre ==
    ASSUME NEW s, StackOK(s), NEW f \in BOOLEAN
    PROVE  \A j \in 1..Len(s) : j \in Nat /\ Rest(s[j], f, j - 1) \in Seq(Letter)
<1> SUFFICES ASSUME NEW j \in 1..Len(s) PROVE j \in Nat /\ Rest(s[j], f, j - 1) \in Seq(Letter)
  OBVIOUS
<1>1. s[j] \in Frames /\ Placed(s[j]) /\ j - 1 \in Nat /\ j \in Nat
  BY DEF StackOK
<1> QED BY <1>1, RestDoes

\* A print_value returns when all of its text is printed.
LEMMA ReturnPrints ==
    ASSUME NEW s, StackOK(s), s # <<>>, NEW f \in BOOLEAN, NEW t \in Seq(Letter),
           Rest(Last(s), f, Len(s) - 1) = t
    PROVE  Prints(t, s, Front(s), f)
<1> DEFINE r == Front(s)
           n == Len(s)
<1> SUFFICES ASSUME NEW w \in Seq(Letter), NEW e \in Nat, PrintedTo(e, s, f, w)
             PROVE  Stands(w, e, t) /\ PrintedTo(e + Len(t), r, f, w)
  BY DEF Prints
<1>1. /\ n \in Nat \ {0} /\ Last(s) = s[n] /\ Len(r) = n - 1
      /\ \A j \in 1..n - 1 : r[j] = s[j]
  BY TopIs
<1>2. PICK p : Ends(p, s, f, w) /\ p[n] = e
  BY DEF PrintedTo
<1> DEFINE R(x, j) == Rest(x, f, j)
<1>3. Len(s) = n /\ R(s[n], n - 1) = t
  BY <1>1
<1> HIDE DEF r, n, R
<1>4. /\ p \in [0..n -> Nat] /\ p[0] = Len(w)
      /\ \A j \in 1..n : Stands(w, p[j], R(s[j], j - 1)) /\ p[j - 1] = p[j] + Len(R(s[j], j - 1))
  BY <1>2, <1>3 DEF Ends, R
<1>5. Stands(w, e, t) /\ p[n - 1] = e + Len(t)
  <2>1. n \in 1..n
    BY <1>1
  <2> QED BY <1>2, <1>3, <1>4, <2>1
<1> DEFINE q == [j \in 0..n - 1 |-> p[j]]
<1>6. /\ \A j \in 0..n - 1 : j \in 0..n /\ q[j] = p[j]
      /\ \A j \in 1..n - 1 : j \in 0..n - 1 /\ j - 1 \in 0..n - 1 /\ j \in 1..n
      /\ 0 \in 0..n - 1 /\ n - 1 \in 0..n - 1
  BY <1>1
<1>7. q \in [0..n - 1 -> Nat]
  BY <1>4, <1>6
<1> HIDE DEF q
<1>8. \A j \in 1..n - 1 : Stands(w, q[j], R(r[j], j - 1)) /\ q[j - 1] = q[j] + Len(R(r[j], j - 1))
  BY <1>1, <1>4, <1>6
<1>9. Ends(q, r, f, w) /\ q[Len(r)] = e + Len(t)
  BY <1>1, <1>4, <1>5, <1>6, <1>7, <1>8 DEF Ends, R
<1> QED BY <1>5, <1>9 DEF PrintedTo

\* A print_value goes on with what is left behind the text.
LEMMA GoingOnPrints ==
    ASSUME NEW s, StackOK(s), s # <<>>, NEW f \in BOOLEAN, NEW t \in Seq(Letter),
           NEW x \in Frames, Placed(x),
           Rest(Last(s), f, Len(s) - 1) = t \o Rest(x, f, Len(s) - 1)
    PROVE  Prints(t, s, Append(Front(s), x), f)
<1> DEFINE r == Append(Front(s), x)
           n == Len(s)
<1> SUFFICES ASSUME NEW w \in Seq(Letter), NEW e \in Nat, PrintedTo(e, s, f, w)
             PROVE  Stands(w, e, t) /\ PrintedTo(e + Len(t), r, f, w)
  BY DEF Prints
<1>1. /\ n \in Nat \ {0} /\ Last(s) = s[n] /\ Front(s) \in Seq(Frames) /\ Len(Front(s)) = n - 1
      /\ \A j \in 1..n - 1 : Front(s)[j] = s[j]
  BY TopIs
<1>2. Len(r) = n /\ r[n] = x /\ \A j \in 1..n - 1 : r[j] = s[j]
  <2>1. /\ Len(r) = Len(Front(s)) + 1 /\ r[Len(Front(s)) + 1] = x
        /\ \A j \in 1..Len(Front(s)) : r[j] = Front(s)[j]
    BY <1>1, AppendDoes
  <2>2. Len(Front(s)) + 1 = n
    BY <1>1
  <2> HIDE DEF r
  <2> QED BY <1>1, <2>1, <2>2
<1>3. PICK p : Ends(p, s, f, w) /\ p[n] = e
  BY DEF PrintedTo
<1> DEFINE R(y, j) == Rest(y, f, j)
           u == Rest(x, f, n - 1)
<1>4. Len(s) = n /\ R(s[n], n - 1) = t \o u /\ u = R(x, n - 1) /\ u \in Seq(Letter)
  <2>1. n - 1 \in Nat
    BY <1>1
  <2> QED BY <1>1, <2>1, RestDoes
<1> HIDE DEF r, n, R, u
<1>5. /\ p \in [0..n -> Nat] /\ p[0] = Len(w)
      /\ \A j \in 1..n : Stands(w, p[j], R(s[j], j - 1)) /\ p[j - 1] = p[j] + Len(R(s[j], j - 1))
  BY <1>3, <1>4 DEF Ends, R
<1>6. /\ Stands(w, e, t) /\ Stands(w, e + Len(t), u)
      /\ p[n - 1] = (e + Len(t)) + Len(u)
  <2>1. n \in 1..n
    BY <1>1
  <2>2. Stands(w, e, t \o u) /\ p[n - 1] = e + Len(t \o u)
    BY <1>3, <1>4, <1>5, <2>1
  <2>3. Len(t \o u) = Len(t) + Len(u) /\ Len(t) \in Nat /\ Len(u) \in Nat
    BY <1>4, ConcatDoes
  <2> QED BY <1>4, <2>2, <2>3, StandsInParts
<1> DEFINE q == [p EXCEPT ![n] = e + Len(t)]
<1>7. /\ n \in 0..n /\ e + Len(t) \in Nat /\ n - 1 \in 0..n /\ n - 1 # n
      /\ \A j \in 1..n : j = n \/ (j \in 1..n - 1 /\ j # n)
      /\ \A j \in 1..n - 1 : j \in 0..n /\ j - 1 \in 0..n /\ j - 1 # n /\ j \in 1..n /\ j # n
  BY <1>1
<1>8. q \in [0..n -> Nat] /\ q[n] = e + Len(t) /\ \A j \in 0..n : j # n => q[j] = p[j]
  BY <1>5, <1>7
<1> HIDE DEF q
<1>9. q[0] = Len(w)
  <2>1. 0 \in 0..n /\ 0 # n
    BY <1>1
  <2> QED BY <1>5, <1>8, <2>1
<1>10. ASSUME NEW j \in 1..n
       PROVE  Stands(w, q[j], R(r[j], j - 1)) /\ q[j - 1] = q[j] + Len(R(r[j], j - 1))
  <2>1. CASE j = n
    BY <1>2, <1>4, <1>6, <1>7, <1>8, <2>1
  <2>2. CASE j # n
    <3>1. j \in 1..n - 1 /\ q[j] = p[j] /\ q[j - 1] = p[j - 1] /\ r[j] = s[j]
      BY <1>2, <1>7, <1>8, <2>2
    <3> QED BY <1>5, <3>1
  <2> QED BY <2>1, <2>2
<1>11. Ends(q, r, f, w) /\ q[Len(r)] = e + Len(t)
  BY <1>2, <1>8, <1>9, <1>10 DEF Ends, R
<1> QED BY <1>6, <1>11 DEF PrintedTo

\* A print_value that begins has all of its text to print.
LEMMA BeginningPrints ==
    ASSUME NEW s, StackOK(s), NEW f \in BOOLEAN, NEW i \in Item, NEW w \in Seq(Letter),
           NEW n \in Nat, Stands(w, n, TextOf[i][f][Len(s)]),
           PrintedTo(n + Len(TextOf[i][f][Len(s)]), s, f, w)
    PROVE  PrintedTo(n, Append(s, Frame(i)), f, w)
<1> DEFINE t == TextOf[i][f][Len(s)]
           l == Len(s)
           r == Append(s, Frame(i))
           R(y, j) == Rest(y, f, j)
<1>1. s \in Seq(Frames) /\ l \in Nat /\ t \in Seq(Letter) /\ Len(t) \in Nat
  <2>1. s \in Seq(Frames) /\ l \in Nat
    BY DEF StackOK
  <2>2. t \in Seq(Letter)
    BY <2>1, TextsAreLetters
  <2> QED BY <2>1, <2>2
<1>2. R(Frame(i), l) = t
  BY DEF Rest, Frame
<1>3. Len(r) = l + 1 /\ r[l + 1] = Frame(i) /\ \A j \in 1..l : r[j] = s[j]
  <2>1. Frame(i) \in Frames
    BY PrintAssumption DEF Frame, Frames, Place
  <2> QED BY <1>1, <2>1, AppendDoes
<1>4. PICK p : Ends(p, s, f, w) /\ p[l] = n + Len(t)
  BY DEF PrintedTo
<1>5. /\ p \in [0..l -> Nat] /\ p[0] = Len(w)
      /\ \A j \in 1..l : Stands(w, p[j], R(s[j], j - 1)) /\ p[j - 1] = p[j] + Len(R(s[j], j - 1))
  BY <1>4 DEF Ends
<1>6. Stands(w, n, t)
  OBVIOUS
<1> DEFINE q == [j \in 0..l + 1 |-> IF j = l + 1 THEN n ELSE p[j]]
<1> HIDE DEF t, l, r, R
<1>7. /\ \A j \in 0..l + 1 : j = l + 1 \/ (j \in 0..l /\ j # l + 1)
      /\ \A j \in 1..l + 1 : j = l + 1 \/ j \in 1..l
      /\ \A j \in 1..l : j \in 0..l + 1 /\ j - 1 \in 0..l + 1 /\ j # l + 1 /\ j - 1 # l + 1
      /\ l + 1 \in 0..l + 1 /\ l \in 0..l + 1 /\ l # l + 1 /\ (l + 1) - 1 = l
      /\ 0 \in 0..l + 1 /\ 0 # l + 1
  BY <1>1
<1>8. q \in [0..l + 1 -> Nat] /\ q[l + 1] = n /\ \A j \in 0..l + 1 : j # l + 1 => q[j] = p[j]
  BY <1>5, <1>7
<1> HIDE DEF q
<1>9. q[0] = Len(w)
  BY <1>5, <1>7, <1>8
<1>10. ASSUME NEW j \in 1..l + 1
       PROVE  Stands(w, q[j], R(r[j], j - 1)) /\ q[j - 1] = q[j] + Len(R(r[j], j - 1))
  <2>1. CASE j = l + 1
    <3>1. j - 1 = l /\ q[j] = n /\ q[j - 1] = p[l] /\ r[j] = Frame(i)
      BY <1>3, <1>7, <1>8, <2>1
    <3> QED BY <1>2, <1>4, <1>6, <3>1
  <2>2. CASE j # l + 1
    <3>1. j \in 1..l /\ q[j] = p[j] /\ q[j - 1] = p[j - 1] /\ r[j] = s[j]
      BY <1>3, <1>7, <1>8, <2>2
    <3> QED BY <1>5, <3>1
  <2> QED BY <2>1, <2>2
<1>11. Ends(q, r, f, w) /\ q[Len(r)] = n
  BY <1>3, <1>8, <1>9, <1>10 DEF Ends, R
<1> QED BY <1>11 DEF PrintedTo, r

\* A list calls print_value for a child.
LEMMA CallPrints ==
    ASSUME NEW s, StackOK(s), s # <<>>, NEW f \in BOOLEAN, NEW t \in Seq(Letter),
           NEW x \in Frames, Placed(x), x.at # "value", NEW i \in Item,
           Rest(Last(s), f, Len(s) - 1) =
               t \o (TextOf[i][f][Len(s)] \o Rest(x, f, Len(s) - 1))
    PROVE  Prints(t, s, Append(Append(Front(s), x), Frame(i)), f)
<1> DEFINE u == TextOf[i][f][Len(s)]
           r == Append(Front(s), x)
<1>1. Len(s) \in Nat \ {0} /\ StackOK(r) /\ r # <<>> /\ Last(r) = x /\ DepthOf(r) = Len(s)
  BY TopIs, GoesOn
<1>2. Len(r) = Len(s)
  <2> HIDE DEF r
  <2> QED BY <1>1, EmptySeq DEF DepthOf, Last, StackOK
<1>3. u \in Seq(Letter) /\ Rest(x, f, Len(s) - 1) \in Seq(Letter)
  <2>1. Len(s) - 1 \in Nat /\ Len(s) \in Nat
    BY <1>1
  <2> QED BY <2>1, TextsAreLetters, RestDoes
<1>4. Rest(Last(s), f, Len(s) - 1) = (t \o u) \o Rest(x, f, Len(s) - 1) /\ t \o u \in Seq(Letter)
      /\ Len(t \o u) = Len(t) + Len(u)
  <2> DEFINE v == Rest(x, f, Len(s) - 1)
  <2>1. Rest(Last(s), f, Len(s) - 1) = t \o (u \o v)
    OBVIOUS
  <2>2. u \in Seq(Letter) /\ v \in Seq(Letter)
    BY <1>3
  <2> HIDE DEF u, v
  <2>3. (t \o u) \o v = t \o (u \o v) /\ t \o u \in Seq(Letter) /\ Len(t \o u) = Len(t) + Len(u)
    BY <2>2, ConcatLetters, SMTT(40)
  <2> QED BY <2>1, <2>3 DEF v
<1>5. Prints(t \o u, s, r, f)
  BY <1>4, GoingOnPrints
<1> HIDE DEF r, u
<1>6. ASSUME NEW w \in Seq(Letter), NEW n \in Nat, PrintedTo(n, s, f, w)
      PROVE  Stands(w, n, t) /\ PrintedTo(n + Len(t), Append(r, Frame(i)), f, w)
  <2>1. Stands(w, n, t \o u) /\ PrintedTo(n + Len(t \o u), r, f, w)
    BY <1>5, <1>6 DEF Prints
  <2>2. Stands(w, n, t) /\ Stands(w, n + Len(t), u)
    BY <1>3, <2>1, StandsInParts
  <2>3. n + Len(t) \in Nat /\ n + Len(t \o u) = (n + Len(t)) + Len(u)
    BY <1>3, <1>4
  <2>4. PrintedTo((n + Len(t)) + Len(u), r, f, w)
    BY <2>1, <2>3
  <2>5. u = TextOf[i][f][Len(r)]
    BY <1>2 DEF u
  <2>6. PrintedTo(n + Len(t), Append(r, Frame(i)), f, w)
    BY <1>1, <2>2, <2>3, <2>4, <2>5, BeginningPrints
  <2> QED BY <2>2, <2>6
<1> QED BY <1>6 DEF Prints, r

\* When no print_value runs, all is printed; when the first begins, ...
LEMMA PrintedAll ==
    ASSUME NEW n, NEW f, NEW w, PrintedTo(n, <<>>, f, w)
    PROVE  n = Len(w)
BY DEF PrintedTo, Ends

\* ... nothing is printed of its text.
LEMMA PrintedNothing ==
    ASSUME NEW i \in Item, NEW f \in BOOLEAN
    PROVE  PrintedTo(0, <<Frame(i)>>, f, TextOf[i][f][0])
<1> DEFINE w == TextOf[i][f][0]
<1>1. w \in Seq(Letter) /\ Len(w) \in Nat
  <2>1. TextOf[i][f][0] \in Seq(Letter)
    <3>1. \A d \in Nat : TextOf[i][f][d] \in Seq(Letter)
      BY TextsAreLetters
    <3> QED BY <3>1
  <2> QED BY <2>1
<1>2. StackOK(<<>>) /\ Len(<<>>) = 0
  BY DEF StackOK
<1>3. Stands(w, 0, w)
  BY <1>1 DEF Stands
<1>4. PrintedTo(0 + Len(w), <<>>, f, w)
  <2>1. Ends([j \in 0..0 |-> Len(w)], <<>>, f, w)
    BY <1>1 DEF Ends
  <2> QED BY <1>1, <2>1 DEF PrintedTo
<1>5. PrintedTo(0, Append(<<>>, Frame(i)), f, w)
  BY <1>1, <1>2, <1>3, <1>4, BeginningPrints
<1>6. Append(<<>>, Frame(i)) = <<Frame(i)>>
  OBVIOUS
<1> QED BY <1>5, <1>6

-----------------------------------------------------------------------------
\* The calls of print_value around the innermost one wait for it, a list that
\* has begun is one and is at a child, and no item is refused if the call's
\* root, c, has none.
Waits(x) ==
    /\ x.at # "value" => Tree[x.item].kind \in {"array", "object"}
    /\ x.at \notin {"value", "close"} => x.kid > 0

CallsOK(s, c) ==
    /\ \A j \in 1..Len(s) - 1 : s[j].at = "returned"
    /\ \A j \in 1..Len(s) : Waits(s[j]) /\ (Unprintable[c] = {} => Unprintable[s[j].item] = {})

\* strlen is to find the null byte behind what was written last.
Unread == \/ where \in {"printed", "returned"}
          \/ where = "printing" /\ Top.at \in {"returned", "named"}

\* The buffer holds the first e letters of the text.
Written(e) ==
    /\ e \in Nat /\ offset <= e /\ e <= Len(buffer)
    /\ \A m \in 1..e : buffer[m] = Wanted[m]
    /\ PrintedTo(e, stack, call.format, Wanted)
    /\ IF Unread THEN e + 1 <= Len(buffer) /\ buffer[e + 1] = Nul ELSE e = offset

TextInv ==
    /\ where # "idle" => call.item \in Item /\ call.format \in BOOLEAN
    /\ where = "idle" => offset = 0
    /\ noalloc => length <= IntMax
    /\ where = "printing" => CallsOK(stack, call.item) /\ (length > 0 => offset < length)
    /\ where \in {"printing", "printed", "returned"} => \E e : Written(e)
    /\ FailsOnlyForRoom

\* The text of the call's item.
LEMMA WantedIs ==
    ASSUME TextInv, where # "idle"
    PROVE  /\ Wanted \in Seq(Letter) /\ Len(Wanted) \in Nat
           /\ \A m \in 1..Len(Wanted) : Wanted[m] # Nul
<1>1. \A d \in Nat : TextOf[call.item][call.format][d] \in Seq(Letter)
  BY TextsAreLetters DEF TextInv
<1>2. Wanted \in Seq(Letter)
  BY <1>1 DEF Wanted
<1> QED BY <1>2 DEF Letter

\* As much is printed as the text is long, at most.
LEMMA PrintedInside ==
    ASSUME NEW s, StackOK(s), NEW f \in BOOLEAN, NEW w \in Seq(Letter), NEW n \in Nat,
           PrintedTo(n, s, f, w)
    PROVE  n <= Len(w)
<1> DEFINE l == Len(s)
           R(j) == Rest(s[j], f, j - 1)
<1>1. PICK p : Ends(p, s, f, w) /\ p[l] = n
  BY DEF PrintedTo
<1>2. l \in Nat /\ (l = 0 \/ l \in 1..l)
  BY DEF StackOK
<1>3. l = 0 => p[l] = Len(w)
  BY <1>1 DEF Ends
<1>4. \A j \in 1..l : Stands(w, p[j], R(j)) /\ R(j) \in Seq(Letter)
  BY <1>1, RestsAre DEF Ends
<1> HIDE DEF l, R
<1>5. CASE l \in 1..l
  <2>1. p[l] + Len(R(l)) <= Len(w) /\ Len(R(l)) \in Nat
    BY <1>4, <1>5 DEF Stands
  <2> QED BY <1>1, <2>1
<1> QED BY <1>1, <1>2, <1>3, <1>5

\* strlen finds the null byte that ends letters.
LEMMA StrlenIs ==
    ASSUME NEW b \in Seq(Symbol), NEW n \in Nat, NEW e \in Nat, n <= e, e + 1 <= Len(b),
           b[e + 1] = Nul, \A m \in 1..e : b[m] # Nul
    PROVE  Strlen(b, n) = e - n
<1>1. \E k \in n + 1..Len(b) : b[k] = Nul
  <2>1. e + 1 \in n + 1..Len(b)
    OBVIOUS
  <2> QED BY <2>1
<1> DEFINE P(k) == /\ n + k = Len(b) \/ b[n + k + 1] = Nul
                   /\ \A j \in 1..k : b[n + j] # Nul
<1>2. Strlen(b, n) = CHOOSE k \in 0..Len(b) - n : P(k)
  BY DEF Strlen
<1>3. e - n \in 0..Len(b) - n /\ P(e - n)
  <2>1. e - n \in 0..Len(b) - n /\ n + (e - n) + 1 = e + 1
    OBVIOUS
  <2>2. \A j \in 1..e - n : n + j \in 1..e
    OBVIOUS
  <2> QED BY <2>1, <2>2
<1>4. ASSUME NEW k \in 0..Len(b) - n, P(k) PROVE k = e - n
  <2>1. CASE k < e - n
    <3>1. n + k + 1 \in 1..e /\ n + k # Len(b)
      BY <2>1
    <3> QED BY <1>4, <3>1
  <2>2. CASE k > e - n
    <3>1. (e - n) + 1 \in 1..k /\ n + ((e - n) + 1) = e + 1
      BY <2>2
    <3> QED BY <1>4, <3>1
  <2> QED BY <2>1, <2>2
<1> HIDE DEF P
<1> QED BY <1>2, <1>3, <1>4

\* Where the printer stands between two texts.
LEMMA StandIs ==
    ASSUME IInv, TextInv, where = "printing"
    PROVE  /\ call.item \in Item /\ call.format \in BOOLEAN /\ CallsOK(stack, call.item)
           /\ offset \in Nat /\ length \in Nat /\ Len(buffer) = length /\ (length > 0 => offset < length)
           /\ buffer \in Seq(Symbol) /\ offset <= Len(buffer)
           /\ Top.at \notin {"returned", "named"} => Written(offset)
<1>1. PICK e : Written(e)
  BY DEF TextInv
<1>2. offset \in Nat /\ length \in Nat /\ Len(buffer) = length /\ buffer \in Seq(Symbol)
  BY DEF IInv, Bytes, StaysInside
<1>3. offset <= Len(buffer)
  BY <1>1, <1>2 DEF Written
<1>4. Top.at \notin {"returned", "named"} => e = offset
  BY <1>1 DEF Written, Unread
<1> QED BY <1>1, <1>2, <1>3, <1>4 DEF TextInv

\* What a write does to the buffer: the bytes before the offset stay, and there
\* is room for what is asked.
Wrote(needed, bytes) ==
    /\ buffer' \in Seq(Symbol) /\ length' \in Nat /\ Len(buffer') = length'
    /\ \A m \in 1..offset : buffer'[m] = buffer[m]
    /\ \A m \in 1..Len(bytes) : offset + m \in 1..length' /\ buffer'[offset + m] = bytes[m]
    /\ offset + needed < length'
    /\ noalloc => length' = length

\* Write does so, whether the buffer is large enough or has to grow.
LEMMA WriteDoes ==
    ASSUME Bytes, Len(buffer) = length, offset <= length,
           NEW needed \in Nat, NEW bytes \in Seq(Symbol), Len(bytes) <= needed + 1,
           ~Refuses(needed),
           IF Fits(needed)
           THEN buffer' = Over(buffer, offset, bytes) /\ UNCHANGED length
           ELSE buffer' = Over(Grown(needed), offset, bytes) /\ length' = NewSize(needed)
    PROVE  Wrote(needed, bytes)
<1>1. buffer \in Seq(Symbol) /\ offset \in Nat /\ length \in Nat /\ Len(bytes) \in Nat
  BY DEF Bytes
<1>2. CASE Fits(needed)
  <2>1. offset + Len(bytes) <= Len(buffer) /\ offset + needed < length
    BY <1>1, <1>2 DEF Fits, Asked
  <2>2. buffer' = Over(buffer, offset, bytes) /\ length' = length
    BY <1>2
  <2>3. /\ buffer' \in Seq(Symbol) /\ Len(buffer') = Len(buffer)
        /\ \A m \in 1..Len(bytes) : offset + m \in 1..Len(buffer) /\ buffer'[offset + m] = bytes[m]
    BY <1>1, <2>1, <2>2, Lands
  <2>4. \A m \in 1..offset : buffer'[m] = buffer[m]
    BY <1>1, <2>2, OverKeeps
  <2> QED BY <1>1, <2>1, <2>2, <2>3, <2>4 DEF Wrote
<1>3. CASE ~Fits(needed)
  <2> DEFINE g == Grown(needed)
  <2>1. buffer' = Over(g, offset, bytes) /\ length' = NewSize(needed)
    BY <1>3
  <2>2. /\ g \in Seq(Symbol) /\ Len(g) = NewSize(needed)
        /\ NewSize(needed) \in Nat /\ Asked(needed) <= NewSize(needed)
    BY <1>3, GrownDoes
  <2>3. offset + Len(bytes) <= Len(g) /\ offset + needed < NewSize(needed) /\ offset <= Len(g)
    BY <1>1, <2>2 DEF Asked
  <2>4. \A m \in 1..offset : g[m] = buffer[m]
    <3> SUFFICES ASSUME NEW m \in 1..offset PROVE g[m] = buffer[m]
      OBVIOUS
    <3>1. m \in 1..NewSize(needed)
      BY <1>1, <2>2, <2>3
    <3>2. m <= Smaller(IF reallocate THEN length ELSE offset + 1, Len(buffer))
      BY <1>1 DEF Smaller
    <3> QED BY <3>1, <3>2 DEF Grown, Fresh
  <2> HIDE DEF g
  <2>5. /\ buffer' \in Seq(Symbol) /\ Len(buffer') = Len(g)
        /\ \A m \in 1..Len(bytes) : offset + m \in 1..Len(g) /\ buffer'[offset + m] = bytes[m]
    BY <1>1, <2>1, <2>2, <2>3, Lands
  <2>6. \A m \in 1..offset : buffer'[m] = g[m]
    BY <1>1, <2>1, <2>2, <2>3, OverKeeps
  <2>7. ~noalloc
    BY <1>3 DEF Refuses
  <2> QED BY <1>1, <2>1, <2>2, <2>3, <2>4, <2>5, <2>6, <2>7 DEF Wrote
<1> QED BY <1>2, <1>3

\* A step that writes the text t: what it asks ensure for is t and at most the
\* null byte, the stack goes on with what is left behind t, and the offset goes
\* behind t, or stays where strlen finds the null byte.
Waiting(s) == s = <<>> \/ Last(s).at \in {"returned", "named"}

WritesText(t, needed, bytes, to) ==
    /\ needed \in {Len(t), Len(t) + 1}
    /\ t \in Seq(Letter) /\ bytes \in Seq(Symbol) /\ Len(bytes) \in {Len(t), Len(t) + 1}
    /\ \A m \in 1..Len(t) : bytes[m] = t[m]
    /\ Prints(t, stack, to.stack, call.format) /\ CallsOK(to.stack, call.item)
    /\ to.offset = offset + Len(t) \/ (to.offset = offset /\ Waiting(to.stack))
    /\ Waiting(to.stack) => Len(bytes) = Len(t) + 1 /\ bytes[Len(t) + 1] = Nul

\* Such a step is refused only for want of room.
LEMMA RefusedForRoom ==
    ASSUME IInv, TextInv, where = "printing", NEW t \in Seq(Letter), NEW needed \in Nat,
           needed <= Len(t) + 1, offset + Len(t) <= Len(Wanted), Refuses(needed)
    PROVE  (IF noalloc THEN length ELSE IntMax) < Len(Wanted) + 2
<1>1. /\ offset \in Nat /\ length \in Nat /\ (length > 0 => offset < length)
      /\ Len(Wanted) \in Nat /\ Len(t) \in Nat /\ IntMax \in Nat
  BY StandIs, WantedIs, PrintAssumption
<1>2. noalloc => length <= IntMax
  BY DEF TextInv
<1>3. \/ needed > IntMax
      \/ needed + offset + 1 > length /\ (noalloc \/ needed + offset + 1 > IntMax)
  BY <1>1 DEF Refuses, Fits, Asked
<1>4. needed + offset + 1 < Len(Wanted) + 3
  BY <1>1
<1> QED BY <1>1, <1>2, <1>3, <1>4

\* A step that writes a text prints it: what is in the buffer stays the beginning of
\* the call's text.
LEMMA WritesTextKeeps ==
    ASSUME IInv, TextInv, where = "printing", Top.at \notin {"returned", "named"},
           NEW t, NEW needed, NEW bytes, NEW to,
           WritesText(t, needed, bytes, to), Write(needed, bytes, to)
    PROVE  TextInv'
<1> DEFINE n == Len(t)
           w == Wanted
<1>1. /\ call.item \in Item /\ call.format \in BOOLEAN
      /\ offset \in Nat /\ length \in Nat /\ Len(buffer) = length
      /\ buffer \in Seq(Symbol) /\ offset <= length /\ Written(offset)
  BY StandIs
<1>2. /\ w \in Seq(Letter) /\ Len(w) \in Nat
  BY WantedIs
<1>3. /\ needed \in Nat /\ bytes \in Seq(Symbol) /\ Len(bytes) \in Nat /\ Len(bytes) <= needed + 1
      /\ t \in Seq(Letter) /\ n \in Nat /\ needed \in {n, n + 1} /\ Len(bytes) \in {n, n + 1}
  BY DEF WritesText
<1>4. /\ \A m \in 1..offset : buffer[m] = w[m]
      /\ Stands(w, offset, t) /\ PrintedTo(offset + n, to.stack, call.format, w)
  <2>1. PrintedTo(offset, stack, call.format, w) /\ Prints(t, stack, to.stack, call.format)
    BY <1>1 DEF Written, WritesText
  <2>2. \A m \in 1..offset : buffer[m] = w[m]
    BY <1>1 DEF Written
  <2> HIDE DEF w
  <2> QED BY <1>1, <1>2, <2>1, <2>2 DEF Prints
<1>5. offset + n <= Len(w) /\ \A m \in 1..n : w[offset + m] = t[m]
  BY <1>4 DEF Stands
<1>6. CASE /\ ~Refuses(needed)
           /\ IF Fits(needed)
              THEN buffer' = Over(buffer, offset, bytes) /\ UNCHANGED length
              ELSE buffer' = Over(Grown(needed), offset, bytes) /\ length' = NewSize(needed)
           /\ offset' = to.offset /\ depth' = to.depth /\ stack' = to.stack
           /\ where' = IF to.stack = <<>> THEN "printed" ELSE "printing"
           /\ UNCHANGED <<call, lost, blocks, reallocate>>
  <2>1. Wrote(needed, bytes)
    BY <1>1, <1>3, <1>6, WriteDoes DEF IInv
  <2>2. /\ call' = call /\ offset' = to.offset /\ stack' = to.stack
        /\ where' = (IF to.stack = <<>> THEN "printed" ELSE "printing")
    BY <1>6
  <2>3. w = Wanted' /\ (noalloc' <=> noalloc)
    BY <2>2 DEF Wanted, noalloc
  <2>4. Unread' <=> Waiting(to.stack)
    BY <2>2 DEF Unread, Waiting, Top
  <2>5. offset' <= offset + n /\ (~Unread' => offset' = offset + n) /\ offset' < length'
    BY <1>1, <1>3, <2>1, <2>2, <2>4 DEF WritesText, Wrote
  <2>6. offset + n <= Len(buffer')
    BY <1>1, <1>3, <2>1 DEF Wrote
  <2>7. \A m \in 1..offset + n : buffer'[m] = w[m]
    <3> SUFFICES ASSUME NEW m \in 1..offset + n PROVE buffer'[m] = w[m]
      OBVIOUS
    <3>1. CASE m <= offset
      <4>1. m \in 1..offset
        BY <1>1, <3>1
      <4> QED BY <1>4, <2>1, <4>1 DEF Wrote
    <3>2. CASE m > offset
      <4>1. m - offset \in 1..n /\ m - offset \in 1..Len(bytes) /\ offset + (m - offset) = m
        BY <1>1, <1>3, <3>2
      <4>2. buffer'[offset + (m - offset)] = bytes[m - offset]
        BY <2>1, <4>1 DEF Wrote
      <4>3. bytes[m - offset] = t[m - offset]
        BY <4>1 DEF WritesText
      <4>4. w[offset + (m - offset)] = t[m - offset]
        BY <1>5, <4>1
      <4> QED BY <4>1, <4>2, <4>3, <4>4
    <3> QED BY <1>1, <3>1, <3>2
  <2>8. Unread' => (offset + n) + 1 <= Len(buffer') /\ buffer'[(offset + n) + 1] = Nul
    <3> SUFFICES ASSUME Unread'
                 PROVE  (offset + n) + 1 <= Len(buffer') /\ buffer'[(offset + n) + 1] = Nul
      OBVIOUS
    <3>1. Len(bytes) = n + 1 /\ bytes[n + 1] = Nul
      BY <2>4 DEF WritesText
    <3>2. n + 1 \in 1..Len(bytes) /\ offset + (n + 1) = (offset + n) + 1
      BY <1>1, <1>3, <3>1
    <3>3. offset + (n + 1) \in 1..length' /\ buffer'[offset + (n + 1)] = bytes[n + 1]
      BY <2>1, <3>2 DEF Wrote
    <3> QED BY <2>1, <3>1, <3>2, <3>3 DEF Wrote
  <2>9. PrintedTo(offset + n, stack', call'.format, Wanted')
    BY <1>4, <2>2, <2>3
  <2> HIDE DEF n
  <2>10. PICK e : e = offset + n
    OBVIOUS
  <2>11. Written(e)'
    <3>1. /\ e \in Nat /\ offset' <= e /\ e <= Len(buffer') /\ \A m \in 1..e : buffer'[m] = Wanted'[m]
          /\ PrintedTo(e, stack', call'.format, Wanted')
          /\ IF Unread' THEN e + 1 <= Len(buffer') /\ buffer'[e + 1] = Nul ELSE e = offset'
      BY <1>1, <1>3, <2>3, <2>5, <2>6, <2>7, <2>8, <2>9, <2>10
    <3> QED BY <3>1 DEF Written
  <2>12. where' \in {"printed", "printing"} /\ (where' = "printing" => CallsOK(stack', call'.item))
    BY <2>2 DEF WritesText
  <2>13. noalloc' => length' <= IntMax
    BY <2>1, <2>3 DEF Wrote, TextInv
  <2>14. FailsOnlyForRoom'
    BY <2>12 DEF FailsOnlyForRoom
  <2>15. call'.item \in Item /\ call'.format \in BOOLEAN
    BY <1>1, <2>2
  <2> QED BY <2>5, <2>11, <2>12, <2>13, <2>14, <2>15 DEF TextInv
<1>7. CASE /\ Refuses(needed)
           /\ where' = "failed" /\ stack' = <<>>
           /\ UNCHANGED <<call, buffer, length, offset, depth, lost, blocks, reallocate>>
  <2>1. (IF noalloc THEN length ELSE IntMax) < Len(Wanted) + 2
    BY <1>3, <1>5, <1>7, RefusedForRoom
  <2>2. FailsOnlyForRoom'
    BY <1>7, <2>1 DEF FailsOnlyForRoom, noalloc, Wanted, Printable
  <2> QED BY <1>7, <2>2 DEF TextInv, noalloc
<1>8. CASE /\ ~Refuses(needed) /\ ~Fits(needed)
           /\ buffer' = <<>> /\ length' = 0 /\ lost' = TRUE /\ blocks' = blocks - 1
           /\ where' = "failed" /\ stack' = <<>>
           /\ UNCHANGED <<call, offset, depth, reallocate>>
  <2>1. FailsOnlyForRoom'
    BY <1>8 DEF FailsOnlyForRoom
  <2> QED BY <1>1, <1>8, <2>1, PrintAssumption DEF TextInv, noalloc
<1> QED BY <1>6, <1>7, <1>8 DEF Write

-----------------------------------------------------------------------------
Within(a, b, c, d) == (a \o (b \o c)) \o d
Spread(a, b, c, d) == a \o (b \o (c \o d))

\* ... nor do they in one of four.
LEMMA ConcatWithin ==
    ASSUME NEW a \in Seq(Letter), NEW b \in Seq(Letter), NEW c \in Seq(Letter),
           NEW d \in Seq(Letter)
    PROVE  Within(a, b, c, d) = Spread(a, b, c, d)
<1>1. a \in Letters /\ b \in Letters /\ c \in Letters /\ d \in Letters
  BY DEF Letters
<1>2. Cat(b, c) \in Letters /\ Cat(Cat(b, c), d) = Cat(b, Cat(c, d))
  BY ONLY <1>1, CatNests
<1>3. Cat(Cat(a, Cat(b, c)), d) = Cat(a, Cat(Cat(b, c), d))
  BY ONLY <1>1, <1>2, CatNests
<1>4. Cat(Cat(a, Cat(b, c)), d) = Cat(a, Cat(b, Cat(c, d)))
  BY ONLY <1>2, <1>3
<1> QED BY ONLY <1>4 DEF Cat, Within, Spread

\* The text of a value.
LEMMA ValueText ==
    ASSUME NEW i \in Item, NEW f \in BOOLEAN, NEW d \in Nat
    PROVE  /\ Tree[i].kind \in {"null", "true", "false"} =>
                 TextOf[i][f][d] = Constant(Tree[i].kind)
           /\ Tree[i].kind = "string" => TextOf[i][f][d] = Quoted(Tree[i].value)
           /\ Tree[i].kind \in {"number", "raw"} => TextOf[i][f][d] = Tree[i].value
BY TextOfIs DEF TextFrom

\* The text of a list.
LEMMA ListText ==
    ASSUME NEW i \in Item, NEW f \in BOOLEAN, NEW d \in Nat, Tree[i].kind \in {"array", "object"}
    PROVE  TextOf[i][f][d] = OpenText(Tree[i].kind, f) \o Behind(i, f, d, 0)
<1>1. TextOf[i][f][d] = TextFrom(TextOf, i, f, d)
  BY TextOfIs
<1>2. TextFrom(TextOf, i, f, d) =
          OpenText(Tree[i].kind, f)
            \o (Joined(KidTexts(TextOf, i, f, d), BetweenText(Tree[i].kind, f), 1)
                  \o (LastText(i, f) \o CloseText(Tree[i].kind, f, d)))
  BY DEF TextFrom
<1>3. 0 + 1 = 1
  OBVIOUS
<1> QED BY <1>1, <1>2, <1>3 DEF Behind

\* What is left of an array behind its k-th child.
LEMMA ArrayRest ==
    ASSUME NEW i \in Item, NEW f \in BOOLEAN, NEW d \in Nat, NEW k \in 0..Len(Tree[i].kids),
           Tree[i].kind = "array"
    PROVE  /\ k < Len(Tree[i].kids) =>
                 Behind(i, f, d, k) =
                     (IF k = 0 THEN <<>> ELSE BetweenText("array", f)) \o FromKid(i, f, d, k + 1)
           /\ k = Len(Tree[i].kids) => Behind(i, f, d, k) = CloseText("array", f, d)
<1>1. ASSUME k < Len(Tree[i].kids)
      PROVE  Behind(i, f, d, k) =
                 (IF k = 0 THEN <<>> ELSE BetweenText("array", f)) \o FromKid(i, f, d, k + 1)
  <2>1. k + 1 \in 1..Len(Tree[i].kids)
    BY <1>1, ItemIs
  <2>2. FromKid(i, f, d, k + 1) \in Seq(Letter)
    BY <2>1, FromIs
  <2>3. NameText(i, k + 1, f, d) \o FromKid(i, f, d, k + 1) = FromKid(i, f, d, k + 1)
    BY <2>2, ConcatLetters DEF NameText
  <2> QED BY <1>1, <2>3, BehindIs, ZenonT(60)
<1>2. LastText(i, f) \o CloseText("array", f, d) = CloseText("array", f, d)
  <2>1. LastText(i, f) = <<>>
    BY DEF LastText, Newline
  <2>2. CloseText("array", f, d) \in Seq(Letter)
    BY TextsAreLetters
  <2> QED BY <2>1, <2>2, ConcatLetters
<1> QED BY <1>1, <1>2, BehindLast

\* What is left of an object behind its k-th member.
LEMMA ObjectRest ==
    ASSUME NEW i \in Item, NEW f \in BOOLEAN, NEW d \in Nat, NEW k \in 0..Len(Tree[i].kids),
           Tree[i].kind = "object"
    PROVE  /\ k < Len(Tree[i].kids) =>
                 Behind(i, f, d, k) =
                     (IF k = 0 THEN <<>> ELSE BetweenText("object", f))
                       \o (IF f THEN Tabs(d + 1) \o FromKey(i, f, d, k + 1)
                           ELSE FromKey(i, f, d, k + 1))
           /\ k = Len(Tree[i].kids) =>
                 Behind(i, f, d, k) =
                     Newline(f /\ Tree[i].kids # <<>>) \o CloseText("object", f, d)
<1>1. ASSUME k < Len(Tree[i].kids)
      PROVE  NameText(i, k + 1, f, d) \o FromKid(i, f, d, k + 1) =
                 IF f THEN Tabs(d + 1) \o FromKey(i, f, d, k + 1) ELSE FromKey(i, f, d, k + 1)
  <2> DEFINE m == IF f THEN d + 1 ELSE 0
             q == Quoted(Tree[Tree[i].kids[k + 1]].name)
             c == ColonText(f)
             r == FromKid(i, f, d, k + 1)
  <2>1. k + 1 \in 1..Len(Tree[i].kids)
    BY <1>1, ItemIs
  <2>2. r \in Seq(Letter) /\ q \in Seq(Letter) /\ c \in Seq(Letter)
    BY <2>1, FromIs, TextsAreLetters
  <2>3. Tabs(m) \in Seq(Letter) /\ (m = 0 => Tabs(m) = <<>>)
    BY TabLetters
  <2>4. NameText(i, k + 1, f, d) = Tabs(m) \o (q \o c)
    BY DEF NameText
  <2>5. FromKey(i, f, d, k + 1) = q \o (c \o r)
    BY DEF FromKey, FromColon
  <2>6. Tabs(m) = IF f THEN Tabs(d + 1) ELSE <<>>
    BY <2>3
  <2> DEFINE t == Tabs(m)
  <2>7. t = (IF f THEN Tabs(d + 1) ELSE <<>>) /\ t \in Seq(Letter)
    BY <2>3, <2>6
  <2> HIDE DEF q, c, r, t
  <2>8. (t \o (q \o c)) \o r = t \o (q \o (c \o r)) /\ q \o (c \o r) \in Seq(Letter)
    <3>1. Within(t, q, c, r) = Spread(t, q, c, r)
      <4>1. t \in Seq(Letter) /\ q \in Seq(Letter) /\ c \in Seq(Letter) /\ r \in Seq(Letter)
        BY <2>2, <2>7, Zenon
      <4> QED BY ONLY <4>1, ConcatWithin
    <3>2. q \o (c \o r) \in Seq(Letter)
      BY <2>2, ConcatLetters
    <3> QED BY <3>1, <3>2 DEF Within, Spread
  <2> DEFINE y == q \o (c \o r)
  <2>9. NameText(i, k + 1, f, d) \o r = t \o y /\ y = FromKey(i, f, d, k + 1) /\ y \in Seq(Letter)
    BY <2>4, <2>5, <2>8 DEF t
  <2> HIDE DEF y
  <2>10. <<>> \o y = y
    BY <2>9, ConcatLetters
  <2> QED BY <2>7, <2>9, <2>10 DEF r
<1>2. LastText(i, f) = Newline(f /\ Tree[i].kids # <<>>)
  BY DEF LastText, Newline
<1>3. ASSUME k < Len(Tree[i].kids)
      PROVE  Behind(i, f, d, k) =
                 (IF k = 0 THEN <<>> ELSE BetweenText("object", f))
                   \o (NameText(i, k + 1, f, d) \o FromKid(i, f, d, k + 1))
  BY <1>3, BehindIs, ZenonT(60)
<1>4. ASSUME k = Len(Tree[i].kids)
      PROVE  Behind(i, f, d, k) = Newline(f /\ Tree[i].kids # <<>>) \o CloseText("object", f, d)
  BY <1>2, <1>4, BehindLast
<1> QED BY <1>1, <1>3, <1>4

\* What is left of an object with members at its first one.
LEMMA ObjectStart ==
    ASSUME NEW i \in Item, NEW f \in BOOLEAN, NEW d \in Nat,
           Tree[i].kind = "object", 1 \in 1..Len(Tree[i].kids)
    PROVE  Behind(i, f, d, 0) = IF f THEN Tabs(d + 1) \o FromKey(i, f, d, 1)
                                ELSE FromKey(i, f, d, 1)
<1> DEFINE next == IF f THEN Tabs(d + 1) \o FromKey(i, f, d, 1) ELSE FromKey(i, f, d, 1)
           later(k) == IF f THEN Tabs(d + 1) \o FromKey(i, f, d, k + 1)
                       ELSE FromKey(i, f, d, k + 1)
           first(k) == IF k = 0 THEN <<>> ELSE BetweenText("object", f)
<1>1. 0 \in 0..Len(Tree[i].kids) /\ 0 < Len(Tree[i].kids) /\ 0 + 1 = 1
  BY ItemIs
<1>2. \A k \in 0..Len(Tree[i].kids) :
          k < Len(Tree[i].kids) => Behind(i, f, d, k) = first(k) \o later(k)
  BY ObjectRest, Zenon
<1>3. first(0) = <<>>
  OBVIOUS
<1>4. later(0) = next
  BY <1>1
<1>5. next \in Seq(Letter)
  <2>1. FromKey(i, f, d, 1) \in Seq(Letter)
    BY FromIs
  <2>2. Tabs(d + 1) \in Seq(Letter)
    <3>1. d + 1 \in Nat
      OBVIOUS
    <3> QED BY <3>1, TabLetters
  <2> QED BY <2>1, <2>2, ConcatLetters
<1> HIDE DEF next, later, first
<1>6. Behind(i, f, d, 0) = <<>> \o next
  BY <1>1, <1>2, <1>3, <1>4, Zenon
<1>7. <<>> \o next = next
  BY <1>5, ConcatLetters
<1> QED BY <1>6, <1>7 DEF next

-----------------------------------------------------------------------------
\* The call around one that returns waits for it.
LEMMA CallsReturn ==
    ASSUME NEW s, StackOK(s), s # <<>>, NEW c, CallsOK(s, c)
    PROVE  CallsOK(Front(s), c) /\ Waiting(Front(s))
<1> DEFINE r == Front(s)
           n == Len(s)
<1>1. n \in Nat \ {0} /\ r \in Seq(Frames) /\ Len(r) = n - 1 /\ \A j \in 1..n - 1 : r[j] = s[j]
  BY TopIs
<1>2. /\ \A j \in 1..n - 1 : s[j].at = "returned"
      /\ \A j \in 1..n : Waits(s[j]) /\ (Unprintable[c] = {} => Unprintable[s[j].item] = {})
  BY DEF CallsOK
<1> HIDE DEF r, n
<1>3. CallsOK(r, c)
  <2>1. \A j \in 1..Len(r) : j \in 1..n - 1 /\ j \in 1..n
    BY <1>1
  <2>2. \A j \in 1..Len(r) - 1 : j \in 1..Len(r)
    BY <1>1
  <2> QED BY <1>1, <1>2, <2>1, <2>2 DEF CallsOK
<1>4. Waiting(r)
  <2>1. CASE n = 1
    <3>1. r = <<>>
      BY <1>1, <2>1, EmptySeq
    <3> QED BY <3>1 DEF Waiting
  <2>2. CASE n # 1
    <3>1. Len(r) \in 1..n - 1
      BY <1>1, <2>2
    <3>2. r[Len(r)].at = "returned"
      BY <1>1, <1>2, <3>1
    <3> QED BY <3>2 DEF Waiting, Last
  <2> QED BY <2>1, <2>2
<1> QED BY <1>3, <1>4 DEF r

\* One that goes on is of the same item.
LEMMA CallsGoOn ==
    ASSUME NEW s, StackOK(s), s # <<>>, NEW c, CallsOK(s, c),
           NEW x \in Frames, x.item = Last(s).item, Waits(x)
    PROVE  CallsOK(Append(Front(s), x), c)
<1> DEFINE r == Append(Front(s), x)
           n == Len(s)
<1>1. /\ n \in Nat \ {0} /\ Last(s) = s[n] /\ Front(s) \in Seq(Frames) /\ Len(Front(s)) = n - 1
      /\ \A j \in 1..n - 1 : Front(s)[j] = s[j]
  BY TopIs
<1>2. Len(r) = n /\ r[n] = x /\ \A j \in 1..n - 1 : r[j] = s[j]
  <2>1. /\ Len(r) = Len(Front(s)) + 1 /\ r[Len(Front(s)) + 1] = x
        /\ \A j \in 1..Len(Front(s)) : r[j] = Front(s)[j]
    BY <1>1, AppendDoes
  <2>2. Len(Front(s)) + 1 = n
    BY <1>1
  <2> HIDE DEF r
  <2> QED BY <1>1, <2>1, <2>2
<1>3. /\ \A j \in 1..n - 1 : s[j].at = "returned"
      /\ \A j \in 1..n : Waits(s[j]) /\ (Unprintable[c] = {} => Unprintable[s[j].item] = {})
  BY DEF CallsOK
<1> HIDE DEF r, n
<1>4. n \in 1..n /\ \A j \in 1..n : j = n \/ j \in 1..n - 1
  BY <1>1
<1>5. ASSUME NEW j \in 1..n
      PROVE  Waits(r[j]) /\ (Unprintable[c] = {} => Unprintable[r[j].item] = {})
  <2>1. CASE j = n
    <3>1. r[j] = x /\ x.item = s[n].item
      BY <1>1, <1>2, <2>1
    <3>2. Unprintable[c] = {} => Unprintable[s[n].item] = {}
      BY <1>3, <1>4
    <3> QED BY ONLY <3>1, <3>2, Waits(x), Zenon
  <2>2. CASE j \in 1..n - 1
    <3>1. r[j] = s[j]
      BY <1>2, <2>2
    <3> QED BY <1>3, <3>1
  <2> QED BY <1>4, <2>1, <2>2
<1>6. CallsOK(r, c)
  BY <1>2, <1>3, <1>5 DEF CallsOK
<1> QED BY <1>6 DEF r

\* One that calls print_value for a child waits for it, and if the item can be
\* printed, so can the child.
LEMMA CallsCall ==
    ASSUME NEW s, StackOK(s), s # <<>>, NEW c, CallsOK(s, c), Last(s).at = "returned",
           NEW k \in 1..Len(Tree[Last(s).item].kids)
    PROVE  CallsOK(Append(s, Frame(Tree[Last(s).item].kids[k])), c)
<1> DEFINE n == Len(s)
           kid == Tree[Last(s).item].kids[k]
           x == Frame(kid)
           r == Append(s, x)
<1>1. n \in Nat \ {0} /\ Last(s) = s[n] /\ Last(s) \in Frames /\ s \in Seq(Frames)
  BY TopIs DEF StackOK
<1>2. Last(s).item \in Item /\ kid \in Item
  <2>1. Last(s).item \in Item
    BY <1>1 DEF Frames
  <2> QED BY <2>1, ItemIs
<1>3. x \in Frames /\ x.item = kid /\ Waits(x)
  BY <1>2, PrintAssumption DEF Frame, Frames, Place, Waits
<1>4. Unprintable[c] = {} => Unprintable[kid] = {}
  <2>1. n \in 1..n
    BY <1>1
  <2>2. Unprintable[c] = {} => Unprintable[Last(s).item] = {}
    BY <1>1, <2>1 DEF CallsOK
  <2>3. Unprintable[Last(s).item] = {} => Unprintable[kid] = {}
    BY <1>2, UnprintableIs
  <2> QED BY <2>2, <2>3
<1> HIDE DEF kid, x
<1>5. Len(r) = n + 1 /\ r[n + 1] = x /\ \A j \in 1..n : r[j] = s[j]
  BY <1>1, <1>3, AppendDoes
<1>6. /\ \A j \in 1..n - 1 : s[j].at = "returned"
      /\ \A j \in 1..n : Waits(s[j]) /\ (Unprintable[c] = {} => Unprintable[s[j].item] = {})
  BY DEF CallsOK
<1> HIDE DEF r, n
<1>7. /\ \A j \in 1..n + 1 : j = n + 1 \/ j \in 1..n
      /\ \A j \in 1..n : j = n \/ j \in 1..n - 1
      /\ (n + 1) - 1 = n
  BY <1>1
<1>8. \A j \in 1..(n + 1) - 1 : r[j].at = "returned"
  <2>1. s[n].at = "returned"
    BY <1>1
  <2> QED BY <1>5, <1>6, <1>7, <2>1
<1>9. ASSUME NEW j \in 1..n + 1
      PROVE  Waits(r[j]) /\ (Unprintable[c] = {} => Unprintable[r[j].item] = {})
  <2>1. CASE j = n + 1
    BY <1>3, <1>4, <1>5, <2>1
  <2>2. CASE j \in 1..n
    <3>1. r[j] = s[j]
      BY <1>5, <2>2
    <3> QED BY <1>6, <2>2, <3>1
  <2> QED BY <1>7, <2>1, <2>2
<1>10. CallsOK(r, c)
  BY <1>5, <1>8, <1>9 DEF CallsOK
<1> QED BY <1>10 DEF r, x, kid

-----------------------------------------------------------------------------
\* The text that is still to be printed of the innermost print_value.
Left == Rest(Top, call.format, Len(stack) - 1)

\* What is printed of an item, and where.
LEMMA TopWaits ==
    ASSUME IInv, TextInv, where = "printing"
    PROVE  /\ Waits(Top) /\ Top \in Frames /\ Top.item \in Item
           /\ Top.kid \in 0..Len(It.kids) /\ Len(It.kids) \in Nat
           /\ Len(stack) - 1 \in Nat /\ (Len(stack) - 1) + 1 = Len(stack)
           /\ call.format \in BOOLEAN /\ offset \in Nat
           /\ Unprintable[call.item] = {} => Unprintable[Top.item] = {}
<1>1. /\ Len(stack) \in Nat \ {0} /\ Top.item \in Item /\ Top.kid \in Nat /\ Top \in Frames
      /\ Placed(Top) /\ KidsOf(Top) = Len(It.kids) /\ Len(It.kids) \in Nat
  BY PrintingIs
<1>2. Top = stack[Len(stack)] /\ Len(stack) \in 1..Len(stack)
  BY <1>1, PrintingIs, TopIs DEF Top
<1>3. CallsOK(stack, call.item) /\ call.format \in BOOLEAN /\ offset \in Nat
  BY StandIs
<1>4. Top.kid \in 0..Len(It.kids)
  BY <1>1 DEF Placed
<1> QED BY <1>1, <1>2, <1>3, <1>4 DEF CallsOK

\* When the text is all that is left, print_value returns.
LEMMA ReturnText ==
    ASSUME IInv, TextInv, where = "printing", NEW t \in Seq(Letter), Left = t
    PROVE  /\ Prints(t, stack, Returned, call.format) /\ CallsOK(Returned, call.item)
           /\ Waiting(Returned)
<1>1. StackOK(stack) /\ stack # <<>> /\ CallsOK(stack, call.item) /\ call.format \in BOOLEAN
  BY PrintingIs, StandIs
<1>2. Rest(Last(stack), call.format, Len(stack) - 1) = t
  BY DEF Left, Top
<1> QED BY <1>1, <1>2, ReturnPrints, CallsReturn DEF Returned

\* A frame that has moved to a child or a place that there is.
LEMMA MovesTo ==
    ASSUME IInv, TextInv, where = "printing", It.kind \in {"array", "object"},
           NEW k \in 0..Len(It.kids), NEW p \in Place \ {"value"},
           p = "comma" => k < Len(It.kids), p # "close" => k > 0
    PROVE  /\ Moved(Top, k, p) \in Frames /\ Placed(Moved(Top, k, p)) /\ Waits(Moved(Top, k, p))
           /\ Moved(Top, k, p).at = p /\ Moved(Top, k, p).kid = k
           /\ Moved(Top, k, p).item = Top.item
<1>1. Top \in Frames /\ KidsOf(Top) = Len(It.kids) /\ Len(It.kids) \in Nat
  BY PrintingIs
<1>2. /\ Moved(Top, k, p) \in Frames /\ Moved(Top, k, p).at = p
      /\ Moved(Top, k, p).kid = k /\ Moved(Top, k, p).item = Top.item
  <2>1. k \in Nat /\ p \in Place
    BY <1>1
  <2> QED BY <1>1, <2>1, MovedDoes
<1> DEFINE x == Moved(Top, k, p)
<1> HIDE DEF x
<1>3. Placed(x)
  BY <1>1, <1>2 DEF Placed, KidsOf, x
<1>4. Waits(x)
  BY <1>2 DEF Waits, It, x
<1> QED BY <1>2, <1>3, <1>4 DEF x

\* When there is more than the text, print_value goes on behind it.
LEMMA GoOnText ==
    ASSUME IInv, TextInv, where = "printing", It.kind \in {"array", "object"},
           NEW k \in 0..Len(It.kids), NEW p \in Place \ {"value"},
           p = "comma" => k < Len(It.kids), p # "close" => k > 0,
           NEW t \in Seq(Letter),
           Left = t \o Rest(Moved(Top, k, p), call.format, Len(stack) - 1)
    PROVE  LET r == Append(Front(stack), Moved(Top, k, p))
           IN  /\ Prints(t, stack, r, call.format) /\ CallsOK(r, call.item)
               /\ Waiting(r) <=> p \in {"returned", "named"}
<1> DEFINE x == Moved(Top, k, p)
           r == Append(Front(stack), x)
<1>1. x \in Frames /\ Placed(x) /\ Waits(x) /\ x.at = p /\ x.item = Last(stack).item
  BY MovesTo DEF Top
<1>2. StackOK(stack) /\ stack # <<>> /\ CallsOK(stack, call.item) /\ call.format \in BOOLEAN
  BY PrintingIs, StandIs
<1>3. Rest(Last(stack), call.format, Len(stack) - 1) = t \o Rest(x, call.format, Len(stack) - 1)
  BY DEF Left, Top
<1> HIDE DEF x
<1>4. Prints(t, stack, r, call.format) /\ CallsOK(r, call.item)
  BY <1>1, <1>2, <1>3, GoingOnPrints, CallsGoOn
<1>5. r # <<>> /\ Last(r) = x
  BY <1>1, <1>2, GoesOn
<1>6. Waiting(r) <=> p \in {"returned", "named"}
  <2> HIDE DEF r
  <2> QED BY <1>1, <1>5 DEF Waiting
<1> QED BY <1>4, <1>6 DEF x

\* When a child's text comes behind the text, print_value calls itself.
LEMMA CallText ==
    ASSUME IInv, TextInv, where = "printing", It.kind \in {"array", "object"},
           NEW k \in 1..Len(It.kids), NEW t \in Seq(Letter),
           Left = t \o FromKid(Top.item, call.format, Len(stack) - 1, k)
    PROVE  /\ Prints(t, stack, PrintKid(k), call.format) /\ CallsOK(PrintKid(k), call.item)
           /\ ~Waiting(PrintKid(k))
<1> DEFINE x == Moved(Top, k, "returned")
           r == Append(Front(stack), x)
           kid == It.kids[k]
<1>1. x \in Frames /\ Placed(x) /\ Waits(x) /\ x.at = "returned" /\ x.kid = k
      /\ x.item = Last(stack).item
  <2>1. k \in 0..Len(It.kids) /\ k > 0 /\ "returned" \in Place \ {"value"}
    BY PrintingIs DEF Place
  <2> QED BY <2>1, MovesTo, SMTT(40) DEF Top
<1>2. /\ StackOK(stack) /\ stack # <<>> /\ CallsOK(stack, call.item) /\ call.format \in BOOLEAN
      /\ kid \in Item /\ Top = Last(stack) /\ It = Tree[Last(stack).item]
  BY PrintingIs, StandIs DEF Top, It
<1>3. Rest(Last(stack), call.format, Len(stack) - 1) =
          t \o (TextOf[kid][call.format][Len(stack)] \o Rest(x, call.format, Len(stack) - 1))
  <2>1. (Len(stack) - 1) + 1 = Len(stack)
    BY PrintingIs
  <2>2. Rest(x, call.format, Len(stack) - 1) = Behind(Top.item, call.format, Len(stack) - 1, k)
    <3> HIDE DEF x
    <3> QED BY <1>1, <1>2 DEF Rest
  <2>3. FromKid(Top.item, call.format, Len(stack) - 1, k) =
            TextOf[kid][call.format][Len(stack)] \o Rest(x, call.format, Len(stack) - 1)
    BY <2>1, <2>2 DEF FromKid, It
  <2> QED BY <2>3 DEF Left, Top
<1> HIDE DEF x
<1>4. Prints(t, stack, Append(r, Frame(kid)), call.format)
  <2>1. x.at # "value"
    BY <1>1
  <2> HIDE DEF kid
  <2> QED BY <1>1, <1>2, <1>3, <2>1, CallPrints
<1>5. CallsOK(Append(r, Frame(kid)), call.item)
  <2>1. StackOK(r) /\ r # <<>> /\ Last(r) = x /\ CallsOK(r, call.item)
    BY <1>1, <1>2, GoesOn, CallsGoOn
  <2> HIDE DEF r
  <2> QED BY <1>1, <1>2, <2>1, CallsCall
<1>6. PrintKid(k) = Append(r, Frame(kid))
  BY DEF PrintKid, x, Moved
<1>7. ~Waiting(PrintKid(k))
  BY KidDoes DEF Waiting
<1> QED BY <1>4, <1>5, <1>6, <1>7

-----------------------------------------------------------------------------
\* A text and a null byte behind it.
LEMMA WritesWithNul ==
    ASSUME IInv, TextInv, where = "printing", Top.at \notin {"returned", "named"},
           NEW t \in Seq(Letter), NEW frames, NEW o, NEW d,
           Prints(t, stack, frames, call.format), CallsOK(frames, call.item),
           o = offset + Len(t) \/ (o = offset /\ Waiting(frames)),
           Write(Len(t) + 1, Append(t, Nul), [offset |-> o, depth |-> d, stack |-> frames])
    PROVE  TextInv'
<1> DEFINE to == [offset |-> o, depth |-> d, stack |-> frames]
           b == Append(t, Nul)
<1>1. /\ b \in Seq(Symbol) /\ Len(b) = Len(t) + 1 /\ b[Len(t) + 1] = Nul
      /\ \A m \in 1..Len(t) : b[m] = t[m]
  <2>1. t \in Seq(Symbol) /\ Nul \in Symbol
    BY TextLetters DEF Symbol
  <2> QED BY <2>1, AppendDoes
<1>2. to.offset = o /\ to.stack = frames
  OBVIOUS
<1> HIDE DEF b, to
<1>3. WritesText(t, Len(t) + 1, b, to)
  BY <1>1, <1>2 DEF WritesText
<1>4. Write(Len(t) + 1, b, to)
  BY DEF b, to
<1> QED BY <1>3, <1>4, WritesTextKeeps

\* A text alone, where nobody calls strlen.
LEMMA WritesBare ==
    ASSUME IInv, TextInv, where = "printing", Top.at \notin {"returned", "named"},
           NEW t \in Seq(Letter), NEW frames, NEW d, NEW needed \in {Len(t), Len(t) + 1},
           Prints(t, stack, frames, call.format), CallsOK(frames, call.item), ~Waiting(frames),
           Write(needed, t, [offset |-> offset + Len(t), depth |-> d, stack |-> frames])
    PROVE  TextInv'
<1> DEFINE to == [offset |-> offset + Len(t), depth |-> d, stack |-> frames]
<1>1. t \in Seq(Symbol) /\ to.offset = offset + Len(t) /\ to.stack = frames
  BY TextLetters
<1> HIDE DEF to
<1>2. WritesText(t, needed, t, to)
  BY <1>1 DEF WritesText
<1>3. Write(needed, t, to)
  BY DEF to
<1> QED BY <1>2, <1>3, WritesTextKeeps

\* A text in quotes, and the null byte.
LEMMA WritesQuoted ==
    ASSUME IInv, TextInv, where = "printing", Top.at \notin {"returned", "named"},
           NEW s \in Seq(Letter), NEW frames, Waiting(frames),
           Prints(Quoted(s), stack, frames, call.format), CallsOK(frames, call.item),
           WriteString(s, frames)
    PROVE  TextInv'
<1> DEFINE to == [offset |-> offset, depth |-> depth, stack |-> frames]
           t == Quoted(s)
           n == OutputLength(s)
           b == QuotedBytes(s)
<1>1. /\ t \in Seq(Letter) /\ Len(t) = n + 2 /\ n \in Nat
      /\ \A m \in 1..n + 2 : b[m] = t[m]
  BY QuotedIs
<1>2. b \in Seq(Symbol) /\ Len(b) = n + 3 /\ b[n + 3] = Nul
  BY TextLetters, QuotedDoes
<1>3. Write(n + 3, b, to)
  BY DEF WriteString, WriteText, QuotedBytes
<1>4. to.offset = offset /\ to.stack = frames /\ n + 3 = (n + 2) + 1
  BY <1>1
<1> HIDE DEF to, t, n, b
<1>5. Prints(t, stack, frames, call.format)
  BY DEF t
<1>6. WritesText(t, n + 3, b, to)
  BY <1>1, <1>2, <1>4, <1>5 DEF WritesText
<1> QED BY <1>3, <1>6, WritesTextKeeps

-----------------------------------------------------------------------------
\* What a value is printed as.
LEMMA ValueLeft ==
    ASSUME IInv, TextInv, where = "printing", Top.at = "value"
    PROVE  /\ Left = TextOf[Top.item][call.format][Len(stack) - 1]
           /\ It.value \in Seq(Letter)
           /\ It.kind \in {"null", "true", "false"} => Left = Constant(It.kind)
           /\ It.kind = "string" => Left = Quoted(It.value)
           /\ It.kind \in {"number", "raw"} => Left = It.value
<1>1. Top.item \in Item /\ call.format \in BOOLEAN /\ Len(stack) - 1 \in Nat
  BY TopWaits
<1>2. Left = TextOf[Top.item][call.format][Len(stack) - 1]
  BY DEF Left, Rest
<1>3. It.value \in Seq(Letter)
  BY <1>1, ItemIs DEF It
<1>4. /\ It.kind \in {"null", "true", "false"} => Left = Constant(It.kind)
      /\ It.kind = "string" => Left = Quoted(It.value)
      /\ It.kind \in {"number", "raw"} => Left = It.value
  BY <1>1, <1>2, ValueText DEF It
<1> QED BY <1>2, <1>3, <1>4

\* PrintConstant prints the item's text.
LEMMA PrintConstantPrints == ASSUME IInv, TextInv, PrintConstant PROVE TextInv'
<1> DEFINE t == Constant(It.kind)
<1>1. where = "printing" /\ Top.at = "value" /\ It.kind \in {"null", "true", "false"}
  BY DEF PrintConstant, At
<1>2. t \in Seq(Letter) /\ Left = t
  BY <1>1, ValueLeft, ListLetters
<1>3. Write(Len(t) + 1, Append(t, Nul), [offset |-> offset, depth |-> depth, stack |-> Returned])
  BY DEF PrintConstant, WriteText
<1> HIDE DEF t
<1>4. /\ Prints(t, stack, Returned, call.format) /\ CallsOK(Returned, call.item)
      /\ Waiting(Returned)
  BY <1>1, <1>2, ReturnText
<1>5. Top.at \notin {"returned", "named"}
  BY <1>1
<1> QED BY <1>1, <1>2, <1>3, <1>4, <1>5, WritesWithNul

\* PrintNumber prints the item's text.
LEMMA PrintNumberPrints == ASSUME IInv, TextInv, PrintNumber PROVE TextInv'
<1> DEFINE t == It.value
<1>1. where = "printing" /\ Top.at = "value" /\ It.kind = "number"
  BY DEF PrintNumber, At
<1>2. t \in Seq(Letter) /\ Left = t
  BY <1>1, ValueLeft
<1>3. Write(Len(t) + 1, Append(t, Nul),
            [offset |-> offset + Len(t), depth |-> depth, stack |-> Returned])
  BY DEF PrintNumber
<1> HIDE DEF t
<1>4. /\ Prints(t, stack, Returned, call.format) /\ CallsOK(Returned, call.item)
  BY <1>1, <1>2, ReturnText
<1>5. Top.at \notin {"returned", "named"}
  BY <1>1
<1> QED BY <1>1, <1>2, <1>3, <1>4, <1>5, WritesWithNul

\* PrintRaw prints the item's text.
LEMMA PrintRawPrints == ASSUME IInv, TextInv, PrintRaw PROVE TextInv'
<1> DEFINE t == It.value
<1>1. where = "printing" /\ Top.at = "value" /\ It.kind = "raw"
  BY DEF PrintRaw, At
<1>2. t \in Seq(Letter) /\ Left = t
  BY <1>1, ValueLeft
<1>3. Write(Len(t) + 1, Append(t, Nul), [offset |-> offset, depth |-> depth, stack |-> Returned])
  BY DEF PrintRaw, WriteText
<1> HIDE DEF t
<1>4. /\ Prints(t, stack, Returned, call.format) /\ CallsOK(Returned, call.item)
      /\ Waiting(Returned)
  BY <1>1, <1>2, ReturnText
<1>5. Top.at \notin {"returned", "named"}
  BY <1>1
<1> QED BY <1>1, <1>2, <1>3, <1>4, <1>5, WritesWithNul

\* PrintString prints the item's text.
LEMMA PrintStringPrints == ASSUME IInv, TextInv, PrintString PROVE TextInv'
<1>1. where = "printing" /\ Top.at = "value" /\ It.kind = "string" /\ WriteString(It.value, Returned)
  BY DEF PrintString, At
<1>2. It.value \in Seq(Letter) /\ Left = Quoted(It.value) /\ Quoted(It.value) \in Seq(Letter)
  BY <1>1, ValueLeft, QuotedIs
<1>3. /\ Prints(Quoted(It.value), stack, Returned, call.format) /\ CallsOK(Returned, call.item)
      /\ Waiting(Returned)
  BY <1>1, <1>2, ReturnText
<1>4. Top.at \notin {"returned", "named"}
  BY <1>1
<1> QED BY <1>1, <1>2, <1>3, <1>4, WritesQuoted

\* PrintNothing refuses an item that cannot be printed.
LEMMA PrintNothingPrints == ASSUME IInv, TextInv, PrintNothing PROVE TextInv'
<1>1. /\ where = "printing" /\ where' = "failed"
      /\ It.kind \in {"invalid", "raw"} /\ (It.kind = "raw" => It.value = NoText)
      /\ UNCHANGED <<call, buffer, length, offset, lost>>
  BY DEF PrintNothing, At
<1>2. ~Printable
  <2>1. Top.item \in Item /\ (Unprintable[call.item] = {} => Unprintable[Top.item] = {})
    BY <1>1, TopWaits
  <2>2. Unprintable[Top.item] # {}
    BY <1>1, <2>1, UnprintableIs DEF It
  <2> QED BY <2>1, <2>2 DEF Printable
<1>3. FailsOnlyForRoom'
  <2>1. ~Printable'
    BY <1>1, <1>2 DEF Printable
  <2> QED BY <2>1 DEF FailsOnlyForRoom
<1> QED BY <1>1, <1>3 DEF TextInv, noalloc

-----------------------------------------------------------------------------
\* A frame that stays at its child.
LEMMA ToIs ==
    ASSUME IInv, where = "printing", NEW p \in Place
    PROVE  To(p) = Append(Front(stack), Moved(Top, Top.kid, p))
<1>1. [Top EXCEPT !.at = p] = Moved(Top, Top.kid, p)
  <2>1. Top \in Frames
    BY PrintingIs
  <2> QED BY <2>1 DEF Frames, Moved
<1> QED BY <1>1 DEF To

\* A list of which nothing but the end is left goes there.
LEMMA EndText ==
    ASSUME IInv, TextInv, where = "printing", It.kind \in {"array", "object"},
           NEW t \in Seq(Letter),
           Left = t \o CloseText(It.kind, call.format, Len(stack) - 1)
    PROVE  /\ Prints(t, stack, To("close"), call.format) /\ CallsOK(To("close"), call.item)
           /\ ~Waiting(To("close"))
<1> DEFINE x == Moved(Top, Top.kid, "close")
           r == Append(Front(stack), x)
<1>1. Top.kid \in 0..Len(It.kids) /\ "close" \in Place \ {"value"}
  BY TopWaits DEF Place
<1>2. To("close") = r
  BY <1>1, ToIs
<1>3. x.at = "close" /\ x.item = Top.item
  BY <1>1, MovesTo, SMTT(40)
<1>4. Rest(x, call.format, Len(stack) - 1) = CloseText(It.kind, call.format, Len(stack) - 1)
  <2> HIDE DEF x
  <2> QED BY <1>3 DEF Rest, It
<1>5. Left = t \o Rest(Moved(Top, Top.kid, "close"), call.format, Len(stack) - 1)
  BY <1>4
<1>6. /\ Prints(t, stack, r, call.format) /\ CallsOK(r, call.item)
      /\ Waiting(r) <=> "close" \in {"returned", "named"}
  BY <1>1, <1>5, GoOnText
<1> QED BY <1>2, <1>6

\* A list with a text before its next member goes to that member.
LEMMA MemberText ==
    ASSUME IInv, TextInv, where = "printing", It.kind \in {"array", "object"},
           NEW k \in 1..Len(It.kids), NEW t \in Seq(Letter),
           Left = t \o (IF call.format
                        THEN Tabs((Len(stack) - 1) + 1)
                               \o FromKey(Top.item, call.format, Len(stack) - 1, k)
                        ELSE FromKey(Top.item, call.format, Len(stack) - 1, k))
    PROVE  /\ Prints(t, stack, Member(k), call.format) /\ CallsOK(Member(k), call.item)
           /\ ~Waiting(Member(k))
<1> DEFINE p == Formatted("indent", "key")
           x == Moved(Top, k, p)
           r == Append(Front(stack), x)
           d == Len(stack) - 1
<1>1. /\ k \in 0..Len(It.kids) /\ k > 0
      /\ p = (IF call.format THEN "indent" ELSE "key") /\ p \in Place \ {"value"}
      /\ p # "comma" /\ p \notin {"returned", "named"}
  BY TopWaits DEF Place, Formatted
<1>2. Member(k) = r
  BY DEF Member, Moved
<1> HIDE DEF p
<1>3. x.at = p /\ x.item = Top.item /\ x.kid = k
  BY <1>1, MovesTo
<1>4. Rest(x, call.format, d) =
          IF call.format THEN Tabs(d + 1) \o FromKey(Top.item, call.format, d, k)
          ELSE FromKey(Top.item, call.format, d, k)
  <2> HIDE DEF x, d
  <2> QED BY <1>1, <1>3 DEF Rest
<1>5. Left = t \o Rest(Moved(Top, k, p), call.format, Len(stack) - 1)
  BY <1>4
<1>6. /\ Prints(t, stack, r, call.format) /\ CallsOK(r, call.item)
      /\ Waiting(r) <=> p \in {"returned", "named"}
  BY <1>1, <1>5, GoOnText
<1> QED BY <1>1, <1>2, <1>6

-----------------------------------------------------------------------------
\* OpenArray prints the array's opening bracket.
LEMMA OpenArrayPrints == ASSUME IInv, TextInv, OpenArray PROVE TextInv'
<1> DEFINE frames == IF More THEN PrintKid(1) ELSE To("close")
           t == <<"[">>
           i == Top.item
           f == call.format
           d == Len(stack) - 1
<1>1. where = "printing" /\ Top.at = "value" /\ It.kind = "array" /\ It = Tree[i]
  BY DEF OpenArray, At, It
<1>2. Top.kid = 0 /\ i \in Item /\ f \in BOOLEAN /\ d \in Nat /\ Len(It.kids) \in Nat
  BY <1>1, TopWaits, PrintingIs DEF Placed
<1>3. t \in Seq(Letter) /\ Len(t) = 1
  BY LiteralsAreLetters, OneDoes
<1>4. Left = t \o Behind(i, f, d, 0)
  <2>1. Left = TextOf[i][f][d]
    BY <1>1, ValueLeft
  <2>2. TextOf[i][f][d] = OpenText(Tree[i].kind, f) \o Behind(i, f, d, 0)
    BY <1>1, <1>2, ListText
  <2>3. OpenText(Tree[i].kind, f) = t
    BY <1>1 DEF OpenText
  <2> QED BY <2>1, <2>2, <2>3
<1>5. Write(1, t, [offset |-> offset + 1, depth |-> depth + 1, stack |-> frames])
  BY DEF OpenArray
<1> HIDE DEF t, i, f, d
<1>6. /\ Prints(t, stack, frames, call.format) /\ CallsOK(frames, call.item)
      /\ ~Waiting(frames)
  <2>1. CASE More
    <3>1. 0 < Len(Tree[i].kids) /\ 1 \in 1..Len(It.kids) /\ 0 \in 0..Len(Tree[i].kids)
      BY <1>1, <1>2, <2>1 DEF More
    <3>2. Behind(i, f, d, 0) = FromKid(i, f, d, 1)
      <4>1. Behind(i, f, d, 0) = <<>> \o FromKid(i, f, d, 0 + 1)
        BY <1>1, <1>2, <3>1, ArrayRest
      <4>2. 0 + 1 = 1 /\ FromKid(i, f, d, 1) \in Seq(Letter)
        BY <1>1, <1>2, <3>1, FromIs
      <4> QED BY <4>1, <4>2, ConcatLetters
    <3>3. Left = t \o FromKid(Top.item, call.format, Len(stack) - 1, 1)
      BY <1>4, <3>2 DEF i, f, d
    <3> QED BY <1>1, <1>3, <2>1, <3>1, <3>3, CallText
  <2>2. CASE ~More
    <3>1. 0 = Len(Tree[i].kids) /\ 0 \in 0..Len(Tree[i].kids)
      BY <1>1, <1>2, <2>2 DEF More
    <3>2. Behind(i, f, d, 0) = CloseText(It.kind, f, d)
      <4>1. Tree[i].kind = "array"
        BY <1>1
      <4>2. Behind(i, f, d, 0) = CloseText("array", f, d)
        BY <1>2, <3>1, <4>1, ArrayRest
      <4> QED BY <1>1, <4>2
    <3>3. Left = t \o CloseText(It.kind, call.format, Len(stack) - 1)
      BY <1>4, <3>2 DEF f, d
    <3> QED BY <1>1, <1>3, <2>2, <3>3, EndText
  <2> QED BY <2>1, <2>2
<1> HIDE DEF frames
<1>7. Top.at \notin {"returned", "named"} /\ 1 \in {Len(t), Len(t) + 1}
  BY <1>1, <1>3
<1>8. Write(1, t, [offset |-> offset + Len(t), depth |-> depth + 1, stack |-> frames])
  BY <1>3, <1>5
<1> QED BY <1>1, <1>3, <1>6, <1>7, <1>8, WritesBare

\* Comma prints what separates two children of the array.
LEMMA CommaPrints == ASSUME IInv, TextInv, Comma PROVE TextInv'
<1> DEFINE t == Formatted(<<",", " ">>, <<",">>)
           i == Top.item
           f == call.format
           d == Len(stack) - 1
           k == Top.kid + 1
<1>1. where = "printing" /\ Top.at = "comma" /\ It.kind = "array" /\ It = Tree[i]
  BY DEF Comma, At, It
<1>2. i \in Item /\ f \in BOOLEAN /\ d \in Nat /\ Len(It.kids) \in Nat /\ Top.kid \in 0..Len(It.kids)
      /\ Top.kid # 0 /\ Top.kid < Len(It.kids) /\ k \in 1..Len(It.kids)
  <2>1. Top.kid > 0 /\ Top.kid \in Nat /\ Top.kid < Len(It.kids)
    BY <1>1, TopWaits, PrintingIs DEF Placed, Waits
  <2> QED BY <1>1, <2>1, TopWaits
<1>3. t = BetweenText("array", f) /\ t \in Seq(Letter)
  <2>1. t = BetweenText("array", f)
    BY DEF Formatted, BetweenText
  <2>2. BetweenText("array", f) \in Seq(Letter)
    BY <1>1, <1>2, TextsAreLetters
  <2> QED BY <2>1, <2>2
<1>4. Left = t \o FromKid(i, f, d, k)
  <2>1. Left = Behind(i, f, d, Top.kid)
    BY <1>1 DEF Left, Rest
  <2> HIDE DEF i, f, d
  <2>2. Behind(i, f, d, Top.kid) = BetweenText("array", f) \o FromKid(i, f, d, k)
    BY <1>1, <1>2, ArrayRest
  <2> QED BY <1>3, <2>1, <2>2
<1>5. Write(Len(t) + 1, Append(t, Nul),
            [offset |-> offset + Len(t), depth |-> depth, stack |-> PrintKid(k)])
  BY DEF Comma
<1> HIDE DEF t, k
<1>6. Prints(t, stack, PrintKid(k), call.format) /\ CallsOK(PrintKid(k), call.item)
  <2>1. Left = t \o FromKid(Top.item, call.format, Len(stack) - 1, k)
    BY <1>4
  <2> QED BY <1>1, <1>2, <1>3, <2>1, CallText
<1>7. Top.at \notin {"returned", "named"}
  BY <1>1
<1> QED BY <1>1, <1>3, <1>5, <1>6, <1>7, WritesWithNul

\* What closes a list is all that is left there.
LEMMA CloseLeft ==
    ASSUME Top.at = "close"
    PROVE  Left = CloseText(It.kind, call.format, Len(stack) - 1)
BY DEF Left, Rest, It

\* CloseArray prints the array's closing bracket.
LEMMA CloseArrayPrints == ASSUME IInv, TextInv, CloseArray PROVE TextInv'
<1> DEFINE t == <<"]">>
<1>1. where = "printing" /\ Top.at = "close" /\ It.kind = "array"
  BY DEF CloseArray, At
<1>2. t \in Seq(Letter) /\ Len(t) + 1 = 2
  <2>1. "]" \in Letter
    BY LiteralsAreLetters
  <2>2. t \in Seq(Letter) /\ Len(t) = 1
    BY <2>1, OneDoes
  <2> QED BY <2>2
<1>3. Left = t
  BY <1>1, CloseLeft DEF CloseText
<1>4. <<"]", Nul>> = Append(t, Nul)
  OBVIOUS
<1>5. Write(2, Append(t, Nul), [offset |-> offset, depth |-> depth - 1, stack |-> Returned])
  BY <1>4 DEF CloseArray
<1> HIDE DEF t
<1>6. /\ Prints(t, stack, Returned, call.format) /\ CallsOK(Returned, call.item)
      /\ Waiting(Returned)
  BY <1>1, <1>2, <1>3, ReturnText
<1>7. Top.at \notin {"returned", "named"}
  BY <1>1
<1>8. Write(Len(t) + 1, Append(t, Nul),
            [offset |-> offset, depth |-> depth - 1, stack |-> Returned])
  BY <1>2, <1>5
<1> QED BY <1>1, <1>2, <1>6, <1>7, <1>8, WritesWithNul

\* Two texts of one letter, or of one and none.
LEMMA JoinsToPair ==
    ASSUME NEW S, NEW x \in S, NEW y \in S
    PROVE  /\ <<x>> \o <<y>> = <<x, y>> /\ <<x>> \o <<>> = <<x>>
           /\ Append(<<x>>, y) = <<x, y>>
<1>1. <<x>> \in Seq(S)
  OBVIOUS
<1>2. <<x, y>> = Append(<<x>>, y)
  OBVIOUS
<1>3. Append(<<x>>, y) = <<x>> \o <<y>>
  BY <1>1, AppendIsConcat
<1>4. <<x>> \o <<>> = <<x>>
  BY <1>1, ConcatEmptySeq
<1> QED BY <1>2, <1>3, <1>4

\* OpenObject prints the object's opening brace.
LEMMA OpenObjectPrints == ASSUME IInv, TextInv, OpenObject PROVE TextInv'
<1> DEFINE frames == IF More THEN Member(1) ELSE To("close")
           t == Formatted(<<"{", "\n">>, <<"{">>)
           i == Top.item
           f == call.format
           d == Len(stack) - 1
           next == IF f THEN Tabs(d + 1) \o FromKey(i, f, d, 1) ELSE FromKey(i, f, d, 1)
<1>1. where = "printing" /\ Top.at = "value" /\ It.kind = "object" /\ It = Tree[i]
  BY DEF OpenObject, At, It
<1>2. Top.kid = 0 /\ i \in Item /\ f \in BOOLEAN /\ d \in Nat /\ Len(It.kids) \in Nat
  BY <1>1, TopWaits, PrintingIs DEF Placed
<1>3. t = OpenText(It.kind, f) /\ t \in Seq(Letter)
  <2>1. <<"{">> \o <<"\n">> = <<"{", "\n">> /\ <<"{">> \o <<>> = <<"{">>
    <3>1. "{" \in Letter /\ "\n" \in Letter
      BY LiteralsAreLetters
    <3> QED BY ONLY <3>1, JoinsToPair
  <2>2. OpenText("object", f) = IF f THEN <<"{">> \o <<"\n">> ELSE <<"{">> \o <<>>
    BY DEF OpenText, Newline
  <2>3. t = OpenText("object", f)
    BY <2>1, <2>2 DEF Formatted
  <2>4. OpenText(Tree[i].kind, f) \in Seq(Letter)
    BY <1>2, TextsAreLetters
  <2> QED BY <1>1, <2>3, <2>4
<1>4. Left = t \o Behind(i, f, d, 0)
  <2>1. Left = TextOf[i][f][d]
    BY <1>1, ValueLeft
  <2>2. TextOf[i][f][d] = OpenText(Tree[i].kind, f) \o Behind(i, f, d, 0)
    BY <1>1, <1>2, ListText
  <2> QED BY <1>1, <1>3, <2>1, <2>2
<1>5. Write(Len(t) + 1, t, [offset |-> offset + Len(t), depth |-> depth + 1, stack |-> frames])
  BY DEF OpenObject
<1> HIDE DEF t, i, f, d
<1>6. /\ Prints(t, stack, frames, call.format) /\ CallsOK(frames, call.item)
      /\ ~Waiting(frames)
  <2>1. CASE More
    <3>1. 0 < Len(Tree[i].kids) /\ 1 \in 1..Len(It.kids) /\ 0 \in 0..Len(Tree[i].kids)
      BY <1>1, <1>2, <2>1 DEF More
    <3>2. Behind(i, f, d, 0) = next
      <4>1. Tree[i].kind = "object"
        BY <1>1
      <4>2. 1 \in 1..Len(Tree[i].kids)
        BY <3>1
      <4> QED BY <1>2, <4>1, <4>2, ObjectStart
    <3>3. Left = t \o (IF call.format
                        THEN Tabs((Len(stack) - 1) + 1)
                               \o FromKey(Top.item, call.format, Len(stack) - 1, 1)
                        ELSE FromKey(Top.item, call.format, Len(stack) - 1, 1))
      BY <1>4, <3>2 DEF i, f, d
    <3> QED BY <1>1, <1>3, <2>1, <3>1, <3>3, MemberText
  <2>2. CASE ~More
    <3>1. 0 = Len(Tree[i].kids) /\ 0 \in 0..Len(Tree[i].kids) /\ Tree[i].kids = <<>>
      <4>1. 0 = Len(Tree[i].kids)
        BY <1>1, <1>2, <2>2 DEF More
      <4>2. Tree[i].kids \in Seq(Item)
        BY <1>2, ItemIs
      <4> QED BY <4>1, <4>2, EmptySeq
    <3>2. Behind(i, f, d, 0) = CloseText(It.kind, f, d)
      <4>1. Tree[i].kind = "object"
        BY <1>1
      <4>2. Behind(i, f, d, 0) = Newline(f /\ Tree[i].kids # <<>>) \o CloseText("object", f, d)
        BY <1>2, <3>1, <4>1, ObjectRest, ZenonT(60)
      <4>3. Newline(f /\ Tree[i].kids # <<>>) = <<>>
        BY <3>1 DEF Newline
      <4>4. CloseText("object", f, d) \in Seq(Letter)
        BY <1>2, <4>1, TextsAreLetters
      <4> QED BY <1>1, <4>2, <4>3, <4>4, ConcatLetters
    <3>3. Left = t \o CloseText(It.kind, call.format, Len(stack) - 1)
      BY <1>4, <3>2 DEF f, d
    <3> QED BY <1>1, <1>3, <2>2, <3>3, EndText
  <2> QED BY <2>1, <2>2
<1> HIDE DEF frames
<1>7. Top.at \notin {"returned", "named"} /\ Len(t) + 1 \in {Len(t), Len(t) + 1}
  BY <1>1
<1> QED BY <1>1, <1>3, <1>5, <1>6, <1>7, WritesBare

\* Where an object is at a member, the member is there.
LEMMA MemberIs ==
    ASSUME IInv, TextInv, where = "printing", Top.at \in {"indent", "key", "named", "colon"}
    PROVE  /\ Top.item \in Item /\ call.format \in BOOLEAN /\ Len(stack) - 1 \in Nat
           /\ Top.kid \in 1..Len(It.kids) /\ Top.kid \in 0..Len(It.kids) /\ Top.kid > 0
           /\ Tree[It.kids[Top.kid]].name \in Seq(Letter)
           /\ FromKey(Top.item, call.format, Len(stack) - 1, Top.kid) \in Seq(Letter)
<1>1. /\ Top.item \in Item /\ call.format \in BOOLEAN /\ Len(stack) - 1 \in Nat
      /\ Top.kid \in 0..Len(It.kids) /\ Top.kid > 0 /\ Top.kid \in 1..Len(It.kids)
  <2>1. Top.kid > 0
    BY PrintingIs DEF Placed
  <2> QED BY <2>1, TopWaits
<1>2. Tree[It.kids[Top.kid]].name \in Seq(Letter)
  BY <1>1, ItemIs DEF It
<1>3. FromKey(Top.item, call.format, Len(stack) - 1, Top.kid) \in Seq(Letter)
  BY <1>1, FromIs DEF It
<1> QED BY <1>1, <1>2, <1>3

\* It goes on to another place at the same member.
LEMMA PlaceText ==
    ASSUME IInv, TextInv, where = "printing", It.kind \in {"array", "object"},
           NEW p \in {"key", "named"}, Top.kid > 0, NEW t \in Seq(Letter), NEW u,
           Left = t \o u,
           p = "key" => u = FromKey(Top.item, call.format, Len(stack) - 1, Top.kid),
           p = "named" => u = FromColon(Top.item, call.format, Len(stack) - 1, Top.kid)
    PROVE  /\ Prints(t, stack, To(p), call.format) /\ CallsOK(To(p), call.item)
           /\ Waiting(To(p)) <=> p = "named"
<1> DEFINE x == Moved(Top, Top.kid, p)
           r == Append(Front(stack), x)
<1>1. /\ Top.kid \in 0..Len(It.kids) /\ p \in Place \ {"value"} /\ p \in Place
      /\ p # "comma" /\ (p \in {"returned", "named"} <=> p = "named")
  BY TopWaits DEF Place
<1>2. To(p) = r
  BY <1>1, ToIs
<1>3. x.at = p /\ x.item = Top.item /\ x.kid = Top.kid
  BY <1>1, MovesTo
<1>4. Rest(x, call.format, Len(stack) - 1) = u
  <2> HIDE DEF x
  <2> QED BY <1>3 DEF Rest
<1>5. Left = t \o Rest(Moved(Top, Top.kid, p), call.format, Len(stack) - 1)
  BY <1>4
<1>6. /\ Prints(t, stack, r, call.format) /\ CallsOK(r, call.item)
      /\ Waiting(r) <=> p \in {"returned", "named"}
  BY <1>1, <1>5, GoOnText
<1> QED BY <1>1, <1>2, <1>6

\* Indent prints the tabs before a member.
LEMMA IndentPrints == ASSUME IInv, TextInv, Indent PROVE TextInv'
<1> DEFINE t == Tabs(depth)
<1>1. where = "printing" /\ Top.at = "indent" /\ It.kind = "object"
  BY DEF Indent, At
<1>2. depth = (Len(stack) - 1) + 1 /\ depth \in Nat /\ Top.kid > 0
  BY <1>1, PrintingIs, MemberIs
<1>3. t \in Seq(Letter) /\ Len(t) = depth
  BY <1>2, TabLetters
<1>4. Left = t \o FromKey(Top.item, call.format, Len(stack) - 1, Top.kid)
  BY <1>1, <1>2 DEF Left, Rest
<1>5. Write(depth, t, [offset |-> offset + depth, depth |-> depth, stack |-> To("key")])
  BY DEF Indent
<1> HIDE DEF t
<1>6. /\ Prints(t, stack, To("key"), call.format) /\ CallsOK(To("key"), call.item)
      /\ ~Waiting(To("key"))
  BY <1>1, <1>2, <1>3, <1>4, PlaceText
<1>7. Top.at \notin {"returned", "named"} /\ depth \in {Len(t), Len(t) + 1}
  BY <1>1, <1>3
<1>8. Write(depth, t, [offset |-> offset + Len(t), depth |-> depth, stack |-> To("key")])
  BY <1>3, <1>5
<1> QED BY <1>1, <1>3, <1>6, <1>7, <1>8, WritesBare

\* Key prints the member's name.
LEMMA KeyPrints == ASSUME IInv, TextInv, Key PROVE TextInv'
<1> DEFINE s == Tree[It.kids[Top.kid]].name
<1>1. /\ where = "printing" /\ Top.at = "key" /\ It.kind = "object"
      /\ WriteString(s, To("named"))
  BY DEF Key, At
<1>2. s \in Seq(Letter) /\ Top.kid > 0
  BY <1>1, MemberIs
<1>3. Left = Quoted(s) \o FromColon(Top.item, call.format, Len(stack) - 1, Top.kid)
  BY <1>1 DEF Left, Rest, FromKey, It
<1> HIDE DEF s
<1>4. Quoted(s) \in Seq(Letter)
  BY <1>2, QuotedIs
<1>5. /\ Prints(Quoted(s), stack, To("named"), call.format) /\ CallsOK(To("named"), call.item)
      /\ Waiting(To("named"))
  BY <1>1, <1>2, <1>3, <1>4, PlaceText
<1>6. Top.at \notin {"returned", "named"}
  BY <1>1
<1> QED BY <1>1, <1>2, <1>5, <1>6, WritesQuoted

\* Colon prints what is between a name and its value.
LEMMA ColonPrints == ASSUME IInv, TextInv, Colon PROVE TextInv'
<1> DEFINE t == Formatted(<<":", "\t">>, <<":">>)
<1>1. where = "printing" /\ Top.at = "colon" /\ It.kind = "object"
  BY DEF Colon, At
<1>2. Top.kid \in 1..Len(It.kids) /\ call.format \in BOOLEAN
  BY <1>1, MemberIs
<1>3. t = ColonText(call.format) /\ t \in Seq(Letter)
  <2>1. t = ColonText(call.format)
    BY DEF Formatted, ColonText
  <2>2. ColonText(call.format) \in Seq(Letter)
    BY <1>2, ListLetters
  <2> QED BY <2>1, <2>2
<1>4. Left = t \o FromKid(Top.item, call.format, Len(stack) - 1, Top.kid)
  BY <1>1, <1>3 DEF Left, Rest, FromColon
<1>5. Write(Len(t), t, [offset |-> offset + Len(t), depth |-> depth, stack |-> PrintKid(Top.kid)])
  BY DEF Colon
<1> HIDE DEF t
<1>6. /\ Prints(t, stack, PrintKid(Top.kid), call.format)
      /\ CallsOK(PrintKid(Top.kid), call.item) /\ ~Waiting(PrintKid(Top.kid))
  BY <1>1, <1>2, <1>3, <1>4, CallText
<1>7. Top.at \notin {"returned", "named"} /\ Len(t) \in {Len(t), Len(t) + 1}
  BY <1>1
<1> QED BY <1>1, <1>3, <1>5, <1>6, <1>7, WritesBare

\* AfterMember prints what comes behind a member.
LEMMA AfterMemberPrints == ASSUME IInv, TextInv, AfterMember PROVE TextInv'
<1> DEFINE frames == IF More THEN Member(Top.kid + 1) ELSE To("close")
           t == (IF More THEN <<",">> ELSE <<>>) \o Formatted(<<"\n">>, <<>>)
           i == Top.item
           f == call.format
           d == Len(stack) - 1
           k == Top.kid
           next == IF f THEN Tabs(d + 1) \o FromKey(i, f, d, k + 1) ELSE FromKey(i, f, d, k + 1)
<1>1. where = "printing" /\ Top.at = "after" /\ It.kind = "object" /\ It = Tree[i]
  BY DEF AfterMember, At, It
<1>2. /\ i \in Item /\ f \in BOOLEAN /\ d \in Nat /\ Len(It.kids) \in Nat
      /\ k \in 0..Len(It.kids) /\ k > 0 /\ k # 0
  <2>1. k > 0
    BY <1>1, TopWaits DEF Waits
  <2> QED BY <1>1, <2>1, TopWaits
<1>3. Left = Behind(i, f, d, k)
  BY <1>1 DEF Left, Rest
<1>4. Write(Len(t) + 1, Append(t, Nul),
            [offset |-> offset + Len(t), depth |-> depth, stack |-> frames])
  BY DEF AfterMember
<1>5. Newline(f) = Formatted(<<"\n">>, <<>>) /\ Newline(f) \in Seq(Letter)
  BY <1>2, ListLetters DEF Newline, Formatted
<1>6. t = (IF More THEN <<",">> ELSE <<>>) \o Newline(f)
  BY <1>5
<1>7. t \in Seq(Letter)
  <2>1. "," \in Letter
    BY LiteralsAreLetters
  <2>2. <<",">> \in Seq(Letter) /\ <<>> \in Seq(Letter)
    <3>1. <<",">> \in Seq(Letter)
      BY <2>1, OneDoes
    <3>2. <<>> \in Seq(Letter)
      OBVIOUS
    <3> QED BY <3>1, <3>2
  <2>3. (IF More THEN <<",">> ELSE <<>>) \in Seq(Letter)
    BY <2>2
  <2> QED BY <1>5, <1>6, <2>3, ConcatLetters
<1> HIDE DEF t, i, f, d, k
<1>8. Prints(t, stack, frames, call.format) /\ CallsOK(frames, call.item)
  <2>1. CASE More
    <3>1. k < Len(Tree[i].kids) /\ k + 1 \in 1..Len(It.kids) /\ k \in 0..Len(Tree[i].kids)
      BY <1>1, <1>2, <2>1 DEF More, k
    <3>2. t = BetweenText("object", f)
      BY <1>6, <2>1 DEF BetweenText
    <3>3. Behind(i, f, d, k) = t \o next
      <4>1. Tree[i].kind = "object"
        BY <1>1
      <4>2. Behind(i, f, d, k) = BetweenText("object", f) \o next
        BY <1>2, <3>1, <4>1, ObjectRest
      <4> QED BY <3>2, <4>2
    <3>4. Left = t \o (IF call.format
                        THEN Tabs((Len(stack) - 1) + 1)
                               \o FromKey(Top.item, call.format, Len(stack) - 1, k + 1)
                        ELSE FromKey(Top.item, call.format, Len(stack) - 1, k + 1))
      BY <1>3, <3>3 DEF i, f, d
    <3>5. Prints(t, stack, Member(k + 1), call.format) /\ CallsOK(Member(k + 1), call.item)
      BY <1>1, <1>7, <3>1, <3>4, MemberText
    <3> QED BY <2>1, <3>5 DEF k
  <2>2. CASE ~More
    <3>1. k = Len(Tree[i].kids) /\ k \in 0..Len(Tree[i].kids) /\ Tree[i].kids # <<>>
      <4>1. k = Len(Tree[i].kids)
        BY <1>1, <1>2, <2>2 DEF More, k
      <4> QED BY <1>1, <1>2, <4>1, EmptySeq
    <3>2. t = Newline(f)
      BY <1>5, <1>6, <2>2, ConcatLetters
    <3>3. Behind(i, f, d, k) = t \o CloseText(It.kind, f, d)
      <4>1. Tree[i].kind = "object"
        BY <1>1
      <4>2. Behind(i, f, d, k) = Newline(f /\ Tree[i].kids # <<>>) \o CloseText("object", f, d)
        BY <1>2, <3>1, <4>1, ObjectRest
      <4>3. Newline(f /\ Tree[i].kids # <<>>) = Newline(f)
        BY <3>1 DEF Newline
      <4> QED BY <1>1, <3>2, <4>2, <4>3
    <3>4. Left = t \o CloseText(It.kind, call.format, Len(stack) - 1)
      BY <1>3, <3>3 DEF f, d
    <3> QED BY <1>1, <1>7, <2>2, <3>4, EndText
  <2> QED BY <2>1, <2>2
<1> HIDE DEF frames
<1>9. Top.at \notin {"returned", "named"}
  BY <1>1
<1> QED BY <1>1, <1>4, <1>7, <1>8, <1>9, WritesWithNul

\* CloseObject prints the object's closing brace.
LEMMA CloseObjectPrints == ASSUME IInv, TextInv, CloseObject PROVE TextInv'
<1> DEFINE n == Formatted(depth - 1, 0)
           brace == <<"}">>
           e == <<"}", Nul>>
           a == Tabs(n)
           t == a \o brace
<1>1. where = "printing" /\ Top.at = "close" /\ It.kind = "object"
  BY DEF CloseObject, At
<1>2. /\ n \in Nat /\ Formatted(depth + 1, 2) = n + 2
      /\ n = (IF call.format THEN Len(stack) - 1 ELSE 0)
  <2>1. depth \in Nat /\ depth - 1 \in Nat /\ depth = Len(stack)
    BY <1>1, PrintingIs
  <2> QED BY <2>1 DEF Formatted
<1>3. a \in Seq(Letter) /\ Len(a) = n
  BY <1>2, TabLetters
<1>4. brace \in Seq(Letter) /\ Len(brace) = 1 /\ e = Append(brace, Nul)
  <2>1. "}" \in Letter
    BY LiteralsAreLetters
  <2>2. brace \in Seq(Letter) /\ Len(brace) = 1
    BY <2>1, OneDoes
  <2>3. e = Append(brace, Nul)
    <3>1. "}" \in Symbol /\ Nul \in Symbol
      BY <2>1 DEF Letter, Symbol
    <3> QED BY <3>1, JoinsToPair
  <2> QED BY <2>2, <2>3
<1>5. Left = t
  <2>1. Left = CloseText(It.kind, call.format, Len(stack) - 1)
    BY <1>1, CloseLeft
  <2>2. CloseText(It.kind, call.format, Len(stack) - 1)
            = Tabs(IF call.format THEN Len(stack) - 1 ELSE 0) \o brace
    BY <1>1 DEF CloseText
  <2> QED BY <1>2, <2>1, <2>2
<1>6. Write(Formatted(depth + 1, 2), a \o e,
            [offset |-> offset, depth |-> depth - 1, stack |-> Returned])
  BY DEF CloseObject
<1> HIDE DEF n, brace, e, a
<1>7. t \in Seq(Letter) /\ Len(t) + 1 = n + 2
  <2>1. t \in Seq(Letter) /\ Len(t) = Len(a) + Len(brace)
    BY <1>3, <1>4, ConcatLetters
  <2> HIDE DEF t
  <2> QED BY <1>2, <1>3, <1>4, <2>1
<1>8. a \o e = Append(t, Nul)
  <2>1. a \in Seq(Symbol) /\ brace \in Seq(Symbol) /\ Nul \in Symbol
    BY <1>3, <1>4, TextLetters DEF Symbol
  <2>2. a \o Append(brace, Nul) = Append(a \o brace, Nul)
    BY ONLY <2>1
  <2> QED BY <1>4, <2>2
<1> HIDE DEF t
<1>9. /\ Prints(t, stack, Returned, call.format) /\ CallsOK(Returned, call.item)
      /\ Waiting(Returned)
  BY <1>1, <1>5, <1>7, ReturnText
<1>10. Top.at \notin {"returned", "named"}
  BY <1>1
<1>11. Write(Len(t) + 1, Append(t, Nul),
             [offset |-> offset, depth |-> depth - 1, stack |-> Returned])
  BY <1>2, <1>6, <1>7, <1>8
<1> QED BY <1>1, <1>7, <1>9, <1>10, <1>11, WritesWithNul

-----------------------------------------------------------------------------
\* strlen finds as much as is printed.
LEMMA UnreadIs ==
    ASSUME IInv, TextInv, Unread, NEW e, Written(e)
    PROVE  /\ e \in Nat /\ offset \in Nat /\ offset <= e /\ e + 1 <= Len(buffer)
           /\ buffer[e + 1] = Nul /\ e <= Len(Wanted) /\ Len(buffer) = length
           /\ \A m \in 1..e : buffer[m] = Wanted[m]
           /\ \A n \in 0..e : Strlen(buffer, n) = e - n
           /\ offset + Strlen(buffer, offset) = e
<1>1. /\ e \in Nat /\ offset <= e /\ e + 1 <= Len(buffer) /\ buffer[e + 1] = Nul
      /\ PrintedTo(e, stack, call.format, Wanted)
      /\ \A m \in 1..e : buffer[m] = Wanted[m]
  BY DEF Written
<1>2. where # "idle" /\ call.format \in BOOLEAN
  BY DEF TextInv, Unread
<1>3. /\ StackOK(stack) /\ offset \in Nat /\ buffer \in Seq(Symbol) /\ Len(buffer) = length
  BY DEF IInv, Running, Bytes, StaysInside
<1>4. Wanted \in Seq(Letter) /\ Len(Wanted) \in Nat /\ \A m \in 1..Len(Wanted) : Wanted[m] # Nul
  BY <1>2, WantedIs
<1>5. e <= Len(Wanted)
  BY <1>1, <1>2, <1>3, <1>4, PrintedInside
<1>6. \A m \in 1..e : buffer[m] # Nul
  <2>1. \A m \in 1..e : m \in 1..Len(Wanted)
    BY <1>1, <1>4, <1>5
  <2> QED BY <1>1, <1>4, <2>1
<1>7. ASSUME NEW n \in 0..e PROVE Strlen(buffer, n) = e - n
  <2>1. n \in Nat /\ n <= e
    BY <1>1
  <2> QED BY <1>1, <1>3, <1>6, <2>1, StrlenIs
<1>8. offset + Strlen(buffer, offset) = e
  <2>1. offset \in 0..e
    BY <1>1, <1>3
  <2>2. Strlen(buffer, offset) = e - offset
    BY <1>7, <2>1
  <2> QED BY <1>1, <1>3, <2>2
<1> QED BY <1>1, <1>3, <1>5, <1>7, <1>8

\* UpdateOffset goes behind what is printed, and what is left stays the same.
LEMMA UpdateOffsetPrints == ASSUME IInv, TextInv, UpdateOffset PROVE TextInv'
<1> DEFINE p == AfterText
           x == Moved(Top, Top.kid, p)
           i == Top.item
           f == call.format
           d == Len(stack) - 1
           k == Top.kid
<1>1. /\ where = "printing" /\ where' = "printing" /\ Top.at \in {"returned", "named"}
      /\ call' = call /\ buffer' = buffer /\ length' = length /\ It = Tree[i]
      /\ stack' = To(p) /\ offset' = offset + Strlen(buffer, offset)
  BY DEF UpdateOffset, It
<1>2. Unread
  BY <1>1 DEF Unread
<1>3. PICK e : Written(e)
  BY <1>1 DEF TextInv
<1>4. /\ e \in Nat /\ e + 1 <= Len(buffer) /\ offset' = e /\ Len(buffer) = length /\ length \in Nat
      /\ \A m \in 1..e : buffer[m] = Wanted[m]
  BY <1>1, <1>2, <1>3, UnreadIs DEF IInv, Bytes
<1>5. /\ i \in Item /\ f \in BOOLEAN /\ d \in Nat /\ k \in 0..Len(It.kids)
      /\ It.kind \in {"array", "object"} /\ k > 0 /\ Waits(Top) /\ Len(It.kids) \in Nat
  BY <1>1, TopWaits DEF Waits, It
<1>6. /\ p \in {"colon", "after", "comma", "close"} /\ p \in Place \ {"value"} /\ p \in Place
      /\ p = "colon" <=> Top.at = "named"
      /\ p = "comma" => k < Len(It.kids)
      /\ p = "close" => It.kind = "array" /\ k = Len(It.kids)
  <2>1. Top.at # "named" => /\ It.kind = "object" => p = "after"
                            /\ It.kind # "object" /\ More => p = "comma"
                            /\ It.kind # "object" /\ ~More => p = "close"
    BY DEF AfterText
  <2>2. Top.at = "named" => p = "colon"
    BY DEF AfterText
  <2>3. More <=> k < Len(It.kids)
    BY DEF More
  <2>4. {"colon", "after", "comma", "close"} \subseteq Place \ {"value"}
    BY DEF Place
  <2> HIDE DEF p, k
  <2> QED BY <1>5, <2>1, <2>2, <2>3, <2>4
<1>7. Left = Rest(x, f, d)
  <2>1. x.at = p /\ x.item = i /\ x.kid = k
    BY <1>1, <1>5, <1>6, MovesTo
  <2>2. Left = IF Top.at = "named" THEN FromColon(i, f, d, k) ELSE Behind(i, f, d, k)
    BY <1>1 DEF Left, Rest
  <2>3. Rest(x, f, d) = IF p = "colon" THEN FromColon(i, f, d, k)
                        ELSE IF p = "close" THEN CloseText(Tree[i].kind, f, d)
                        ELSE Behind(i, f, d, k)
    <3> HIDE DEF x, p, i, f, d, k
    <3> QED BY <1>6, <2>1 DEF Rest
  <2>4. p = "close" => Behind(i, f, d, k) = CloseText(Tree[i].kind, f, d)
    <3> SUFFICES ASSUME p = "close" PROVE Behind(i, f, d, k) = CloseText(Tree[i].kind, f, d)
      OBVIOUS
    <3>1. Tree[i].kind = "array" /\ k = Len(Tree[i].kids) /\ k \in 0..Len(Tree[i].kids)
      BY <1>1, <1>5, <1>6
    <3> HIDE DEF i, f, d, k, p
    <3>2. Behind(i, f, d, k) = CloseText("array", f, d)
      BY <1>5, <3>1, ArrayRest
    <3> QED BY <3>1, <3>2
  <2> HIDE DEF x, p, i, f, d, k
  <2> QED BY <1>6, <2>2, <2>3, <2>4
<1>8. <<>> \in Seq(Letter) /\ Left = <<>> \o Rest(x, f, d) /\ Len(<<>>) = 0
  <2>1. Rest(x, f, d) \in Seq(Letter)
    <3>1. x \in Frames /\ Placed(x)
      BY <1>1, <1>5, <1>6, MovesTo
    <3> HIDE DEF x, f, d
    <3> QED BY <1>5, <3>1, RestDoes
  <2> DEFINE u == Rest(x, f, d)
  <2>2. Left = u /\ u \in Seq(Letter)
    BY <1>7, <2>1
  <2> HIDE DEF u
  <2>3. <<>> \o u = u /\ <<>> \in Seq(Letter)
    BY <2>2, ConcatLetters
  <2> QED BY <2>2, <2>3 DEF u
<1> DEFINE r == Append(Front(stack), x)
<1>9. r = stack'
  BY <1>1, <1>6, ToIs
<1>10. /\ Prints(<<>>, stack, r, f) /\ CallsOK(r, call.item)
       /\ Waiting(r) <=> p \in {"returned", "named"}
  <2> DEFINE u == <<>>
  <2>1. Left = u \o Rest(Moved(Top, k, p), call.format, Len(stack) - 1) /\ u \in Seq(Letter)
    BY <1>8
  <2>2. p = "comma" => k < Len(It.kids)
    BY <1>6
  <2>3. p # "close" => k > 0
    BY <1>5
  <2>4. k \in 0..Len(It.kids) /\ p \in Place \ {"value"}
    BY <1>5, <1>6
  <2>5. where = "printing" /\ It.kind \in {"array", "object"}
    BY <1>1, <1>5
  <2> HIDE DEF p, u, k
  <2>6. LET q == Append(Front(stack), Moved(Top, k, p))
        IN  /\ Prints(u, stack, q, call.format) /\ CallsOK(q, call.item)
            /\ Waiting(q) <=> p \in {"returned", "named"}
    BY <2>1, <2>2, <2>3, <2>4, <2>5, GoOnText
  <2> QED BY <2>6 DEF u, k
<1> HIDE DEF r, x, i, d, k, p
<1>11. PrintedTo(e, stack', call'.format, Wanted') /\ Wanted' = Wanted
  <2>1. PrintedTo(e, stack, f, Wanted) /\ Wanted \in Seq(Letter)
    BY <1>1, <1>3, WantedIs DEF Written
  <2>2. Wanted' = Wanted
    BY <1>1 DEF Wanted
  <2>3. PrintedTo(e + 0, r, f, Wanted)
    BY <1>4, <1>8, <1>10, <2>1 DEF Prints
  <2>4. e + 0 = e
    BY <1>4
  <2> QED BY <1>1, <1>9, <2>2, <2>3, <2>4
<1>12. ~Unread'
  <2>1. ~Waiting(stack')
    BY <1>6, <1>9, <1>10
  <2> QED BY <1>1, <2>1 DEF Unread, Waiting, Top
<1>13. Written(e)'
  <2>1. /\ e \in Nat /\ offset' <= e /\ e <= Len(buffer') /\ \A m \in 1..e : buffer'[m] = Wanted'[m]
        /\ IF Unread' THEN e + 1 <= Len(buffer') /\ buffer'[e + 1] = Nul ELSE e = offset'
    BY <1>1, <1>4, <1>11, <1>12
  <2> QED BY <1>11, <2>1 DEF Written
<1>14. CallsOK(stack', call'.item) /\ offset' < length'
  BY <1>1, <1>4, <1>9, <1>10
<1>15. FailsOnlyForRoom'
  BY <1>1 DEF FailsOnlyForRoom
<1>16. noalloc' => length' <= IntMax
  BY <1>1 DEF TextInv, noalloc
<1>17. call'.item \in Item /\ call'.format \in BOOLEAN
  BY <1>1 DEF TextInv
<1> QED BY <1>1, <1>13, <1>14, <1>15, <1>16, <1>17 DEF TextInv

\* PrintValue prints the item's text.
LEMMA PrintValuePrints == ASSUME IInv, TextInv, PrintValue PROVE TextInv'
BY PrintConstantPrints, PrintNumberPrints, PrintRawPrints, PrintStringPrints,
   PrintNothingPrints, UpdateOffsetPrints, OpenArrayPrints, CommaPrints, CloseArrayPrints,
   OpenObjectPrints, IndentPrints, KeyPrints, ColonPrints, AfterMemberPrints,
   CloseObjectPrints DEF PrintValue

-----------------------------------------------------------------------------
\* A call begins with nothing printed.
LEMMA BeginPrints ==
    ASSUME IInv, TextInv, NEW name, NEW i \in Item, NEW format \in BOOLEAN, NEW n \in Nat,
           name = "preallocated" => n <= IntMax, Begin(name, i, format, n)
    PROVE  TextInv'
<1> DEFINE w == TextOf[i][format][0]
<1>1. /\ call' = [name |-> name, item |-> i, format |-> format] /\ where' = "printing"
      /\ buffer' = Fresh(<<>>, 0, n) /\ length' = n /\ stack' = <<Frame(i)>> /\ offset' = 0
  BY DEF Begin, TextInv
<1>2. call'.item = i /\ call'.format = format /\ call'.name = name /\ Wanted' = w
  BY <1>1 DEF Wanted
<1>3. Len(buffer') \in Nat
  <2>1. <<>> \in Seq(Symbol) /\ 0 \in Nat
    OBVIOUS
  <2> QED BY <1>1, <2>1, FreshDoes
<1>4. PrintedTo(0, stack', call'.format, Wanted')
  <2>1. PrintedTo(0, <<Frame(i)>>, format, w)
    BY PrintedNothing
  <2> QED BY <1>1, <1>2, <2>1
<1> HIDE DEF w
<1>5. PICK e : e = 0
  OBVIOUS
<1>6. ~Unread'
  <2>1. Last(stack').at = "value"
    BY <1>1 DEF Last, Frame
  <2> QED BY <1>1, <2>1 DEF Unread, Top
<1>7. Written(e)'
  <2>1. /\ e \in Nat /\ offset' <= e /\ e <= Len(buffer') /\ \A m \in 1..e : buffer'[m] = Wanted'[m]
        /\ PrintedTo(e, stack', call'.format, Wanted') /\ e = offset'
    BY <1>1, <1>3, <1>4, <1>5
  <2> QED BY <1>6, <2>1 DEF Written
<1>8. CallsOK(stack', call'.item)
  <2>1. Frame(i).item = i /\ Waits(Frame(i))
    BY DEF Frame, Waits
  <2>2. Len(<<Frame(i)>>) = 1 /\ <<Frame(i)>>[1] = Frame(i) /\ \A j \in 1..1 : j = 1
    OBVIOUS
  <2>3. CallsOK(<<Frame(i)>>, i)
    BY <2>1, <2>2 DEF CallsOK
  <2> QED BY <1>1, <1>2, <2>3
<1>9. noalloc' => length' <= IntMax
  BY <1>1, <1>2 DEF noalloc
<1>10. FailsOnlyForRoom'
  BY <1>1 DEF FailsOnlyForRoom
<1>11. length' > 0 => offset' < length'
  BY <1>1
<1> QED BY <1>1, <1>2, <1>7, <1>8, <1>9, <1>10, <1>11 DEF TextInv

\* A call that never begins, or ends, prints nothing.
LEMMA OthersPrint ==
    ASSUME IInv, TextInv,
           \/ Return \/ ShrinkFails \/ Fail \/ Release \/ InitHooks \/ UNCHANGED vars
           \/ \E name \in {"print", "buffered"}, i \in Item, f \in BOOLEAN : BeginFails(name, i, f)
    PROVE  TextInv'
<1>1. CASE Return
  <2>1. /\ where = "printed" /\ where' = "returned"
        /\ UNCHANGED <<call, stack, buffer, length, offset, lost>>
    BY <1>1 DEF Return
  <2>2. PICK e : Written(e)
    BY <2>1 DEF TextInv
  <2>3. Unread /\ Unread' /\ Wanted' = Wanted
    BY <2>1 DEF Unread, Wanted
  <2>4. Written(e)'
    BY <2>1, <2>2, <2>3 DEF Written
  <2>5. FailsOnlyForRoom'
    BY <2>1 DEF FailsOnlyForRoom
  <2> QED BY <2>1, <2>4, <2>5 DEF TextInv, noalloc
<1>2. CASE ShrinkFails
  <2>1. FailsOnlyForRoom'
    BY <1>2 DEF ShrinkFails, FailsOnlyForRoom
  <2> QED BY <1>2, <2>1 DEF ShrinkFails, TextInv, noalloc
<1>3. CASE Fail
  <2>1. FailsOnlyForRoom'
    BY <1>3 DEF Fail, FailsOnlyForRoom
  <2> QED BY <1>3, <2>1 DEF Fail, TextInv, noalloc
<1>4. CASE Release
  <2>1. FailsOnlyForRoom' /\ ~noalloc'
    BY <1>4 DEF Release, FailsOnlyForRoom, noalloc, NoCall
  <2> QED BY <1>4, <2>1 DEF Release, TextInv
<1>5. CASE InitHooks \/ UNCHANGED vars
  <2>1. UNCHANGED <<call, where, stack, buffer, length, offset, lost>>
    BY <1>5 DEF InitHooks, vars
  <2>2. (Unread' <=> Unread) /\ Wanted' = Wanted
    BY <2>1 DEF Unread, Wanted, Top
  <2>3. ASSUME NEW e, Written(e) PROVE Written(e)'
    BY <2>1, <2>2, <2>3 DEF Written
  <2>4. where' \in {"printing", "printed", "returned"} => \E e : Written(e)'
    BY <2>1, <2>3 DEF TextInv
  <2>5. FailsOnlyForRoom'
    BY <2>1, <2>2 DEF TextInv, FailsOnlyForRoom, noalloc, Printable
  <2> QED BY <2>1, <2>4, <2>5 DEF TextInv, noalloc
<1>6. CASE \E name \in {"print", "buffered"}, i \in Item, f \in BOOLEAN : BeginFails(name, i, f)
  <2>1. FailsOnlyForRoom' /\ ~noalloc' /\ call'.item \in Item /\ call'.format \in BOOLEAN
        /\ where' = "null"
    BY <1>6 DEF BeginFails, FailsOnlyForRoom, noalloc
  <2> QED BY <2>1 DEF TextInv
<1> QED BY <1>1, <1>2, <1>3, <1>4, <1>5, <1>6

\* Shrink moves the text and its null byte.
LEMMA ShrinkPrints == ASSUME IInv, TextInv, Shrink PROVE TextInv'
<1>1. /\ where = "printed" /\ where' = "returned" /\ call' = call /\ stack' = stack
      /\ call.name = "print"
  BY DEF Shrink
<1>2. PICK e : Written(e)
  BY <1>1 DEF TextInv
<1>3. Unread /\ Unread' /\ Wanted' = Wanted
  BY <1>1 DEF Unread, Wanted
<1>4. /\ e \in Nat /\ e + 1 <= Len(buffer) /\ buffer[e + 1] = Nul /\ Len(buffer) = length
      /\ \A m \in 1..e : buffer[m] = Wanted[m]
      /\ offset + Strlen(buffer, offset) = e
  BY <1>2, <1>3, UnreadIs
<1>5. /\ buffer' = IF reallocate THEN Fresh(buffer, length, e + 1)
                   ELSE Over(Fresh(buffer, Smaller(length, e + 1), e + 1), e, <<Nul>>)
      /\ length' = e + 1 /\ offset' = e
  BY <1>4 DEF Shrink
<1>6. buffer \in Seq(Symbol) /\ length \in Nat /\ Smaller(length, e + 1) = e + 1
  BY <1>4 DEF IInv, Bytes, Smaller
<1>7. Len(buffer') = e + 1 /\ buffer'[e + 1] = Nul /\ \A m \in 1..e : buffer'[m] = buffer[m]
  <2>1. ASSUME NEW k \in {length, e + 1}
        PROVE  /\ Fresh(buffer, k, e + 1) \in Seq(Symbol) /\ Len(Fresh(buffer, k, e + 1)) = e + 1
               /\ \A m \in 1..e + 1 : Fresh(buffer, k, e + 1)[m] = buffer[m]
    <3>1. k \in Nat /\ e + 1 \in Nat /\ e + 1 <= k
      BY <1>4, <1>6
    <3>2. \A m \in 1..e + 1 : m <= Smaller(k, Len(buffer))
      BY <1>4, <1>6, <3>1 DEF Smaller
    <3> QED BY <1>6, <3>1, <3>2, FreshDoes DEF Fresh
  <2>2. e + 1 \in 1..e + 1 /\ \A m \in 1..e : m \in 1..e + 1
    BY <1>4
  <2>3. CASE reallocate
    BY <1>4, <1>5, <2>1, <2>2, <2>3
  <2>4. CASE ~reallocate
    <3> DEFINE g == Fresh(buffer, e + 1, e + 1)
               z == <<Nul>>
    <3>1. g \in Seq(Symbol) /\ Len(g) = e + 1 /\ \A m \in 1..e + 1 : g[m] = buffer[m]
      BY <2>1
    <3>2. buffer' = Over(g, e, z)
      BY <1>5, <1>6, <2>4
    <3>3. z \in Seq(Symbol) /\ Len(z) = 1 /\ z[1] = Nul
      BY LiteralsAreSymbols, OneDoes
    <3> HIDE DEF g, z
    <3>4. e <= Len(g) /\ e + Len(z) <= Len(g) /\ 1 \in 1..Len(z)
      BY <1>4, <3>1, <3>3
    <3>5. Len(buffer') = Len(g) /\ buffer'[e + 1] = z[1]
      BY <1>4, <3>1, <3>2, <3>3, <3>4, Lands, ZenonT(60)
    <3>6. \A m \in 1..e : buffer'[m] = g[m]
      BY <1>4, <3>1, <3>2, <3>3, <3>4, OverKeeps
    <3> QED BY <2>2, <3>1, <3>3, <3>5, <3>6
  <2> QED BY <2>3, <2>4
<1>8. Written(e)'
  <2>1. PrintedTo(e, stack', call'.format, Wanted')
    BY <1>1, <1>2, <1>3 DEF Written
  <2>2. /\ e \in Nat /\ offset' <= e /\ e <= Len(buffer') /\ \A m \in 1..e : buffer'[m] = Wanted'[m]
        /\ e + 1 <= Len(buffer') /\ buffer'[e + 1] = Nul
    BY <1>3, <1>4, <1>5, <1>7
  <2> QED BY <1>3, <2>1, <2>2 DEF Written
<1>9. FailsOnlyForRoom' /\ ~noalloc'
  BY <1>1 DEF FailsOnlyForRoom, noalloc
<1> QED BY <1>1, <1>8, <1>9 DEF TextInv

-----------------------------------------------------------------------------
\* The first letters of a buffer that holds the beginning of a text.
LEMMA PrefixIs ==
    ASSUME NEW b \in Seq(Symbol), NEW w \in Seq(Letter), NEW n \in Nat, NEW e \in Nat,
           n <= e, e <= Len(b), e <= Len(w), \A m \in 1..e : b[m] = w[m]
    PROVE  IsPrefix(SubSeq(b, 1, n), w)
<1> DEFINE s == SubSeq(b, 1, n)
           r == SubSeq(w, 1, n)
<1>1. /\ \A m \in 1..n : m \in 1..Len(b) /\ m \in 1..Len(w) /\ m \in 1..e
      /\ n <= Len(b) /\ n <= Len(w)
  OBVIOUS
<1>2. s = [m \in 1..n |-> b[m]] /\ Len(s) = n
  BY <1>1
<1>3. r = [m \in 1..n |-> w[m]] /\ Len(r) = n
  BY <1>1
<1>4. \A m \in 1..n : b[m] = w[m]
  BY <1>1
<1>5. s = r
  <2> HIDE DEF s, r
  <2> QED BY <1>2, <1>3, <1>4
<1> QED BY <1>1, <1>2, <1>5 DEF IsPrefix

\* ... and of one that holds all of it.
LEMMA WholeIs ==
    ASSUME NEW b \in Seq(Symbol), NEW w \in Seq(Letter), Len(w) <= Len(b),
           \A m \in 1..Len(w) : b[m] = w[m]
    PROVE  SubSeq(b, 1, Len(w)) = w
<1>1. \A m \in 1..Len(w) : m \in 1..Len(b)
  OBVIOUS
<1>2. SubSeq(b, 1, Len(w)) = [m \in 1..Len(w) |-> b[m]]
  BY <1>1
<1>3. w = [m \in 1..Len(w) |-> w[m]]
  OBVIOUS
<1> QED BY <1>2, <1>3

\* What is printed is the text, as far as it is printed.
THEOREM TextAlways == Spec => [](IInv /\ TextInv)
<1>1. Init => TextInv
  <2> SUFFICES ASSUME Init PROVE TextInv
    OBVIOUS
  <2>1. where = "idle" /\ offset = 0 /\ ~noalloc
    BY DEF Init, noalloc, NoCall
  <2>2. FailsOnlyForRoom
    BY <2>1 DEF FailsOnlyForRoom
  <2> QED BY <2>1, <2>2 DEF TextInv
<1>2. ASSUME IInv, TextInv, [Next]_vars PROVE TextInv'
  <2>1. ASSUME NEW i \in Item, NEW f \in BOOLEAN, Begin("print", i, f, DefaultSize)
        PROVE  TextInv'
    BY <1>2, <2>1, PrintAssumption, BeginPrints
  <2>2. ASSUME NEW i \in Item, NEW f \in BOOLEAN, NEW n \in Room,
               Begin("buffered", i, f, n) \/ Begin("preallocated", i, f, n)
        PROVE  TextInv'
    <3>1. n \in Nat /\ n <= IntMax
      BY PrintAssumption
    <3> QED BY <1>2, <2>2, <3>1, BeginPrints
  <2>3. CASE PrintValue
    BY <1>2, <2>3, PrintValuePrints
  <2>4. CASE Shrink
    BY <1>2, <2>4, ShrinkPrints
  <2>5. CASE \/ Return \/ ShrinkFails \/ Fail \/ Release \/ InitHooks \/ UNCHANGED vars
             \/ \E name \in {"print", "buffered"}, i \in Item, f \in BOOLEAN : BeginFails(name, i, f)
    BY <1>2, <2>5, OthersPrint
  <2> QED BY <1>2, <2>1, <2>2, <2>3, <2>4, <2>5 DEF Next
<1> QED BY <1>1, <1>2, IInvAlways, PTL DEF Spec

\* Before the offset is the beginning of the item's text, whenever and however
\* often the buffer is moved, and a text that is returned is all of it.
THEOREM PrintsTheTreeAlways == Spec => []PrintsTheTree
<1>1. ASSUME IInv, TextInv PROVE PrintsTheTree
  <2>1. ASSUME where = "printing" PROVE IsPrefix(SubSeq(buffer, 1, offset), Wanted)
    <3>1. PICK e : Written(e)
      BY <1>1, <2>1 DEF TextInv
    <3>2. /\ buffer \in Seq(Symbol) /\ offset \in Nat /\ StackOK(stack)
          /\ Wanted \in Seq(Letter) /\ Len(Wanted) \in Nat
      BY <1>1, <2>1, WantedIs DEF IInv, Bytes, Running
    <3>3. /\ e \in Nat /\ offset <= e /\ e <= Len(buffer) /\ \A m \in 1..e : buffer[m] = Wanted[m]
          /\ PrintedTo(e, stack, call.format, Wanted) /\ call.format \in BOOLEAN
      BY <1>1, <2>1, <3>1 DEF Written, TextInv
    <3>4. e <= Len(Wanted)
      BY <3>2, <3>3, PrintedInside
    <3> QED BY <3>2, <3>3, <3>4, PrefixIs
  <2>2. ASSUME where = "returned" PROVE SubSeq(buffer, 1, Strlen(buffer, 0)) = Wanted
    <3>1. PICK e : Written(e)
      BY <1>1, <2>2 DEF TextInv
    <3>2. Unread /\ stack = <<>>
      BY <1>1, <2>2 DEF Unread, IInv, Running
    <3>3. e = Len(Wanted)
      BY <3>1, <3>2, PrintedAll DEF Written
    <3>4. Strlen(buffer, 0) = e /\ e \in Nat /\ e <= Len(buffer)
          /\ \A m \in 1..e : buffer[m] = Wanted[m]
      <4>1. /\ e \in Nat /\ e + 1 <= Len(buffer) /\ \A m \in 1..e : buffer[m] = Wanted[m]
            /\ \A n \in 0..e : Strlen(buffer, n) = e - n
        BY <1>1, <3>1, <3>2, UnreadIs
      <4>2. buffer \in Seq(Symbol)
        BY <1>1 DEF IInv, Bytes
      <4>3. 0 \in 0..e /\ e - 0 = e /\ e <= Len(buffer)
        BY <4>1, <4>2
      <4> QED BY <4>1, <4>3
    <3>5. buffer \in Seq(Symbol) /\ Wanted \in Seq(Letter)
      BY <1>1, <2>2, WantedIs DEF IInv, Bytes
    <3> QED BY <3>3, <3>4, <3>5, WholeIs
  <2> QED BY <2>1, <2>2 DEF PrintsTheTree
<1> QED BY <1>1, TextAlways, PTL

\* A buffer that has room for the text and two bytes more is large enough, and
\* one that the library may enlarge always, but for memory and INT_MAX.
THEOREM FailsOnlyForRoomAlways == Spec => []FailsOnlyForRoom
BY TextAlways, PTL DEF TextInv
=============================================================================

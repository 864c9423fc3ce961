---------------------------- MODULE ConfLex_proofs ----------------------------
(***************************************************************************)
(* Theorems about ConfLex, for every alphabet and texts of any length.     *)
(***************************************************************************)
EXTENDS ConfLex, TLAPS, SequenceTheorems, NaturalsInduction, WellFoundedInduction

LEMMA EatingModes == Eating = {"comment", "quoted", "unquoted"}
  BY DEF Eating, Ends

LEMMA Appended ==
  ASSUME NEW s \in Seq(Alphabet), NEW c \in Alphabet
  PROVE  Append(s, c) # <<>> /\ Append(s, c)[Len(Append(s, c))] = c
  <1>1. Len(s) \in Nat /\ Len(Append(s, c)) = Len(s) + 1
    OBVIOUS
  <1>2. Append(s, c)[Len(s) + 1] = c
    BY <1>1
  <1>3. Append(s, c) # <<>>
    BY <1>1
  <1> QED BY <1>1, <1>2, <1>3

(* fgetc() gives a character of the alphabet or the end of the file.       *)
LEMMA ReadType ==
  ASSUME TypeOK, NEW c \in Alphabet \cup {EOF}, Read(c)
  PROVE  /\ text' \in Seq(Alphabet) /\ eof' \in BOOLEAN
         /\ c # EOF => c \in Alphabet /\ text' = Append(text, c)
         /\ c = EOF => text' = text
  <1>0. text \in Seq(Alphabet) /\ eof \in BOOLEAN
    BY DEF TypeOK
  <1>1. CASE c = EOF
    <2>1. eof' = TRUE /\ text' = text
      BY <1>1 DEF Read
    <2> QED BY <1>0, <1>1, <2>1
  <1>2. CASE c # EOF
    <2>1. c \in Alphabet /\ text' = Append(text, c) /\ eof' = eof
      BY <1>2 DEF Read
    <2>2. text' \in Seq(Alphabet)
      BY <1>0, <2>1
    <2> QED BY <1>0, <1>2, <2>1, <2>2
  <1> QED BY <1>1, <1>2

LEMMA FetchType ==
  ASSUME TypeOK, NEW c \in Alphabet \cup {EOF}, Fetch(c)
  PROVE  /\ text' \in Seq(Alphabet) /\ eof' \in BOOLEAN
         /\ mode = "top" /\ saved_char' = NULL /\ buf = <<>>
  <1>1. mode = "top" /\ saved_char' = NULL
    BY DEF Fetch
  <1>2. buf = <<>>
    BY <1>1, EatingModes DEF TypeOK
  <1>3. text' \in Seq(Alphabet) /\ eof' \in BOOLEAN
    <2>1. CASE saved_char = NULL
      BY <2>1, ReadType DEF Fetch
    <2>2. CASE saved_char # NULL
      BY <2>2 DEF Fetch, TypeOK
    <2> QED BY <2>1, <2>2
  <1> QED BY <1>1, <1>2, <1>3

Tokens == [type : {"comment", "newline", "string", "punct"}, string : Seq(Alphabet \cup {EOF})]

LEMMA EmitType ==
  ASSUME TypeOK, NEW type \in {"comment", "newline", "string", "punct"},
         NEW string \in Seq(Alphabet \cup {EOF}), Emit(type, string)
  PROVE  tokens' \in Seq(Tokens) /\ buf' = <<>> /\ mode' = "top"
  <1>1. [type |-> type, string |-> string] \in Tokens
    BY DEF Tokens
  <1>2. tokens \in Seq(Tokens)
    BY DEF TypeOK, Tokens
  <1> QED BY <1>1, <1>2 DEF Emit

LEMMA InitType == Init => TypeOK
  <1> SUFFICES ASSUME Init PROVE TypeOK
    OBVIOUS
  <1>1. text \in Seq(Alphabet) /\ buf \in Seq(Alphabet) /\ tokens \in Seq(Tokens)
    BY DEF Init
  <1>2. mode = "top" /\ saved_char = NULL /\ eof = FALSE /\ buf = <<>>
    BY DEF Init
  <1> QED BY <1>1, <1>2, EatingModes DEF TypeOK, Tokens

LEMMA NextType == TypeOK /\ [Next]_vars => TypeOK'
  <1> SUFFICES ASSUME TypeOK, [Next]_vars PROVE TypeOK'
    OBVIOUS
  <1> USE EatingModes
  <1>1. ASSUME NEW c \in Alphabet, NewLine(c) PROVE TypeOK'
    <2>1. Fetch(c) /\ Emit("newline", <<>>)
      BY <1>1 DEF NewLine
    <2>2. <<>> \in Seq(Alphabet \cup {EOF})
      OBVIOUS
    <2>3. tokens' \in Seq(Tokens) /\ buf' = <<>> /\ mode' = "top"
      BY <2>1, <2>2, EmitType
    <2> QED BY <2>1, <2>3, FetchType DEF TypeOK, Tokens
  <1>2. ASSUME NEW c \in Alphabet, Blank(c) PROVE TypeOK'
    <2>1. Fetch(c) /\ UNCHANGED <<mode, buf, tokens>>
      BY <1>2 DEF Blank
    <2> QED BY <2>1, FetchType DEF TypeOK
  <1>3. ASSUME NEW c \in Alphabet, Punct(c) PROVE TypeOK'
    <2>1. Fetch(c) /\ Emit("punct", <<c>>)
      BY <1>3 DEF Punct
    <2>2. <<c>> \in Seq(Alphabet \cup {EOF})
      OBVIOUS
    <2> QED BY <2>1, <2>2, FetchType, EmitType DEF TypeOK, Tokens
  <1>4. ASSUME NEW c \in Alphabet, Start(c) PROVE TypeOK'
    <2>1. /\ Fetch(c) /\ mode' = Starts(c) /\ buf' = <<c>> /\ UNCHANGED tokens
      BY <1>4 DEF Start
    <2>2. Starts(c) \in Eating
      BY DEF Starts
    <2>3. <<c>> \in Seq(Alphabet) /\ <<c>> # <<>>
      OBVIOUS
    <2> QED BY <2>1, <2>2, <2>3, FetchType DEF TypeOK
  <1>5. ASSUME NEW c \in Alphabet, Eat(c) PROVE TypeOK'
    <2>1. /\ mode \in Eating /\ Read(c) /\ buf' = Append(buf, c)
          /\ UNCHANGED <<mode, saved_char, tokens>>
      BY <1>5 DEF Eat
    <2>2. buf' \in Seq(Alphabet) /\ buf' # <<>>
      BY <2>1, Appended DEF TypeOK
    <2> QED BY <2>1, <2>2, ReadType DEF TypeOK
  <1>6. CASE EndOfText
    <2>1. Fetch(EOF) /\ mode' = "end" /\ UNCHANGED <<buf, tokens>>
      BY <1>6 DEF EndOfText
    <2> QED BY <2>1, FetchType DEF TypeOK
  <1>7. ASSUME NEW c \in Alphabet \cup {EOF}, Finish(c) PROVE TypeOK'
    <2> DEFINE type == IF mode = "comment" THEN "comment" ELSE "string"
    <2>1. Read(c) /\ Emit(type, buf) /\ saved_char' = IF c = EOF THEN NULL ELSE c
      BY <1>7 DEF Finish
    <2>2. type \in {"comment", "newline", "string", "punct"} /\ buf \in Seq(Alphabet \cup {EOF})
      BY DEF TypeOK
    <2>3. tokens' \in Seq(Tokens) /\ buf' = <<>> /\ mode' = "top"
      BY <2>1, <2>2, EmitType
    <2> QED BY <2>1, <2>3, ReadType DEF TypeOK, Tokens
  <1>8. ASSUME NEW c \in Alphabet \cup {EOF}, Quote(c) PROVE TypeOK'
    <2>1. mode = "quoted" /\ Read(c) /\ Emit("string", Append(buf, c)) /\ UNCHANGED saved_char
      BY <1>8 DEF Quote
    <2>2. Append(buf, c) \in Seq(Alphabet \cup {EOF})
      BY DEF TypeOK
    <2>3. tokens' \in Seq(Tokens) /\ buf' = <<>> /\ mode' = "top"
      BY <2>1, <2>2, EmitType
    <2> QED BY <2>1, <2>3, ReadType DEF TypeOK, Tokens
  <1>9. CASE UNCHANGED vars
    BY <1>9 DEF TypeOK, vars
  <1> QED BY <1>1, <1>2, <1>3, <1>4, <1>5, <1>6, <1>7, <1>8, <1>9 DEF Next

(* The scanner keeps its types; in particular a character is put back only *)
(* between two tokens, and the buffer is empty there.                      *)
THEOREM TypeCorrect == Spec => []TypeOK
  BY InitType, NextType, PTL DEF Spec

-----------------------------------------------------------------------------
(* LinesAreIndependent says nothing of the character that was put back: it *)
(* is the last one that was read, so that a token that starts with it does *)
(* not start with the end of a line.                                       *)
LastRead == text[Len(text)]

SavedIsLast == saved_char # NULL => text # <<>> /\ LastRead = saved_char
NotOverLines == text # <<>> /\ LastRead \in LineEnds => mode \notin Eating

LEMMA AllEndAtLineEnds ==
  ASSUME NEW m \in Eating
  PROVE  LineEnds \subseteq Ends[m]
  <1>1. CASE m = "comment"
    BY <1>1 DEF Ends
  <1>2. CASE m = "quoted"
    BY <1>2 DEF Ends
  <1>3. CASE m = "unquoted"
    BY <1>3 DEF Ends
  <1> QED BY <1>1, <1>2, <1>3, EatingModes

LEMMA NextLines ==
  TypeOK /\ SavedIsLast /\ NotOverLines /\ [Next]_vars => SavedIsLast' /\ NotOverLines'
  <1> SUFFICES ASSUME TypeOK, SavedIsLast, NotOverLines, [Next]_vars
               PROVE  SavedIsLast' /\ NotOverLines'
    OBVIOUS
  <1> USE EatingModes
  <1>1. ASSUME NEW c \in Alphabet, NewLine(c) \/ Blank(c) \/ Punct(c) PROVE SavedIsLast' /\ NotOverLines'
    <2>1. saved_char' = NULL /\ mode' = "top"
      BY <1>1 DEF NewLine, Blank, Punct, Fetch, Emit
    <2> QED BY <2>1 DEF SavedIsLast, NotOverLines
  <1>2. ASSUME NEW c \in Alphabet, Start(c) PROVE SavedIsLast' /\ NotOverLines'
    <2>1. saved_char' = NULL /\ c \notin LineEnds /\ Fetch(c)
      BY <1>2 DEF Start, Fetch, Blanks, LineEnds
    <2>2. text' # <<>> /\ LastRead' = c
      <3>1. CASE saved_char = NULL
        <4>1. c # EOF /\ Read(c)
          BY <2>1, <3>1, AlphabetAssumption DEF Fetch
        <4>2. text' = Append(text, c)
          BY <4>1, ReadType
        <4> QED BY <4>2, Appended DEF LastRead, TypeOK
      <3>2. CASE saved_char # NULL
        BY <2>1, <3>2 DEF Fetch, SavedIsLast, LastRead
      <3> QED BY <3>1, <3>2
    <2> QED BY <2>1, <2>2 DEF SavedIsLast, NotOverLines
  <1>3. ASSUME NEW c \in Alphabet, Eat(c) PROVE SavedIsLast' /\ NotOverLines'
    <2>1. mode \in Eating /\ c \notin Ends[mode] /\ c # EOF /\ Read(c) /\ saved_char' = saved_char
      BY <1>3 DEF Eat
    <2>2. c \notin LineEnds
      BY <2>1, AllEndAtLineEnds
    <2>3. text' = Append(text, c)
      BY <2>1, ReadType
    <2>4. text' # <<>> /\ LastRead' = c
      BY <2>3, Appended DEF LastRead, TypeOK
    <2>5. saved_char = NULL
      BY <2>1 DEF TypeOK
    <2> QED BY <2>1, <2>2, <2>4, <2>5 DEF SavedIsLast, NotOverLines
  <1>4. CASE EndOfText
    <2>1. saved_char' = NULL /\ mode' = "end"
      BY <1>4 DEF EndOfText, Fetch
    <2> QED BY <2>1 DEF SavedIsLast, NotOverLines
  <1>5. ASSUME NEW c \in Alphabet \cup {EOF}, Finish(c) PROVE SavedIsLast' /\ NotOverLines'
    <2>1. mode' = "top" /\ Read(c) /\ saved_char' = IF c = EOF THEN NULL ELSE c
      BY <1>5 DEF Finish, Emit
    <2>2. CASE c = EOF
      BY <2>1, <2>2 DEF SavedIsLast, NotOverLines
    <2>3. CASE c # EOF
      <3>1. text' = Append(text, c) /\ c \in Alphabet
        BY <2>1, <2>3, ReadType
      <3>2. text' # <<>> /\ LastRead' = c
        BY <3>1, Appended DEF LastRead, TypeOK
      <3> QED BY <2>1, <2>3, <3>2 DEF SavedIsLast, NotOverLines
    <2> QED BY <2>2, <2>3
  <1>6. ASSUME NEW c \in Alphabet \cup {EOF}, Quote(c) PROVE SavedIsLast' /\ NotOverLines'
    <2>1. mode' = "top" /\ mode = "quoted" /\ saved_char' = saved_char
      BY <1>6 DEF Quote, Emit
    <2>2. saved_char = NULL
      BY <2>1 DEF TypeOK
    <2> QED BY <2>1, <2>2 DEF SavedIsLast, NotOverLines
  <1>7. CASE UNCHANGED vars
    BY <1>7 DEF SavedIsLast, NotOverLines, LastRead, vars
  <1> QED BY <1>1, <1>2, <1>3, <1>4, <1>5, <1>6, <1>7 DEF Next

(* No token goes over the end of a line, whatever the text: every kind of  *)
(* token ends there at the latest.                                         *)
THEOREM LinesIndependent == Spec => []LinesAreIndependent
  <1>1. Init => SavedIsLast /\ NotOverLines
    BY DEF Init, SavedIsLast, NotOverLines
  <1>2. TypeOK /\ NotOverLines => LinesAreIndependent
    BY EatingModes DEF TypeOK, NotOverLines, LinesAreIndependent, LastRead
  <1> QED BY <1>1, <1>2, InitType, NextType, NextLines, PTL DEF Spec

-----------------------------------------------------------------------------
LEMMA Least ==
  ASSUME NEW S \in SUBSET Nat, S # {}
  PROVE  \E x \in S : \A y \in S : x <= y
  <1> DEFINE Less == {p \in Nat \X Nat : p[1] < p[2]}
  <1>1. IsWellFoundedOn(Less, Nat)
    BY NatLessThanWellFounded DEF OpToRel
  <1> HIDE DEF Less
  <1>2. PICK x \in S : \A y \in S : ~(<<y, x>> \in Less)
    BY <1>1, WFMin
  <1>3. ASSUME NEW y \in S PROVE x <= y
    <2>1. x \in Nat /\ y \in Nat /\ ~(<<y, x>> \in Less)
      BY <1>2, <1>3
    <2> QED BY <2>1 DEF Less
  <1> QED BY <1>2, <1>3

(* Induction from the end of a range to its start, about a set instead of  *)
(* a predicate, so that the lemma can be used as it stands.                *)
LEMMA Downward ==
  ASSUME NEW m \in Nat, NEW S,
         \A n \in 1 .. m : (\A k \in n + 1 .. m : k \in S) => n \in S
  PROVE  \A n \in 1 .. m : n \in S
  <1> DEFINE Far == {j \in 0 .. m - 1 : m - j \notin S}
  <1> SUFFICES ASSUME Far # {} PROVE FALSE
    <2> SUFFICES ASSUME NEW n \in 1 .. m, Far = {} PROVE n \in S
      OBVIOUS
    <2>1. m - n \in 0 .. m - 1 /\ m - (m - n) = n
      OBVIOUS
    <2> QED BY <2>1
  <1>1. Far \in SUBSET Nat
    OBVIOUS
  <1> HIDE DEF Far
  <1>2. PICK j \in Far : \A i \in Far : j <= i
    BY <1>1, Least
  <1>3. j \in 0 .. m - 1 /\ m - j \notin S
    BY DEF Far
  <1>4. ASSUME NEW k \in m - j + 1 .. m PROVE k \in S
    <2>1. m - k \in 0 .. m - 1 /\ m - k < j /\ m - (m - k) = k
      BY <1>3
    <2>2. m - k \notin Far
      BY <1>1, <1>2, <1>3, <2>1
    <2> QED BY <2>1, <2>2 DEF Far
  <1>5. m - j \in 1 .. m
    BY <1>3
  <1> QED BY <1>3, <1>4, <1>5

Texts == {t \in Seq(Alphabet) : Len(t) <= MaxText}

(* Where a long token ends.                                                *)
LEMMA LastOfBounds ==
  ASSUME NEW t \in Texts, NEW n \in 1 .. Len(t)
  PROVE  /\ Stops(t, n) # {} =>
              /\ Min(Stops(t, n)) \in Stops(t, n)
              /\ \A m \in Stops(t, n) : Min(Stops(t, n)) <= m
         /\ LastOf(t, n) \in n .. Len(t)
  <1>1. Len(t) \in Nat /\ Stops(t, n) \subseteq n + 1 .. Len(t) /\ Stops(t, n) \subseteq Nat
    BY DEF Stops, Texts
  <1>2. ASSUME Stops(t, n) # {}
        PROVE  Min(Stops(t, n)) \in Stops(t, n) /\ \A m \in Stops(t, n) : Min(Stops(t, n)) <= m
    <2>3. \E x \in Stops(t, n) : \A y \in Stops(t, n) : x <= y
      BY <1>1, <1>2, Least
    <2> QED BY <2>3 DEF Min
  <1>3. LastOf(t, n) \in n .. Len(t)
    <2>1. CASE Stops(t, n) = {}
      BY <1>1, <2>1 DEF LastOf
    <2>2. CASE Stops(t, n) # {}
      BY <1>1, <1>2, <2>2 DEF LastOf
    <2> QED BY <2>1, <2>2
  <1> QED BY <1>2, <1>3

-----------------------------------------------------------------------------
(* TokensOf() is a recursive definition: the function it asks for exists,  *)
(* as the tokens from a place on depend on those from later places only.   *)
Body(t, from, n) ==
  IF n > Len(t) THEN <<>>
  ELSE IF t[n] \in Blanks THEN from[n + 1]
  ELSE IF t[n] = "\n" THEN <<[type |-> "newline", string |-> <<>>]>> \o from[n + 1]
  ELSE IF t[n] \in Punctuation
       THEN <<[type |-> "punct", string |-> <<t[n]>>]>> \o from[n + 1]
  ELSE <<LongToken(t, n)>> \o from[LastOf(t, n) + 1]

LEMMA BodyLooksAhead ==
  ASSUME NEW t \in Texts, NEW n \in 1 .. Len(t) + 1, NEW f, NEW g,
         \A k \in n + 1 .. Len(t) + 1 : f[k] = g[k]
  PROVE  Body(t, f, n) = Body(t, g, n)
  <1>1. CASE n > Len(t)
    BY <1>1 DEF Body
  <1>2. CASE ~(n > Len(t))
    <2>1. /\ n + 1 \in n + 1 .. Len(t) + 1 /\ n \in 1 .. Len(t)
          /\ Len(t) \in Nat /\ Len(t) <= MaxText
      BY <1>2, MaxTextAssumption DEF Texts
    <2>2. LastOf(t, n) + 1 \in n + 1 .. Len(t) + 1
      BY <2>1, LastOfBounds, MaxTextAssumption
    <2>3. f[n + 1] = g[n + 1] /\ f[LastOf(t, n) + 1] = g[LastOf(t, n) + 1]
      BY <2>1, <2>2
    <2> QED BY <2>3 DEF Body
  <1> QED BY <1>1, <1>2

LEMMA TokensOfExists ==
  ASSUME NEW t \in Texts
  PROVE  \E g : g = [n \in 1 .. Len(t) + 1 |-> Body(t, g, n)]
  <1> DEFINE Partly(k) == \E g : g = [n \in k .. Len(t) + 1 |-> Body(t, g, n)]
             S == {k \in 1 .. Len(t) + 1 : Partly(k)}
  <1>1. Len(t) + 1 \in Nat
    BY DEF Texts
  <1>2. ASSUME NEW n \in 1 .. Len(t) + 1, \A k \in n + 1 .. Len(t) + 1 : k \in S
        PROVE  n \in S
    <2>1. PICK f : f = [k \in n + 1 .. Len(t) + 1 |-> Body(t, f, k)]
      <3>1. CASE n = Len(t) + 1
        <4> DEFINE f == [k \in n + 1 .. Len(t) + 1 |-> <<>>]
        <4>1. n + 1 .. Len(t) + 1 = {}
          BY <1>1, <3>1
        <4>2. f = [k \in n + 1 .. Len(t) + 1 |-> Body(t, f, k)]
          BY <4>1
        <4> QED BY <4>2
      <3>2. CASE n # Len(t) + 1
        <4>1. n + 1 \in S
          BY <1>1, <1>2, <3>2
        <4> QED BY <4>1
      <3> QED BY <3>1, <3>2
    <2> DEFINE g == [k \in n .. Len(t) + 1 |-> IF k = n THEN Body(t, f, n) ELSE f[k]]
    <2>2. \A k \in n + 1 .. Len(t) + 1 : g[k] = f[k] /\ f[k] = Body(t, f, k)
      BY <1>1, <2>1
    <2>3. g[n] = Body(t, f, n)
      BY <1>1
    <2>4. ASSUME NEW k \in n .. Len(t) + 1 PROVE g[k] = Body(t, g, k)
      <3> HIDE DEF g
      <3>1. k \in 1 .. Len(t) + 1 /\ k + 1 .. Len(t) + 1 \subseteq n + 1 .. Len(t) + 1
        BY <1>1
      <3>2. Body(t, f, k) = Body(t, g, k)
        BY <2>2, <3>1, BodyLooksAhead
      <3>3. k = n \/ k \in n + 1 .. Len(t) + 1
        BY <1>1
      <3> QED BY <2>2, <2>3, <3>2, <3>3
    <2>5. g = [k \in n .. Len(t) + 1 |-> Body(t, g, k)]
      <3>1. g = [k \in n .. Len(t) + 1 |-> g[k]]
        OBVIOUS
      <3> HIDE DEF g
      <3> QED BY <2>4, <3>1
    <2> QED BY <2>5
  <1>3. 1 \in S
    <2> HIDE DEF S
    <2>1. \A n \in 1 .. Len(t) + 1 : n \in S
      BY <1>1, <1>2, Downward
    <2> QED BY <1>1, <2>1, MaxTextAssumption
  <1> QED BY <1>3

LEMMA TokensOfUnfolds ==
  ASSUME NEW t \in Texts, NEW n \in 1 .. Len(t) + 1
  PROVE  TokensOf(t)[n] = Body(t, TokensOf(t), n)
  <1>1. TokensOf(t) = CHOOSE g : g = [k \in 1 .. Len(t) + 1 |-> Body(t, g, k)]
    BY DEF TokensOf, Body
  <1>2. TokensOf(t) = [k \in 1 .. Len(t) + 1 |-> Body(t, TokensOf(t), k)]
    BY <1>1, TokensOfExists
  <1> QED BY <1>2

LEMMA LongTokenType ==
  ASSUME NEW t \in Texts, NEW n \in 1 .. Len(t)
  PROVE  LongToken(t, n) \in Tokens
  <1>1. Len(t) \in Nat /\ t \in Seq(Alphabet) /\ LastOf(t, n) \in n .. Len(t)
    BY LastOfBounds DEF Texts
  <1>2. SubSeq(t, n, LastOf(t, n)) \in Seq(Alphabet)
    BY <1>1
  <1>3. SubSeq(t, n, LastOf(t, n)) \in Seq(Alphabet \cup {EOF})
    BY <1>2, SeqMonotonic
  <1>4. <<EOF>> \in Seq(Alphabet \cup {EOF}) /\ <<>> \in Seq(Alphabet \cup {EOF})
    OBVIOUS
  <1> DEFINE tail == IF t[n] = "\"" /\ Stops(t, n) = {} THEN <<EOF>> ELSE <<>>
  <1>5. tail \in Seq(Alphabet \cup {EOF})
    BY <1>4
  <1>6. SubSeq(t, n, LastOf(t, n)) \o tail \in Seq(Alphabet \cup {EOF})
    <2> HIDE DEF tail
    <2> QED BY <1>3, <1>5, ConcatProperties
  <1>7. (IF t[n] = "#" THEN "comment" ELSE "string") \in {"comment", "newline", "string", "punct"}
    OBVIOUS
  <1> QED BY <1>6, <1>7 DEF LongToken, Tokens

LEMMA TokensOfType ==
  ASSUME NEW t \in Texts, NEW n \in 1 .. Len(t) + 1
  PROVE  TokensOf(t)[n] \in Seq(Tokens)
  <1> DEFINE S == {k \in 1 .. Len(t) + 1 : TokensOf(t)[k] \in Seq(Tokens)}
  <1>1. Len(t) + 1 \in Nat
    BY DEF Texts
  <1>2. ASSUME NEW k \in 1 .. Len(t) + 1, \A j \in k + 1 .. Len(t) + 1 : j \in S
        PROVE  k \in S
    <2>1. CASE k > Len(t)
      <3>1. TokensOf(t)[k] = <<>>
        BY <2>1, TokensOfUnfolds DEF Body
      <3>2. <<>> \in Seq(Tokens)
        OBVIOUS
      <3> QED BY <3>1, <3>2
    <2>2. CASE ~(k > Len(t))
      <3>1. /\ k + 1 \in k + 1 .. Len(t) + 1 /\ k \in 1 .. Len(t)
            /\ Len(t) \in Nat /\ Len(t) <= MaxText /\ t \in Seq(Alphabet)
        BY <2>2, MaxTextAssumption DEF Texts
      <3>2. LastOf(t, k) + 1 \in k + 1 .. Len(t) + 1
        BY <3>1, LastOfBounds, MaxTextAssumption
      <3>3. TokensOf(t)[k + 1] \in Seq(Tokens) /\ TokensOf(t)[LastOf(t, k) + 1] \in Seq(Tokens)
        BY <1>2, <3>1, <3>2
      <3> DEFINE newline == [type |-> "newline", string |-> <<>>]
                 punct == [type |-> "punct", string |-> <<t[k]>>]
      <3>4. newline \in Tokens
        <4>1. <<>> \in Seq(Alphabet \cup {EOF})
          OBVIOUS
        <4> QED BY <4>1 DEF Tokens
      <3>5. punct \in Tokens
        <4>1. <<t[k]>> \in Seq(Alphabet \cup {EOF})
          BY <3>1
        <4> QED BY <4>1 DEF Tokens
      <3>6. LongToken(t, k) \in Tokens
        BY <3>1, LongTokenType
      <3>7. \A x \in Tokens, q \in Seq(Tokens) : <<x>> \o q \in Seq(Tokens)
        OBVIOUS
      <3>8. TokensOf(t)[k] = Body(t, TokensOf(t), k)
        BY TokensOfUnfolds
      <3> HIDE DEF newline, punct
      <3>9. Body(t, TokensOf(t), k) \in
               {TokensOf(t)[k + 1], <<newline>> \o TokensOf(t)[k + 1], <<punct>> \o TokensOf(t)[k + 1],
                <<LongToken(t, k)>> \o TokensOf(t)[LastOf(t, k) + 1]}
        BY <2>2 DEF Body, newline, punct
      <3>10. /\ <<newline>> \o TokensOf(t)[k + 1] \in Seq(Tokens)
             /\ <<punct>> \o TokensOf(t)[k + 1] \in Seq(Tokens)
             /\ <<LongToken(t, k)>> \o TokensOf(t)[LastOf(t, k) + 1] \in Seq(Tokens)
        BY <3>3, <3>4, <3>5, <3>6, <3>7
      <3>11. TokensOf(t)[k] \in Seq(Tokens)
        BY <3>3, <3>8, <3>9, <3>10, Zenon
      <3> QED BY <3>11
    <2> QED BY <2>1, <2>2
  <1>3. \A k \in 1 .. Len(t) + 1 : k \in S
    <2> HIDE DEF S
    <2> QED BY <1>1, <1>2, Downward
  <1> QED BY <1>3

-----------------------------------------------------------------------------
(* The place of the first character that is in no token yet.               *)
At ==
  IF mode \in Eating THEN Len(text) - Len(buf) + 1
  ELSE IF saved_char # NULL THEN Len(text) ELSE Len(text) + 1

(* The texts that this one can become.                                     *)
Extends(u) ==
  /\ u \in Texts
  /\ Len(text) <= Len(u)
  /\ \A i \in 1 .. Len(text) : u[i] = text[i]
  /\ eof => u = text

(* The end of the file comes last, and nothing is put back then.           *)
EndIsLast ==
  /\ eof => saved_char = NULL /\ mode \notin Eating
  /\ mode = "end" => eof

(* The buffer is the token that has begun, and nothing in it ends it.      *)
Begun ==
  mode \in Eating =>
    /\ At \in 1 .. Len(text)
    /\ buf = SubSeq(text, At, Len(text))
    /\ text[At] \notin Blanks \cup Punctuation \cup {"\n"}
    /\ mode = Starts(text[At])
    /\ \A m \in At + 1 .. Len(text) : text[m] \notin Ends[mode]

(* However the text goes on, its tokens are those that have been handed    *)
(* over and the tokens of what is left.                                    *)
CutSoFar ==
  \A u : Extends(u) => TokensOf(u)[1] = tokens \o TokensOf(u)[At]

LexInv ==
  /\ TypeOK
  /\ text \in Texts
  /\ SavedIsLast /\ NotOverLines
  /\ EndIsLast
  /\ Begun
  /\ CutSoFar

(* A character that is fetched is the first that is in no token yet.       *)
LEMMA FetchAt ==
  ASSUME LexInv, NEW c \in Alphabet, Fetch(c)
  PROVE  /\ text' \in Texts
         /\ At = Len(text') /\ At \in Nat \ {0} /\ text'[At] = c
         /\ ~eof /\ eof' = FALSE
         /\ mode = "top" /\ saved_char' = NULL /\ buf = <<>>
         /\ \A u : Extends(u)' => Extends(u)
  <1>1. c # EOF /\ mode = "top" /\ mode \notin Eating /\ saved_char' = NULL /\ buf = <<>>
    BY AlphabetAssumption, EatingModes DEF Fetch, LexInv, TypeOK
  <1>2. text \in Seq(Alphabet) /\ Len(text) \in Nat /\ Len(text) <= MaxText /\ eof \in BOOLEAN
    BY DEF LexInv, TypeOK, Texts
  <1>3. CASE saved_char = NULL
    <2>1. ~eof /\ Len(text) < MaxText /\ text' = Append(text, c) /\ eof' = eof
      BY <1>1, <1>3 DEF Fetch, Read
    <2>2. /\ Len(text') = Len(text) + 1 /\ text'[Len(text) + 1] = c /\ text' \in Seq(Alphabet)
          /\ \A i \in 1 .. Len(text) : text'[i] = text[i]
      BY <1>2, <2>1
    <2>3. At = Len(text) + 1
      BY <1>1, <1>3 DEF At
    <2>4. text' \in Texts
      BY <1>2, <2>1, <2>2, MaxTextAssumption DEF Texts
    <2>5. ASSUME NEW u, Extends(u)' PROVE Extends(u)
      <3>1. u \in Texts /\ Len(text') <= Len(u) /\ \A i \in 1 .. Len(text') : u[i] = text'[i]
        BY <2>5 DEF Extends, Texts
      <3>2. Len(u) \in Nat
        BY <3>1 DEF Texts
      <3> QED BY <1>2, <2>1, <2>2, <3>1, <3>2 DEF Extends
    <2> QED BY <1>1, <1>2, <2>1, <2>2, <2>3, <2>4, <2>5
  <1>4. CASE saved_char # NULL
    <2>1. c = saved_char /\ text' = text /\ eof' = eof
      BY <1>4 DEF Fetch
    <2>2. ~eof /\ text # <<>> /\ text[Len(text)] = c /\ text \in Texts
      BY <1>4, <2>1 DEF LexInv, EndIsLast, SavedIsLast, LastRead
    <2>3. At = Len(text) /\ Len(text) # 0
      BY <1>1, <1>2, <1>4, <2>2 DEF At
    <2>4. \A u : Extends(u)' => Extends(u)
      BY <2>1 DEF Extends, Texts
    <2> QED BY <1>1, <1>2, <2>1, <2>2, <2>3, <2>4
  <1> QED BY <1>3, <1>4

(* So is one that buf_eat_till() reads, while a token is being read.       *)
LEMMA ReadAt ==
  ASSUME LexInv, NEW c \in Alphabet, mode \in Eating, Read(c)
  PROVE  /\ text' \in Texts /\ ~eof /\ eof' = FALSE /\ saved_char = NULL
         /\ text' = Append(text, c) /\ text \in Seq(Alphabet)
         /\ Len(text') = Len(text) + 1 /\ Len(text) \in Nat
         /\ text'[Len(text')] = c /\ \A i \in 1 .. Len(text) : text'[i] = text[i]
         /\ \A u : Extends(u)' => Extends(u)
  <1>1. text \in Seq(Alphabet) /\ Len(text) \in Nat /\ Len(text) <= MaxText
    BY DEF LexInv, Texts
  <1>2. ~eof /\ Len(text) < MaxText /\ text' = Append(text, c) /\ eof' = eof
    BY AlphabetAssumption DEF Read
  <1>3. /\ Len(text') = Len(text) + 1 /\ text'[Len(text) + 1] = c /\ text' \in Seq(Alphabet)
        /\ \A i \in 1 .. Len(text) : text'[i] = text[i]
    BY <1>1, <1>2
  <1>4. text' \in Texts
    BY <1>1, <1>2, <1>3, MaxTextAssumption DEF Texts
  <1>5. saved_char = NULL /\ eof \in BOOLEAN
    BY EatingModes DEF LexInv, TypeOK
  <1>6. ASSUME NEW u, Extends(u)' PROVE Extends(u)
    <2>1. u \in Texts /\ Len(text') <= Len(u) /\ \A i \in 1 .. Len(text') : u[i] = text'[i]
      BY <1>6 DEF Extends, Texts
    <2>2. Len(u) \in Nat
      BY <2>1 DEF Texts
    <2> QED BY <1>1, <1>2, <1>3, <2>1, <2>2 DEF Extends
  <1> QED BY <1>1, <1>2, <1>3, <1>4, <1>5, <1>6

LEMMA Regroup ==
  ASSUME NEW p \in Seq(Tokens), NEW x \in Tokens, NEW q \in Seq(Tokens)
  PROVE  p \o (<<x>> \o q) = Append(p, x) \o q
  OBVIOUS

(* A token of one character: what is left begins behind it.                *)
LEMMA CutShort ==
  ASSUME LexInv, NEW c \in Alphabet, Fetch(c), mode' = "top",
         \/ c \in Blanks /\ tokens' = tokens
         \/ c = "\n" /\ tokens' = Append(tokens, [type |-> "newline", string |-> <<>>])
         \/ c \in Punctuation /\ tokens' = Append(tokens, [type |-> "punct", string |-> <<c>>])
  PROVE  CutSoFar'
  <1> SUFFICES ASSUME NEW u, Extends(u)' PROVE TokensOf(u)[1] = tokens' \o TokensOf(u)[At']
    BY DEF CutSoFar, TokensOf, Body
  <1>1. /\ text' \in Texts /\ At = Len(text') /\ At \in Nat \ {0} /\ text'[At] = c
        /\ saved_char' = NULL /\ Extends(u)
    BY FetchAt
  <1>2. At' = At + 1
    BY <1>1, EatingModes DEF At
  <1>3. /\ u \in Texts /\ Len(u) \in Nat /\ At <= Len(u) /\ u[At] = c /\ Len(u) <= MaxText
    BY <1>1 DEF Extends, Texts
  <1>4. TokensOf(u)[1] = tokens \o TokensOf(u)[At]
    BY <1>1 DEF LexInv, CutSoFar
  <1>5. At \in 1 .. Len(u) + 1 /\ At + 1 \in 1 .. Len(u) + 1
    BY <1>1, <1>3, MaxTextAssumption
  <1>6. TokensOf(u)[At] = Body(u, TokensOf(u), At)
    BY <1>3, <1>5, TokensOfUnfolds
  <1>7. TokensOf(u)[At + 1] \in Seq(Tokens) /\ tokens \in Seq(Tokens)
    BY <1>3, <1>5, TokensOfType DEF LexInv, TypeOK, Tokens
  <1>8. CASE c \in Blanks /\ tokens' = tokens
    BY <1>1, <1>2, <1>3, <1>4, <1>6, <1>8 DEF Body
  <1>9. CASE c = "\n" /\ tokens' = Append(tokens, [type |-> "newline", string |-> <<>>])
    <2> DEFINE x == [type |-> "newline", string |-> <<>>]
    <2>1. x \in Tokens
      <3>1. <<>> \in Seq(Alphabet \cup {EOF})
        OBVIOUS
      <3> QED BY <3>1 DEF Tokens
    <2>2. TokensOf(u)[At] = <<x>> \o TokensOf(u)[At + 1]
      BY <1>1, <1>3, <1>6, <1>9 DEF Body, Blanks
    <2>3. tokens' = Append(tokens, x)
      BY <1>9
    <2> HIDE DEF x
    <2> QED BY <1>2, <1>4, <1>7, <2>1, <2>2, <2>3, Regroup
  <1>10. CASE c \in Punctuation /\ tokens' = Append(tokens, [type |-> "punct", string |-> <<c>>])
    <2> DEFINE x == [type |-> "punct", string |-> <<c>>]
    <2>1. x \in Tokens
      <3>1. <<c>> \in Seq(Alphabet \cup {EOF})
        OBVIOUS
      <3> QED BY <3>1 DEF Tokens
    <2>2. TokensOf(u)[At] = <<x>> \o TokensOf(u)[At + 1]
      <3>1. c \notin Blanks /\ c # "\n"
        BY <1>10 DEF Blanks, Punctuation
      <3> QED BY <1>1, <1>3, <1>6, <1>10, <3>1 DEF Body
    <2>3. tokens' = Append(tokens, x)
      BY <1>10
    <2> HIDE DEF x
    <2> QED BY <1>2, <1>4, <1>7, <2>1, <2>2, <2>3, Regroup
  <1> QED BY <1>8, <1>9, <1>10

(* A long token ends where buf_eat_till() stops.                           *)
LEMMA EndOfToken ==
  ASSUME LexInv, mode \in Eating, NEW c \in Alphabet, c \in Ends[mode], Read(c),
         NEW u, Extends(u)'
  PROVE  /\ At \in 1 .. Len(text) /\ u[At] = text[At]
         /\ Stops(u, At) # {} /\ Min(Stops(u, At)) = Len(text) + 1
         /\ SubSeq(u, At, Len(text)) = buf
         /\ SubSeq(u, At, Len(text) + 1) = Append(buf, c)
  <1>1. /\ text' \in Texts /\ Len(text') = Len(text) + 1 /\ Len(text) \in Nat
        /\ text'[Len(text')] = c /\ \A i \in 1 .. Len(text) : text'[i] = text[i]
        /\ text \in Seq(Alphabet)
    BY ReadAt
  <1>2. /\ u \in Seq(Alphabet) /\ Len(u) \in Nat /\ Len(text) + 1 <= Len(u)
        /\ u[Len(text) + 1] = c /\ \A i \in 1 .. Len(text) : u[i] = text[i]
        /\ u \in Texts
    BY <1>1 DEF Extends, Texts
  <1>3. /\ At \in 1 .. Len(text) /\ buf = SubSeq(text, At, Len(text))
        /\ mode = Starts(text[At]) /\ \A m \in At + 1 .. Len(text) : text[m] \notin Ends[mode]
    BY DEF LexInv, Begun
  <1>4. u[At] = text[At]
    BY <1>2, <1>3
  <1>5. Len(text) + 1 \in Stops(u, At)
    BY <1>1, <1>2, <1>3, <1>4 DEF Stops
  <1>6. \A m \in Stops(u, At) : m >= Len(text) + 1
    BY <1>1, <1>2, <1>3, <1>4 DEF Stops
  <1>7. Min(Stops(u, At)) = Len(text) + 1
    <2>1. At \in 1 .. Len(u)
      BY <1>1, <1>2, <1>3
    <2>2. /\ Min(Stops(u, At)) \in Stops(u, At)
          /\ \A m \in Stops(u, At) : Min(Stops(u, At)) <= m
      BY <1>2, <1>5, <2>1, LastOfBounds
    <2>3. Stops(u, At) \subseteq Nat
      BY <1>2, <1>3 DEF Stops
    <2> QED BY <1>1, <1>5, <1>6, <2>2, <2>3
  <1>8. SubSeq(u, At, Len(text)) = buf
    BY <1>1, <1>2, <1>3
  <1>9. SubSeq(u, At, Len(text) + 1) = Append(buf, c)
    <2>1. SubSeq(u, At, Len(text) + 1) = Append(SubSeq(u, At, Len(text)), u[Len(text) + 1])
      BY <1>1, <1>2, <1>3
    <2> QED BY <1>2, <1>8, <2>1
  <1> QED BY <1>3, <1>4, <1>5, <1>7, <1>8, <1>9

(* At the end of the file there is nothing that could stop it.             *)
LEMMA EndOfLastToken ==
  ASSUME LexInv, mode \in Eating, Read(EOF), NEW u, Extends(u)'
  PROVE  /\ u = text /\ text' = text /\ Extends(u)
         /\ At \in 1 .. Len(text) /\ Stops(u, At) = {}
         /\ SubSeq(u, At, Len(text)) = buf
  <1>1. eof' = TRUE /\ text' = text
    BY DEF Read
  <1>2. u = text
    BY <1>1 DEF Extends
  <1>3. text \in Texts /\ Len(text) \in Nat
    BY DEF LexInv, Texts
  <1>4. /\ At \in 1 .. Len(text) /\ buf = SubSeq(text, At, Len(text))
        /\ mode = Starts(text[At]) /\ \A m \in At + 1 .. Len(text) : text[m] \notin Ends[mode]
    BY DEF LexInv, Begun
  <1>5. Stops(u, At) = {}
    BY <1>2, <1>4 DEF Stops
  <1>6. Extends(u)
    BY <1>2, <1>3 DEF Extends
  <1> QED BY <1>1, <1>2, <1>4, <1>5, <1>6

(* What the kinds of tokens are called.                                    *)
LEMMA StartsAre ==
  ASSUME NEW c
  PROVE  /\ Starts(c) = "comment" <=> c = "#"
         /\ Starts(c) = "quoted" <=> c = "\""
  BY DEF Starts

LEMMA CutLong ==
  ASSUME LexInv, mode \in Eating, NEW c \in Alphabet \cup {EOF}, c \in Ends[mode] \cup {EOF},
         Finish(c) \/ Quote(c)
  PROVE  CutSoFar'
  <1> SUFFICES ASSUME NEW u, Extends(u)' PROVE TokensOf(u)[1] = tokens' \o TokensOf(u)[At']
    BY DEF CutSoFar, TokensOf, Body
  <1> DEFINE type == IF mode = "comment" THEN "comment" ELSE "string"
             string == IF mode = "quoted" THEN Append(buf, c) ELSE buf
             x == [type |-> type, string |-> string]
  <1>1. /\ Read(c) /\ mode' = "top" /\ tokens' = Append(tokens, x)
        /\ saved_char' = IF c = EOF \/ mode = "quoted" THEN NULL ELSE c
    <2>1. CASE Finish(c)
      BY <2>1 DEF Finish, Emit
    <2>2. CASE Quote(c)
      BY <2>2, EatingModes DEF Quote, Emit, LexInv, TypeOK
    <2> QED BY <2>1, <2>2
  <1>2. /\ text \in Texts /\ text \in Seq(Alphabet) /\ Len(text) \in Nat
        /\ mode = Starts(text[At]) /\ At \in 1 .. Len(text)
        /\ text[At] \notin Blanks \cup Punctuation \cup {"\n"}
    BY DEF LexInv, Begun, Texts
  <1>3. /\ Extends(u) /\ u \in Texts /\ Len(u) \in Nat /\ u[At] = text[At] /\ At \in 1 .. Len(u)
        /\ LongToken(u, At) = x
        /\ LastOf(u, At) + 1 = At'
    <2>1. CASE c = EOF
      <3>1. /\ u = text /\ text' = text /\ Extends(u) /\ Stops(u, At) = {}
            /\ SubSeq(u, At, Len(text)) = buf
        BY <1>1, <2>1, EndOfLastToken
      <3>2. LastOf(u, At) = Len(text)
        BY <3>1 DEF LastOf
      <3>3. At' = Len(text) + 1
        BY <1>1, <2>1, <3>1, EatingModes DEF At
      <3>4. LongToken(u, At) = x
        <4>1. mode = "quoted" <=> u[At] = "\""
          BY <1>2, <3>1, StartsAre
        <4>2. mode = "comment" <=> u[At] = "#"
          BY <1>2, <3>1, StartsAre
        <4>3. buf \in Seq(Alphabet)
          BY DEF LexInv, TypeOK
        <4>4. buf \o <<EOF>> = Append(buf, EOF) /\ buf \o <<>> = buf
          BY <4>3
        <4> QED BY <2>1, <3>1, <3>2, <4>1, <4>2, <4>4 DEF LongToken
      <3> QED BY <1>2, <3>1, <3>2, <3>3, <3>4
    <2>2. CASE c # EOF
      <3>1. c \in Alphabet /\ c \in Ends[mode]
        BY <2>2
      <3>2. /\ u[At] = text[At] /\ Stops(u, At) # {} /\ Min(Stops(u, At)) = Len(text) + 1
            /\ SubSeq(u, At, Len(text)) = buf
            /\ SubSeq(u, At, Len(text) + 1) = Append(buf, c)
        BY <1>1, <3>1, EndOfToken
      <3>3. /\ Len(text') = Len(text) + 1 /\ Extends(u)
        BY <1>1, <3>1, ReadAt
      <3>4. u \in Texts /\ Len(u) \in Nat /\ Len(text) <= Len(u)
        BY <3>3 DEF Extends, Texts
      <3>5. LastOf(u, At) = IF mode = "quoted" THEN Len(text) + 1 ELSE Len(text)
        BY <1>2, <3>2 DEF LastOf
      <3>6. At' = IF mode = "quoted" THEN Len(text) + 2 ELSE Len(text) + 1
        <4>1. "top" \notin Eating
          BY EatingModes
        <4>2. c # NULL
          BY <3>1, AlphabetAssumption
        <4> QED BY <1>1, <1>2, <2>2, <3>3, <4>1, <4>2 DEF At
      <3>7. LongToken(u, At) = x
        <4>1. mode = "quoted" <=> u[At] = "\""
          BY <1>2, <3>2, StartsAre
        <4>2. mode = "comment" <=> u[At] = "#"
          BY <1>2, <3>2, StartsAre
        <4>3. string \in Seq(Alphabet)
          BY <3>1 DEF LexInv, TypeOK
        <4>4. string = SubSeq(u, At, LastOf(u, At))
          BY <3>2, <3>5
        <4> HIDE DEF string
        <4>5. string \o <<>> = string
          BY <4>3
        <4> QED BY <3>2, <4>1, <4>2, <4>4, <4>5 DEF LongToken
      <3> QED BY <1>2, <3>2, <3>3, <3>4, <3>5, <3>6, <3>7
    <2> QED BY <2>1, <2>2
  <1> HIDE DEF x
  <1>4. /\ At \in 1 .. Len(u) + 1 /\ At' \in 1 .. Len(u) + 1
        /\ Len(u) <= MaxText
    <2>1. LastOf(u, At) \in At .. Len(u) /\ Len(u) <= MaxText
      BY <1>3, LastOfBounds DEF Texts
    <2> QED BY <1>2, <1>3, <2>1, MaxTextAssumption
  <1>5. TokensOf(u)[At] = <<x>> \o TokensOf(u)[At']
    <2>1. TokensOf(u)[At] = Body(u, TokensOf(u), At)
      BY <1>3, <1>4, TokensOfUnfolds
    <2>2. ~(At > Len(u)) /\ u[At] \notin Blanks /\ u[At] \notin Punctuation /\ u[At] # "\n"
      BY <1>2, <1>3
    <2> QED BY <1>3, <2>1, <2>2 DEF Body
  <1>6. x \in Tokens
    BY <1>3, LongTokenType
  <1>7. TokensOf(u)[At'] \in Seq(Tokens) /\ tokens \in Seq(Tokens)
    BY <1>3, <1>4, TokensOfType DEF LexInv, TypeOK, Tokens
  <1>8. TokensOf(u)[1] = tokens \o TokensOf(u)[At]
    BY <1>3 DEF LexInv, CutSoFar
  <1> QED BY <1>1, <1>5, <1>6, <1>7, <1>8, Regroup

LEMMA InitLex == Init => LexInv
  <1> SUFFICES ASSUME Init PROVE LexInv
    OBVIOUS
  <1>1. TypeOK
    BY InitType
  <1>2. /\ mode = "top" /\ text = <<>> /\ Len(text) = 0 /\ eof = FALSE
        /\ saved_char = NULL /\ tokens = <<>>
    BY DEF Init
  <1>3. text \in Texts
    BY <1>1, <1>2, MaxTextAssumption DEF Texts, TypeOK
  <1>4. SavedIsLast /\ NotOverLines /\ EndIsLast /\ Begun
    BY <1>2, EatingModes DEF SavedIsLast, NotOverLines, EndIsLast, Begun
  <1>5. At = 1
    BY <1>2, EatingModes DEF At
  <1>6. ASSUME NEW u, Extends(u) PROVE TokensOf(u)[1] = tokens \o TokensOf(u)[At]
    <2>1. TokensOf(u)[1] \in Seq(Tokens)
      <3>1. u \in Texts /\ 1 \in 1 .. Len(u) + 1
        BY <1>6 DEF Extends, Texts
      <3> QED BY <3>1, TokensOfType
    <2> QED BY <1>2, <1>5, <2>1
  <1> QED BY <1>1, <1>3, <1>4, <1>6 DEF LexInv, CutSoFar

LEMMA NextLex == LexInv /\ [Next]_vars => LexInv'
  <1> SUFFICES ASSUME LexInv, [Next]_vars PROVE LexInv'
    OBVIOUS
  <1>0. TypeOK' /\ SavedIsLast' /\ NotOverLines'
    BY NextType, NextLines DEF LexInv
  <1> DEFINE Rest == (text \in Texts)' /\ EndIsLast' /\ Begun' /\ CutSoFar'
  <1> SUFFICES Rest
    BY <1>0 DEF LexInv
  <1>a. "top" \notin Eating /\ "end" \notin Eating
    BY EatingModes
  <1>1. ASSUME NEW c \in Alphabet, NewLine(c) \/ Blank(c) \/ Punct(c) PROVE Rest
    <2>1. Fetch(c)
      BY <1>1 DEF NewLine, Blank, Punct
    <2>2. text' \in Texts /\ saved_char' = NULL /\ eof' = FALSE /\ mode = "top"
      BY <2>1, FetchAt
    <2>3. /\ mode' = "top"
          /\ \/ c \in Blanks /\ tokens' = tokens
             \/ c = "\n" /\ tokens' = Append(tokens, [type |-> "newline", string |-> <<>>])
             \/ c \in Punctuation /\ tokens' = Append(tokens, [type |-> "punct", string |-> <<c>>])
      BY <1>1, <2>2 DEF NewLine, Blank, Punct, Emit
    <2>4. CutSoFar'
      BY <2>1, <2>3, CutShort
    <2> QED BY <1>a, <2>2, <2>3, <2>4 DEF EndIsLast, Begun, Texts
  <1>2. ASSUME NEW c \in Alphabet, Start(c) PROVE Rest
    <2>1. /\ Fetch(c) /\ c \notin Blanks \cup Punctuation \cup {"\n"} /\ mode' = Starts(c)
          /\ buf' = <<c>> /\ tokens' = tokens
      BY <1>2 DEF Start
    <2>2. /\ text' \in Texts /\ At = Len(text') /\ At \in Nat \ {0} /\ text'[At] = c
          /\ eof' = FALSE /\ \A u : Extends(u)' => Extends(u)
      BY <2>1, FetchAt
    <2>3. mode' \in Eating
      BY <2>1, EatingModes DEF Starts
    <2>4. At' = At
      BY <2>1, <2>2, <2>3 DEF At
    <2>5. SubSeq(text', At, Len(text')) = <<c>>
      <3>1. text' \in Seq(Alphabet) /\ Len(text') \in Nat
        BY <2>2 DEF Texts
      <3> DEFINE one == SubSeq(text', At, Len(text'))
      <3>2. one \in Seq(Alphabet) /\ Len(one) = 1 /\ one[1] = c
        BY <2>2, <3>1
      <3>3. <<c>> \in Seq(Alphabet) /\ Len(<<c>>) = 1 /\ <<c>>[1] = c
        OBVIOUS
      <3> HIDE DEF one
      <3>4. one = <<c>>
        BY <3>2, <3>3, SeqEqual
      <3> QED BY <3>4 DEF one
    <2>6. Begun'
      BY <2>1, <2>2, <2>3, <2>4, <2>5 DEF Begun
    <2>7. CutSoFar'
      <3> SUFFICES ASSUME NEW u, Extends(u)' PROVE TokensOf(u)[1] = tokens' \o TokensOf(u)[At']
        BY DEF CutSoFar, TokensOf, Body
      <3> QED BY <2>1, <2>2, <2>4 DEF LexInv, CutSoFar
    <2>8. EndIsLast'
      BY <1>a, <2>2, <2>3 DEF EndIsLast
    <2> QED BY <2>2, <2>6, <2>7, <2>8 DEF Texts
  <1>3. ASSUME NEW c \in Alphabet, Eat(c) PROVE Rest
    <2>1. /\ mode \in Eating /\ c \notin Ends[mode] /\ Read(c) /\ buf' = Append(buf, c)
          /\ mode' = mode /\ tokens' = tokens
      BY <1>3 DEF Eat
    <2>2. /\ text' \in Texts /\ eof' = FALSE /\ text' = Append(text, c)
          /\ Len(text') = Len(text) + 1 /\ Len(text) \in Nat
          /\ text'[Len(text')] = c /\ \A i \in 1 .. Len(text) : text'[i] = text[i]
          /\ \A u : Extends(u)' => Extends(u)
          /\ text \in Seq(Alphabet)
      BY <2>1, ReadAt
    <2>3. buf \in Seq(Alphabet) /\ Len(buf') = Len(buf) + 1 /\ Len(buf) \in Nat
      BY <2>1 DEF LexInv, TypeOK
    <2>4. At' = At
      BY <2>1, <2>2, <2>3 DEF At
    <2>5. /\ At \in 1 .. Len(text) /\ buf = SubSeq(text, At, Len(text))
          /\ text[At] \notin Blanks \cup Punctuation \cup {"\n"}
          /\ mode = Starts(text[At]) /\ \A m \in At + 1 .. Len(text) : text[m] \notin Ends[mode]
      BY <2>1 DEF LexInv, Begun
    <2>6. buf' = SubSeq(text', At, Len(text'))
      <3>1. SubSeq(text', At, Len(text)) = SubSeq(text, At, Len(text))
        BY <2>2, <2>5
      <3>2. SubSeq(text', At, Len(text) + 1) = Append(SubSeq(text', At, Len(text)), c)
        BY <2>2, <2>5
      <3> QED BY <2>1, <2>2, <2>5, <3>1, <3>2
    <2>7. Begun'
      <3>1. ASSUME NEW m \in At + 1 .. Len(text') PROVE text'[m] \notin Ends[mode]
        <4>1. m = Len(text') \/ m \in At + 1 .. Len(text)
          BY <2>2, <2>5
        <4>2. CASE m = Len(text')
          BY <2>1, <2>2, <4>2
        <4>3. CASE m \in At + 1 .. Len(text)
          <5>1. text'[m] = text[m]
            BY <2>2, <2>5, <4>3
          <5> QED BY <2>5, <4>3, <5>1
        <4> QED BY <4>1, <4>2, <4>3
      <3>2. text'[At] = text[At] /\ At \in 1 .. Len(text')
        BY <2>2, <2>5
      <3> QED BY <2>1, <2>4, <2>5, <2>6, <3>1, <3>2 DEF Begun
    <2>8. CutSoFar'
      <3> SUFFICES ASSUME NEW u, Extends(u)' PROVE TokensOf(u)[1] = tokens' \o TokensOf(u)[At']
        BY DEF CutSoFar, TokensOf, Body
      <3> QED BY <2>1, <2>2, <2>4 DEF LexInv, CutSoFar
    <2>9. EndIsLast'
      BY <1>a, <2>1, <2>2 DEF EndIsLast
    <2> QED BY <2>2, <2>7, <2>8, <2>9 DEF Texts
  <1>4. ASSUME NEW c \in Alphabet \cup {EOF}, Finish(c) \/ Quote(c) PROVE Rest
    <2>1. /\ mode \in Eating /\ c \in Ends[mode] \cup {EOF} /\ Read(c) /\ mode' = "top"
          /\ saved_char' = NULL \/ c # EOF
      BY <1>4, EatingModes DEF Finish, Quote, Emit, LexInv, TypeOK
    <2>2. text' \in Texts /\ (eof' => c = EOF)
      <3>1. CASE c = EOF
        BY <3>1, <2>1 DEF Read, LexInv
      <3>2. CASE c # EOF
        BY <3>2, <2>1, ReadAt
      <3> QED BY <3>1, <3>2
    <2>3. CutSoFar'
      BY <1>4, <2>1, CutLong
    <2> QED BY <1>a, <2>1, <2>2, <2>3 DEF EndIsLast, Begun, Texts
  <1>5. CASE EndOfText
    <2>1. Fetch(EOF) /\ mode' = "end" /\ tokens' = tokens
      BY <1>5 DEF EndOfText
    <2>2. mode = "top" /\ saved_char = NULL /\ saved_char' = NULL /\ eof' = TRUE /\ text' = text
      BY <2>1, AlphabetAssumption DEF Fetch, Read, LexInv, TypeOK
    <2>3. At' = At
      BY <1>a, <2>1, <2>2 DEF At
    <2>4. CutSoFar'
      <3> SUFFICES ASSUME NEW u, Extends(u)' PROVE TokensOf(u)[1] = tokens' \o TokensOf(u)[At']
        BY DEF CutSoFar, TokensOf, Body
      <3>1. Extends(u)
        <4>1. text \in Texts /\ Len(text) \in Nat /\ u = text
          BY <2>2 DEF LexInv, Extends, Texts
        <4> QED BY <4>1 DEF Extends
      <3> QED BY <2>1, <2>3, <3>1 DEF LexInv, CutSoFar
    <2> QED BY <1>a, <2>1, <2>2, <2>4 DEF EndIsLast, Begun, LexInv, Texts
  <1>6. CASE UNCHANGED vars
    <2>1. /\ mode' = mode /\ text' = text /\ eof' = eof /\ saved_char' = saved_char
          /\ buf' = buf /\ tokens' = tokens
      BY <1>6 DEF vars
    <2>2. At' = At
      BY <2>1 DEF At
    <2>3. CutSoFar'
      <3> SUFFICES ASSUME NEW u, Extends(u)' PROVE TokensOf(u)[1] = tokens' \o TokensOf(u)[At']
        BY DEF CutSoFar, TokensOf, Body
      <3>1. Extends(u)
        BY <2>1 DEF Extends, Texts
      <3> QED BY <2>1, <2>2, <3>1 DEF LexInv, CutSoFar
    <2> QED BY <2>1, <2>2, <2>3 DEF EndIsLast, Begun, LexInv, Texts
  <1> QED BY <1>1, <1>2, <1>3, <1>4, <1>5, <1>6 DEF Next

(* Every text is cut into just the tokens that its definition gives: the   *)
(* scanner, which reads a character at a time and puts back one at most,   *)
(* finds the longest run for each token, in any text of any alphabet.      *)
THEOREM CutsLongest == Spec => []LongestMatch
  <1>1. LexInv => LongestMatch
    <2> SUFFICES ASSUME LexInv, mode = "end" PROVE tokens = TokensOf(text)[1]
      BY DEF LongestMatch
    <2>1. eof /\ saved_char = NULL /\ mode \notin Eating
      BY DEF LexInv, EndIsLast
    <2>2. text \in Texts /\ Len(text) \in Nat /\ Len(text) <= MaxText
      BY DEF LexInv, Texts
    <2>3. At = Len(text) + 1
      BY <2>1 DEF At
    <2>4. TokensOf(text)[1] = tokens \o TokensOf(text)[At]
      BY <2>2 DEF LexInv, CutSoFar, Extends
    <2>5. TokensOf(text)[At] = <<>>
      <3>1. At \in 1 .. Len(text) + 1 /\ At > Len(text)
        BY <2>2, <2>3, MaxTextAssumption
      <3> QED BY <2>2, <3>1, TokensOfUnfolds DEF Body
    <2>6. tokens \in Seq(Tokens)
      BY DEF LexInv, TypeOK, Tokens
    <2> QED BY <2>4, <2>5, <2>6
  <1> QED BY <1>1, InitLex, NextLex, PTL DEF Spec
=============================================================================

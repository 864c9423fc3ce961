-------------------------- MODULE ConfWrite_proofs --------------------------
(***************************************************************************)
(* Theorems about ConfWrite: for first files of any tokens and length,     *)
(* over any strings, and for trees of any size made of them.               *)
(***************************************************************************)
EXTENDS ConfWrite, ConfFile_proofs

(***************************************************************************)
(* Texts and tokens.                                                       *)
(***************************************************************************)
Text == Seq(Chars)

(* The tokens of a text, and the four kinds of them.                       *)
Scan(text) == TokensOf(text)[1]

Word(w) == [type |-> "string", string |-> w]
Remark(w) == [type |-> "comment", string |-> w]
Mark(c) == [type |-> "punct", string |-> <<c>>]
LineEnd == [type |-> "newline", string |-> <<>>]

Tokens ==
    {Word(w) : w \in Text \ {<<>>}} \cup {Remark(w) : w \in Text \ {<<>>}}
    \cup {Mark(c) : c \in Punctuation} \cup {LineEnd}

(* What the writer puts between the strings.                               *)
NewLine == <<"\n">>
Hash == <<"#">>
Gap == <<" ">>
Assign == <<" ", "=", " ">>
Between == <<",", " ">>
ListEnd == <<";", "\n">>
HeadEnd == <<" ", "{", "\n">>
Foot == <<"}", "\n">>

(***************************************************************************)
(* The trees the writer can be given.                                      *)
(***************************************************************************)

(* What a tree is like that was read and that can be written legibly.      *)
Writable(t) ==
    /\ t \in Seq(Blocks) /\ t # <<>>
    /\ t[1].parent = 0 /\ t[1].name = <<>>
    /\ \A b \in DOMAIN t : b # 1 =>
        /\ t[b].parent \in 1 .. b - 1 /\ t[b].name # <<>>
        /\ \E n \in DOMAIN t[t[b].parent].items :
            LET item == t[t[b].parent].items[n] IN item.type = "block" /\ item.value = b
    /\ \A b \in DOMAIN t : \A n \in DOMAIN t[b].items :
        LET item == t[b].items[n]
        IN  /\ item.type = "comment" => item.value \in {NULL, "text"}
            /\ item.type # "comment" => item.key \in Strings /\ Plain(item.key)
            /\ item.type = "value" => item.value \in Seq(Strings) /\ Readable(item.value)
            /\ item.type = "block" =>
                item.value \in DOMAIN t /\ item.value # 1 /\ t[item.value].parent = b
            /\ \A m \in DOMAIN t[b].items : m < n /\ t[b].items[m].type = item.type =>
                /\ item.type = "block" => t[b].items[m].value < item.value
                /\ item.type = "value" => t[b].items[m].key # item.key
    /\ \A x, y \in DOMAIN t : x < y /\ t[y].parent < x => t[x].parent >= t[y].parent
    /\ \A b \in DOMAIN t : Readable(t[b].name)

(* What a tree is like whose keys are there, plain or not.                 *)
Shaped(t) ==
    /\ t \in Seq(Blocks) /\ t # <<>>
    /\ \A b \in DOMAIN t : \A n \in DOMAIN t[b].items :
        LET item == t[b].items[n]
        IN  /\ item.type # "comment" => item.key \in Strings
            /\ item.type = "value" => item.value \in Seq(Strings)
            /\ item.type = "block" => item.value \in b + 1 .. Len(t)

-----------------------------------------------------------------------------
(* What is written of a tree from an item of a block to the end.           *)
Suffix(texts, n) == FlattenSeq(SubSeq(texts, n, Len(texts)))

(* The text of each item of a block, when f has the text inside each       *)
(* block.                                                                  *)
InnerText(t, f, b, n) ==
    IF t[b].items[n].type = "block" THEN f[t[b].items[n].value] ELSE <<>>

TextsWith(t, f, b) ==
    [n \in DOMAIN t[b].items |-> ItemText(t, t[b].items[n], InnerText(t, f, b, n))]

(* The text inside a block, defined from the blocks in it.                 *)
InsideBody(t, f, b) == FlattenSeq(TextsWith(t, f, b))

Inside(t) == LET inside[b \in DOMAIN t] == InsideBody(t, inside, b) IN inside

Texts(t, b) == TextsWith(t, Inside(t), b)

(* The place of a block among the items of its parent.                     *)
Place(t, b) ==
    CHOOSE n \in DOMAIN t[t[b].parent].items :
        LET item == t[t[b].parent].items[n] IN item.type = "block" /\ item.value = b

(* What is written behind a block, its foot first, defined from its        *)
(* parent.                                                                 *)
AfterBody(t, f, b) ==
    IF b = 1 THEN <<>>
    ELSE Foot \o (Suffix(Texts(t, t[b].parent), Place(t, b) + 1) \o f[t[b].parent])

After(t) == LET after[b \in DOMAIN t] == AfterBody(t, after, b) IN after

(* What is left of the text at an item of a block.                         *)
Rest(t, b, n) == Suffix(Texts(t, b), n) \o After(t)[b]

(* The tokens of it.                                                       *)
RestScan(t, b, n) == Scan(Rest(t, b, n))

(* The list of strings, and what is left of it in the text when the        *)
(* strings in got have been read.                                          *)
Blank(s) == s = <<>>

ListTexts(list) == [n \in DOMAIN list |-> Separator(list, n) \o Written(list[n])]
KeptTexts(list) == [n \in DOMAIN list |-> IF Blank(list[n]) THEN <<>> ELSE <<list[n]>>]

(* At a string, in front of which a comma may still stand, or past its     *)
(* comma.                                                                  *)
ListAt(list, n, got, isset, left) ==
    /\ got \o Suffix(KeptTexts(list), n) = NotEmpty(list)
    /\ \/ /\ left = Suffix(ListTexts(list), n)
          /\ isset => got # <<>>
          /\ got # <<>> <=> (\E m \in 1 .. n - 1 : ~Blank(list[m]))
       \/ /\ n \in DOMAIN list /\ ~Blank(list[n]) /\ ~isset
          /\ left = Written(list[n]) \o Suffix(ListTexts(list), n + 1)

ListLeft(list, got, isset, left) ==
    \E n \in 1 .. Len(list) + 1 : ListAt(list, n, got, isset, left)

-----------------------------------------------------------------------------
(* The second parse.                                                       *)
EmptyTop(t) ==
    t[1].items # <<>> /\ t[1].items[1].type = "comment" /\ t[1].items[1].value = NULL

Dropped(t, b) == IF b = 1 /\ EmptyTop(t) THEN 1 ELSE 0

(* The item of the source that the parser comes to next.                   *)
NextItem == last_item + Dropped(source, block) + 1

(* The open blocks S: the block at hand and those around it, each the last *)
(* item of its parent as far as the parent has been read.                  *)
LastHangs(b) ==
    LET items == tree[source[b].parent].items
    IN  items # <<>> /\ items[Len(items)].type = "block" /\ items[Len(items)].value = b

Opens(S) ==
    /\ S \subseteq DOMAIN tree /\ block \in S
    /\ \A b \in S : b <= block /\ (b # 1 => source[b].parent \in S /\ LastHangs(b))
    /\ \A a, b \in S : a < b => a <= source[b].parent

(* The tree is part of the source: whatever is there is as it was, all     *)
(* blocks but the open ones are complete, and only the option at hand may  *)
(* lack values.                                                            *)
Part(S) ==
    /\ Len(tree) <= Len(source)
    /\ \A b \in DOMAIN tree :
        /\ tree[b].parent = source[b].parent /\ tree[b].name = AgainName(source[b].name)
        /\ Len(tree[b].items) <= Len(AgainItems(b, source))
        /\ b \notin S => Len(tree[b].items) = Len(AgainItems(b, source))
        /\ \A n \in DOMAIN tree[b].items :
            \/ tree[b].items[n] = AgainItems(b, source)[n]
            \/ b = block /\ n = last_item /\ state = "value"

(* Where the second parse is in the file: at the empty line at the top,    *)
AtTop ==
    /\ EmptyTop(source)
    /\ block = 1 /\ last_item = 0 /\ Len(tree) = 1
    /\ state = "none" /\ last_token = "comment"
    /\ file = RestScan(source, 1, 1)

(* between two items, at the end of one,                                   *)
AtItem ==
    /\ state = "none"
    /\ last_token = "newline" \/ (block = 1 /\ NextItem = 1)
    /\ file = RestScan(source, block, NextItem)

AtLineEnd ==
    /\ state = "none"
    /\ last_token # "newline"
    /\ file = <<LineEnd>> \o RestScan(source, block, NextItem)

ItemHere(n) == source[block].items[n]

(* behind the key of an option,                                            *)
AtOption ==
    /\ state = "name" /\ ~set
    /\ NextItem \in DOMAIN source[block].items
    /\ ItemHere(NextItem).type = "value" /\ key = ItemHere(NextItem).key
    /\ file = <<Mark("=")>> \o Scan(nfcconf_list_get_string(ItemHere(NextItem).value)
                                   \o (ListEnd \o Rest(source, block, NextItem + 1)))

(* in the head of a block, with part of its names read,                    *)
AtHead(left) ==
    /\ state = "name"
    /\ NextItem \in DOMAIN source[block].items
    /\ ItemHere(NextItem).type = "block" /\ key = ItemHere(NextItem).key
    /\ ListLeft(source[ItemHere(NextItem).value].name, name, set, left)
    /\ file = Scan(left \o (HeadEnd \o Rest(source, ItemHere(NextItem).value, 1)))

(* and in the values of an option.                                         *)
AtValue(got, left) ==
    /\ state = "value" /\ last_item # 0
    /\ ItemHere(NextItem - 1).type = "value"
    /\ current_item = <<block, last_item>>
    /\ tree[block].items[last_item] = Item("value", ItemHere(NextItem - 1).key, got)
    /\ ListLeft(ItemHere(NextItem - 1).value, got, set, left)
    /\ file = Scan(left \o (ListEnd \o Rest(source, block, NextItem)))

(* The places all together.                                                *)
Position ==
    \/ AtTop \/ AtItem \/ AtLineEnd \/ AtOption
    \/ \E left \in Text : AtHead(left)
    \/ \E got \in Seq(Strings), left \in Text : AtValue(got, left)

-----------------------------------------------------------------------------
(* Induction about a set instead of a predicate, so that the lemmas can be *)
(* used as they stand: from the start of a range, and from its end.        *)
LEMMA Upward ==
    ASSUME NEW k \in Nat, NEW S, \A n \in 1 .. k : (\A i \in 1 .. n - 1 : i \in S) => n \in S
    PROVE  \A n \in 1 .. k : n \in S
<1> DEFINE Bad == {n \in 1 .. k : n \notin S}
<1> SUFFICES ASSUME Bad # {} PROVE FALSE
  OBVIOUS
<1>1. Bad \in SUBSET Nat
  OBVIOUS
<1>2. PICK n \in Bad : \A i \in Bad : n <= i
  <2> HIDE DEF Bad
  <2> QED
    BY <1>1, LeastIn
<1>3. \A i \in 1 .. n - 1 : i \in S
  BY <1>2
<1> QED
  BY <1>2, <1>3

LEMMA Downward ==
    ASSUME NEW k \in Nat, NEW S, \A n \in 1 .. k : (\A i \in n + 1 .. k : i \in S) => n \in S
    PROVE  \A n \in 1 .. k : n \in S
<1> DEFINE R == {n \in 1 .. k : k + 1 - n \in S}
<1>1. ASSUME NEW n \in 1 .. k, \A i \in 1 .. n - 1 : i \in R
      PROVE  n \in R
  <2>1. ASSUME NEW i \in k + 1 - n + 1 .. k PROVE i \in S
    <3>1. k + 1 - i \in 1 .. n - 1 /\ k + 1 - (k + 1 - i) = i
      OBVIOUS
    <3>2. k + 1 - i \in R
      BY <1>1, <3>1
    <3> QED
      BY <3>1, <3>2
  <2>2. k + 1 - n \in 1 .. k
    OBVIOUS
  <2> QED
    BY <2>1, <2>2
<1>2. \A n \in 1 .. k : n \in R
  <2> HIDE DEF R
  <2> QED
    BY <1>1, Upward
<1>3. ASSUME NEW n \in 1 .. k PROVE n \in S
  <2>1. k + 1 - n \in 1 .. k /\ k + 1 - (k + 1 - n) = n
    OBVIOUS
  <2> QED
    BY <1>2, <2>1
<1> QED
  BY <1>3

LEMMA Joined ==
    ASSUME NEW T, NEW s \in Seq(T), NEW t \in Seq(T), NEW u \in Seq(T)
    PROVE  /\ s \o t \in Seq(T)
           /\ (s \o t) \o u = s \o (t \o u)
           /\ s \o <<>> = s /\ <<>> \o s = s
BY ConcatAssociative, ConcatProperties, ConcatEmptySeq

-----------------------------------------------------------------------------
(* FlattenSeq() joins what it is given, from the first to the last.        *)
Joins(f, seqs) ==
    f[1] = seqs[1] /\ \A i \in 2 .. Len(seqs) : f[i] = f[i - 1] \o seqs[i]

LEMMA FlattenIs ==
    ASSUME NEW T, NEW seqs \in Seq(Seq(T)), seqs # <<>>
    PROVE  \E f \in [1 .. Len(seqs) -> Seq(T)] :
               FlattenSeq(seqs) = f[Len(seqs)] /\ Joins(f, seqs)
<1> DEFINE L == Len(seqs)
           Body(f, i) == IF i = 1 THEN seqs[i] ELSE f[i - 1] \o seqs[i]
           S == {k \in 1 .. L : \E f \in [1 .. k -> Seq(T)] : \A i \in 1 .. k : f[i] = Body(f, i)}
<1>0. L \in Nat /\ L >= 1 /\ L \in 1 .. L
  OBVIOUS
<1>a. \A i \in 1 .. L : seqs[i] \in Seq(T)
  OBVIOUS
<1> HIDE DEF L
<1>1. ASSUME NEW k \in 1 .. L, \A i \in 1 .. k - 1 : i \in S
      PROVE  k \in S
  <2>1. CASE k = 1
    <3> DEFINE f == [i \in 1 .. 1 |-> seqs[i]]
    <3>1. f \in [1 .. k -> Seq(T)] /\ \A i \in 1 .. k : f[i] = Body(f, i)
      BY <1>0, <2>1
    <3> QED
      BY <3>1
  <2>2. CASE k # 1
    <3>1. k - 1 \in 1 .. k - 1 /\ k \in Nat
      BY <1>0, <2>2
    <3>2. k - 1 \in S
      BY <1>1, <3>1
    <3>3. PICK g \in [1 .. k - 1 -> Seq(T)] : \A i \in 1 .. k - 1 : g[i] = Body(g, i)
      BY <3>2
    <3> DEFINE last == g[k - 1] \o seqs[k]
               f == [i \in 1 .. k |-> IF i = k THEN last ELSE g[i]]
    <3>4. last \in Seq(T)
      <4>1. g[k - 1] \in Seq(T) /\ seqs[k] \in Seq(T)
        BY <1>a, <3>1, <3>3
      <4> QED
        BY <4>1
    <3> HIDE DEF last
    <3>5. f \in [1 .. k -> Seq(T)]
      BY <3>1, <3>3, <3>4
    <3>6. ASSUME NEW i \in 1 .. k PROVE f[i] = Body(f, i)
      <4>1. CASE i = k
        <5>1. f[k] = last /\ f[k - 1] = g[k - 1]
          BY <1>0, <3>1
        <5> HIDE DEF f
        <5> QED
          BY <2>2, <4>1, <5>1 DEF last
      <4>2. CASE i # k
        <5>1. i \in 1 .. k - 1 /\ (i # 1 => i - 1 \in 1 .. k - 1)
          BY <4>2
        <5>2. f[i] = g[i] /\ (i # 1 => f[i - 1] = g[i - 1])
          BY <5>1
        <5>3. g[i] = Body(g, i)
          BY <3>3, <5>1
        <5> HIDE DEF f
        <5> QED
          BY <5>1, <5>2, <5>3
      <4> QED
        BY <4>1, <4>2
    <3> QED
      BY <3>5, <3>6
  <2> QED
    BY <2>1, <2>2
<1>2. L \in S
  <2>1. \A k \in 1 .. L : k \in S
    <3> HIDE DEF S
    <3> QED
      BY <1>0, <1>1, Upward
  <2> HIDE DEF S
  <2> QED
    BY <1>0, <2>1
<1>3. PICK f \in [1 .. L -> Seq(T)] : \A i \in 1 .. L : f[i] = Body(f, i)
  BY <1>2
<1>4. f = [i \in 1 .. L |-> Body(f, i)]
  <2> HIDE DEF Body
  <2> QED
    BY <1>3
<1> DEFINE g == CHOOSE h : h = [i \in 1 .. L |-> Body(h, i)]
<1>5. g = [i \in 1 .. L |-> Body(g, i)]
  <2> HIDE DEF Body
  <2> QED
    BY <1>4
<1>6. FlattenSeq(seqs) = g[L]
  BY <1>0 DEF FlattenSeq, L
<1> HIDE DEF g
<1>7. \A i \in 1 .. L : g[i] = Body(g, i)
  <2> HIDE DEF Body
  <2> QED
    BY <1>5
<1>8. \A k \in 1 .. L : g[k] \in Seq(T)
  <2> DEFINE R == {i \in 1 .. L : g[i] \in Seq(T)}
  <2>1. ASSUME NEW k \in 1 .. L, \A i \in 1 .. k - 1 : i \in R
        PROVE  k \in R
    <3>1. CASE k = 1
      BY <1>a, <1>7, <3>1
    <3>2. CASE k # 1
      <4>1. k - 1 \in 1 .. k - 1
        BY <1>0, <3>2
      <4>2. g[k - 1] \in Seq(T) /\ seqs[k] \in Seq(T)
        BY <1>a, <2>1, <4>1
      <4>3. g[k] = g[k - 1] \o seqs[k]
        BY <1>7, <3>2
      <4>4. g[k] \in Seq(T)
        BY <4>2, <4>3
      <4> QED
        BY <4>4
    <3> QED
      BY <3>1, <3>2
  <2>2. \A k \in 1 .. L : k \in R
    <3> HIDE DEF R
    <3> QED
      BY <1>0, <2>1, Upward
  <2> QED
    BY <2>2
<1>9. g \in [1 .. L -> Seq(T)]
  <2>1. DOMAIN g = 1 .. L /\ g = [i \in 1 .. L |-> g[i]]
    <3> HIDE DEF Body
    <3> QED
      BY <1>5
  <2> QED
    BY <1>8, <2>1
<1>10. Joins(g, seqs)
  <2>1. 1 \in 1 .. L /\ \A i \in 2 .. L : i \in 1 .. L /\ i # 1
    BY <1>0
  <2> QED
    BY <1>7, <2>1 DEF Joins, L
<1> QED
  BY <1>6, <1>9, <1>10 DEF L

(* FlattenSeq() of sequences over T is one over T.                         *)
LEMMA FlattenTyped ==
    ASSUME NEW T, NEW seqs \in Seq(Seq(T))
    PROVE  FlattenSeq(seqs) \in Seq(T)
<1>1. CASE seqs = <<>>
  BY <1>1 DEF FlattenSeq
<1>2. CASE seqs # <<>>
  <2>1. PICK f \in [1 .. Len(seqs) -> Seq(T)] : FlattenSeq(seqs) = f[Len(seqs)]
    BY <1>2, FlattenIs
  <2>2. Len(seqs) \in 1 .. Len(seqs)
    BY <1>2
  <2> QED
    BY <2>1, <2>2
<1> QED
  BY <1>1, <1>2

(* FlattenSeq() takes the first sequence and goes on with the others.      *)
LEMMA FlattenFirst ==
    ASSUME NEW T, NEW seqs \in Seq(Seq(T)), seqs # <<>>
    PROVE  FlattenSeq(seqs) = seqs[1] \o FlattenSeq(Tail(seqs))
<1> DEFINE L == Len(seqs)
           more == Tail(seqs)
<1>0. L \in Nat /\ L >= 1
  OBVIOUS
<1>a. \A i \in 1 .. L : seqs[i] \in Seq(T)
  OBVIOUS
<1>1. more \in Seq(Seq(T)) /\ Len(more) = L - 1 /\ \A i \in 1 .. L - 1 : more[i] = seqs[i + 1]
  BY HeadTailProperties
<1>2. PICK f \in [1 .. L -> Seq(T)] : FlattenSeq(seqs) = f[L] /\ Joins(f, seqs)
  BY FlattenIs
<1>b. f[1] = seqs[1] /\ \A i \in 2 .. L : f[i] = f[i - 1] \o seqs[i]
  BY <1>2 DEF Joins
<1>c. FlattenSeq(seqs) = f[L]
  BY <1>2
<1> HIDE DEF more, L
<1>3. CASE L = 1
  <2>1. more = <<>>
    BY <1>1, <1>3
  <2>2. FlattenSeq(more) = <<>>
    BY <2>1 DEF FlattenSeq
  <2>3. FlattenSeq(seqs) = seqs[1]
    BY <1>b, <1>c, <1>3
  <2>4. seqs[1] \in Seq(T)
    BY <1>a, <1>3
  <2> QED
    BY <2>2, <2>3, <2>4 DEF more
<1>4. CASE L # 1
  <2>1. more # <<>>
    BY <1>0, <1>1, <1>4
  <2>2. PICK g \in [1 .. L - 1 -> Seq(T)] : FlattenSeq(more) = g[L - 1] /\ Joins(g, more)
    BY <1>1, <2>1, FlattenIs
  <2>a. g[1] = more[1] /\ \A i \in 2 .. L - 1 : g[i] = g[i - 1] \o more[i]
    BY <1>1, <2>2 DEF Joins
  <2>b. L - 1 \in Nat /\ L - 1 \in 1 .. L - 1
    BY <1>0, <1>4
  <2> DEFINE S == {i \in 1 .. L - 1 : f[i + 1] = seqs[1] \o g[i]}
  <2>3. ASSUME NEW k \in 1 .. L - 1, \A i \in 1 .. k - 1 : i \in S
        PROVE  k \in S
    <3>1. k \in Nat /\ k + 1 \in 2 .. L /\ (k + 1) - 1 = k
      BY <1>0
    <3>2. f[k + 1] = f[k] \o seqs[k + 1]
      BY <1>b, <3>1
    <3>a. more[k] = seqs[k + 1]
      BY <1>1
    <3>3. CASE k = 1
      <4>1. f[k + 1] = seqs[1] \o g[k]
        BY <1>b, <2>a, <3>2, <3>a, <3>3
      <4> QED
        BY <4>1
    <3>4. CASE k # 1
      <4>1. k - 1 \in 1 .. k - 1 /\ k \in 2 .. L - 1 /\ (k - 1) + 1 = k /\ k - 1 \in 1 .. L - 1
            /\ 1 \in 1 .. L /\ k + 1 \in 1 .. L
        BY <1>0, <3>1, <3>4
      <4>2. f[k] = seqs[1] \o g[k - 1]
        <5>1. k - 1 \in S
          BY <2>3, <4>1
        <5> QED
          BY <4>1, <5>1
      <4>3. g[k] = g[k - 1] \o more[k]
        BY <2>a, <4>1
      <4>4. seqs[1] \in Seq(T) /\ g[k - 1] \in Seq(T) /\ more[k] \in Seq(T)
        BY <1>a, <2>2, <3>a, <4>1
      <4> DEFINE x == seqs[1]
                 y == g[k - 1]
                 z == more[k]
      <4>5. (x \o y) \o z = x \o (y \o z)
        <5>1. x \in Seq(T) /\ y \in Seq(T) /\ z \in Seq(T)
          BY <4>4
        <5> HIDE DEF x, y, z
        <5> QED
          BY <5>1, Joined, SMTT(30)
      <4>6. f[k + 1] = seqs[1] \o g[k]
        BY <3>2, <3>a, <4>2, <4>3, <4>5
      <4> QED
        BY <4>6
    <3> QED
      BY <3>3, <3>4
  <2>4. L - 1 \in S
    <3>2. \A k \in 1 .. L - 1 : k \in S
      <4> HIDE DEF S
      <4> QED
        BY <2>3, <2>b, Upward
    <3> HIDE DEF S
    <3> QED
      BY <2>b, <3>2
  <2>5. f[L] = seqs[1] \o g[L - 1]
    <3>1. L - 1 + 1 = L
      BY <1>0
    <3> QED
      BY <2>4, <3>1
  <2> QED
    BY <1>c, <2>2, <2>5 DEF more
<1> QED
  BY <1>3, <1>4

(* From any place of it to the end.                                        *)
LEMMA SuffixIs ==
    ASSUME NEW T, NEW texts \in Seq(Seq(T)), NEW n \in 1 .. Len(texts) + 1
    PROVE  /\ Suffix(texts, n) \in Seq(T)
           /\ n = Len(texts) + 1 => Suffix(texts, n) = <<>>
           /\ n \in DOMAIN texts => Suffix(texts, n) = texts[n] \o Suffix(texts, n + 1)
           /\ Suffix(texts, 1) = FlattenSeq(texts)
<1> DEFINE part == SubSeq(texts, n, Len(texts))
<1>0. Len(texts) \in Nat /\ DOMAIN texts = 1 .. Len(texts)
  OBVIOUS
<1>1. part \in Seq(Seq(T))
  BY <1>0
<1>2. Suffix(texts, n) \in Seq(T)
  <2> HIDE DEF part
  <2> QED
    BY <1>1, FlattenTyped DEF Suffix, part
<1>3. ASSUME n = Len(texts) + 1 PROVE Suffix(texts, n) = <<>>
  <2>1. part = <<>>
    BY <1>0, <1>3, SubSeqEmpty
  <2> HIDE DEF part
  <2>2. FlattenSeq(part) = <<>>
    BY <2>1 DEF FlattenSeq
  <2> QED
    BY <2>2 DEF Suffix, part
<1>4. ASSUME n \in DOMAIN texts PROVE Suffix(texts, n) = texts[n] \o Suffix(texts, n + 1)
  <2>1. n \in 1 .. Len(texts) /\ Len(texts) \in n .. Len(texts)
    BY <1>0, <1>4
  <2>2. Head(part) = texts[n] /\ Tail(part) = SubSeq(texts, n + 1, Len(texts))
    BY <2>1, HeadTailOfSubSeq
  <2>3. part # <<>> /\ part[1] = texts[n]
    BY <1>0, <2>1
  <2> HIDE DEF part
  <2>4. FlattenSeq(part) = part[1] \o FlattenSeq(Tail(part))
    BY <1>1, <2>3, FlattenFirst
  <2> QED
    BY <2>2, <2>3, <2>4 DEF Suffix, part
<1>5. Suffix(texts, 1) = FlattenSeq(texts)
  <2>1. SubSeq(texts, 1, Len(texts)) = texts
    BY SubSeqFull
  <2> QED
    BY <2>1 DEF Suffix
<1> QED
  BY <1>2, <1>3, <1>4, <1>5

LEMMA SeqFacts ==
    ASSUME NEW T, NEW s \in Seq(T)
    PROVE  /\ Len(s) \in Nat /\ DOMAIN s = 1 .. Len(s)
           /\ 1 \in 1 .. Len(s) + 1 /\ Len(s) + 1 \in 1 .. Len(s) + 1 /\ Len(s) + 1 \in Nat
           /\ \A n \in 1 .. Len(s) :
                  s[n] \in T /\ n \in Nat /\ n + 1 \in 1 .. Len(s) + 1 /\ n \in 1 .. Len(s) + 1
OBVIOUS

LEMMA SmallSeqs ==
    ASSUME NEW T
    PROVE  <<>> \in Seq(T) /\ \A x \in T : <<x>> \in Seq(T)
OBVIOUS

(* One token in front of others.                                           *)
LEMMA InFront ==
    ASSUME NEW T, NEW x \in T, NEW s \in Seq(T)
    PROVE  /\ <<x>> \o s \in Seq(T) /\ <<x>> \o s # <<>>
           /\ Head(<<x>> \o s) = x /\ Tail(<<x>> \o s) = s
<1>1. <<x>> \in Seq(T) /\ Len(<<x>>) = 1 /\ <<x>>[1] = x
  OBVIOUS
<1> DEFINE y == <<x>>
           r == y \o s
<1> HIDE DEF y
<1>2. /\ r \in Seq(T) /\ Len(r) = 1 + Len(s)
      /\ \A i \in 1 .. 1 + Len(s) : r[i] = IF i <= 1 THEN y[i] ELSE s[i - 1]
  BY <1>1, ConcatProperties DEF y
<1> HIDE DEF r
<1>3. Len(s) \in Nat
  OBVIOUS
<1>4. r # <<>> /\ r[1] = x
  BY <1>1, <1>2, <1>3 DEF y
<1>5. Head(r) = x
  BY <1>4
<1>6. Tail(r) \in Seq(T) /\ Len(Tail(r)) = Len(s) /\ \A i \in 1 .. Len(s) : Tail(r)[i] = r[i + 1]
  BY <1>2, <1>3, <1>4, HeadTailProperties
<1>7. \A i \in 1 .. Len(s) : Tail(r)[i] = s[i]
  BY <1>2, <1>3, <1>6
<1>8. Tail(r) = s
  BY <1>6, <1>7, SeqEqual
<1> QED
  BY <1>2, <1>4, <1>5, <1>8 DEF r, y

(* A string that moves from the front of what is left to the end of what   *)
(* has been read.                                                          *)
LEMMA InStrings ==
    ASSUME NEW r \in Seq(Strings), NEW x \in Strings, NEW s \in Seq(Strings)
    PROVE  /\ Append(r, x) \in Seq(Strings) /\ Append(r, x) # <<>>
           /\ Append(r, x) \o s = r \o (<<x>> \o s)
<1>1. <<x>> \in Seq(Strings)
  OBVIOUS
<1>2. Append(r, x) = r \o <<x>>
  BY AppendIsConcat
<1>3. Append(r, x) \in Seq(Strings) /\ Append(r, x) # <<>>
  BY AppendProperties
<1> DEFINE y == <<x>>
<1> HIDE DEF y
<1>4. (r \o y) \o s = r \o (y \o s)
  BY <1>1, Joined DEF y
<1> QED
  BY <1>2, <1>3, <1>4 DEF y

-----------------------------------------------------------------------------
(* Scanning a text.  TokensOf() is a recursive definition: the function it *)
(* asks for exists, as the tokens from a place on depend on those from     *)
(* later places only.                                                      *)
Body(t, from, n) ==
    IF n > Len(t) THEN <<>>
    ELSE IF t[n] \in Blanks THEN from[n + 1]
    ELSE IF t[n] = "\n" THEN <<LineEnd>> \o from[n + 1]
    ELSE IF t[n] \in Punctuation THEN <<Mark(t[n])>> \o from[n + 1]
    ELSE <<LongToken(t, n)>> \o from[LastOf(t, n) + 1]

(* Where a long token ends.                                                *)
LEMMA LastOfIs ==
    ASSUME NEW t \in Text, NEW n \in 1 .. Len(t)
    PROVE  /\ LastOf(t, n) \in n .. Len(t)
           /\ \A k \in Stops(t, n) : (\A m \in Stops(t, n) : k <= m) => Min(Stops(t, n)) = k
<1>1. Len(t) \in Nat /\ Stops(t, n) \subseteq n + 1 .. Len(t) /\ Stops(t, n) \in SUBSET Nat
  BY DEF Stops, Text
<1>2. ASSUME Stops(t, n) # {}
      PROVE  Min(Stops(t, n)) \in Stops(t, n) /\ \A m \in Stops(t, n) : Min(Stops(t, n)) <= m
  <2>1. \E x \in Stops(t, n) : \A y \in Stops(t, n) : x <= y
    BY <1>1, <1>2, LeastIn
  <2> QED
    BY <2>1 DEF Min
<1>3. LastOf(t, n) \in n .. Len(t)
  <2>1. CASE Stops(t, n) = {}
    BY <1>1, <2>1 DEF LastOf
  <2>2. CASE Stops(t, n) # {}
    BY <1>1, <1>2, <2>2 DEF LastOf
  <2> QED
    BY <2>1, <2>2
<1>4. ASSUME NEW k \in Stops(t, n), \A m \in Stops(t, n) : k <= m
      PROVE  Min(Stops(t, n)) = k
  <2>1. Min(Stops(t, n)) \in Stops(t, n) /\ Min(Stops(t, n)) <= k
    BY <1>2, <1>4
  <2>2. k <= Min(Stops(t, n)) /\ k \in Nat /\ Min(Stops(t, n)) \in Nat
    BY <1>1, <1>4, <2>1
  <2> QED
    BY <2>1, <2>2
<1> QED
  BY <1>3, <1>4

LEMMA BodyLooksAhead ==
    ASSUME NEW t \in Text, NEW n \in 1 .. Len(t) + 1, NEW f, NEW g,
           \A k \in n + 1 .. Len(t) + 1 : f[k] = g[k]
    PROVE  Body(t, f, n) = Body(t, g, n)
<1>1. CASE n > Len(t)
  BY <1>1 DEF Body
<1>2. CASE ~(n > Len(t))
  <2>1. n + 1 \in n + 1 .. Len(t) + 1 /\ n \in 1 .. Len(t) /\ Len(t) \in Nat
    BY <1>2 DEF Text
  <2>2. LastOf(t, n) + 1 \in n + 1 .. Len(t) + 1
    BY <2>1, LastOfIs
  <2>3. f[n + 1] = g[n + 1] /\ f[LastOf(t, n) + 1] = g[LastOf(t, n) + 1]
    BY <2>1, <2>2
  <2> QED
    BY <2>3 DEF Body
<1> QED
  BY <1>1, <1>2

LEMMA TokensOfExists ==
    ASSUME NEW t \in Text
    PROVE  \E g : g = [n \in 1 .. Len(t) + 1 |-> Body(t, g, n)]
<1> DEFINE Partly(k) == \E g : g = [n \in k .. Len(t) + 1 |-> Body(t, g, n)]
           S == {k \in 1 .. Len(t) + 1 : Partly(k)}
<1>1. Len(t) + 1 \in Nat /\ 1 \in 1 .. Len(t) + 1
  BY DEF Text
<1>2. ASSUME NEW n \in 1 .. Len(t) + 1, \A k \in n + 1 .. Len(t) + 1 : k \in S
      PROVE  n \in S
  <2>1. PICK f : f = [k \in n + 1 .. Len(t) + 1 |-> Body(t, f, k)]
    <3>1. CASE n = Len(t) + 1
      <4> DEFINE f == [k \in n + 1 .. Len(t) + 1 |-> <<>>]
      <4>1. n + 1 .. Len(t) + 1 = {}
        BY <1>1, <3>1
      <4>2. f = [k \in n + 1 .. Len(t) + 1 |-> Body(t, f, k)]
        BY <4>1
      <4> QED
        BY <4>2
    <3>2. CASE n # Len(t) + 1
      <4>1. n + 1 \in S
        BY <1>1, <1>2, <3>2
      <4> QED
        BY <4>1
    <3> QED
      BY <3>1, <3>2
  <2> DEFINE g == [k \in n .. Len(t) + 1 |-> IF k = n THEN Body(t, f, n) ELSE f[k]]
  <2>2. \A k \in n + 1 .. Len(t) + 1 : g[k] = f[k] /\ f[k] = Body(t, f, k)
    BY <1>1, <2>1
  <2>3. g[n] = Body(t, f, n)
    BY <1>1
  <2>4. ASSUME NEW k \in n .. Len(t) + 1 PROVE g[k] = Body(t, g, k)
    <3> HIDE DEF g
    <3>1. k \in 1 .. Len(t) + 1 /\ k + 1 .. Len(t) + 1 \subseteq n + 1 .. Len(t) + 1
      BY <1>1
    <3>2. Body(t, f, k) = Body(t, g, k)
      BY <2>2, <3>1, BodyLooksAhead
    <3>3. k = n \/ k \in n + 1 .. Len(t) + 1
      BY <1>1
    <3> QED
      BY <2>2, <2>3, <3>2, <3>3
  <2>5. g = [k \in n .. Len(t) + 1 |-> Body(t, g, k)]
    <3>1. g = [k \in n .. Len(t) + 1 |-> g[k]]
      OBVIOUS
    <3> HIDE DEF g
    <3> QED
      BY <2>4, <3>1
  <2> QED
    BY <2>5
<1>3. 1 \in S
  <2> HIDE DEF S
  <2>1. \A n \in 1 .. Len(t) + 1 : n \in S
    BY <1>1, <1>2, Downward
  <2> QED
    BY <1>1, <2>1
<1> QED
  BY <1>3

LEMMA TokensOfUnfolds ==
    ASSUME NEW t \in Text, NEW n \in 1 .. Len(t) + 1
    PROVE  TokensOf(t)[n] = Body(t, TokensOf(t), n)
<1>1. TokensOf(t) = CHOOSE g : g = [k \in 1 .. Len(t) + 1 |-> Body(t, g, k)]
  BY DEF TokensOf, Body, LineEnd, Mark
<1>2. TokensOf(t) = [k \in 1 .. Len(t) + 1 |-> Body(t, TokensOf(t), k)]
  BY <1>1, TokensOfExists
<1> QED
  BY <1>2

(* A long token is one, and so is what the scanner makes of a part of it.  *)
LEMMA LongTokenTyped ==
    ASSUME NEW t \in Text, NEW n \in 1 .. Len(t)
    PROVE  LongToken(t, n) \in Tokens /\ LongToken(t, n).string \in Text \ {<<>>}
<1>1. Len(t) \in Nat /\ LastOf(t, n) \in n .. Len(t)
  BY LastOfIs DEF Text
<1> DEFINE part == SubSeq(t, n, LastOf(t, n))
           tail == IF t[n] = "\"" /\ Stops(t, n) = {} THEN <<EOF>> ELSE <<>>
<1>2. part \in Text /\ Len(part) # 0
  BY <1>1 DEF Text
<1>3. tail \in Text
  <2>1. EOF \in Chars
    BY CharsAssumption DEF Special
  <2>2. <<>> \in Text /\ <<EOF>> \in Text
    BY <2>1, SmallSeqs DEF Text
  <2> QED
    BY <2>2
<1> HIDE DEF part, tail
<1>4. part \o tail \in Text /\ part \o tail # <<>>
  <2>1. Len(part \o tail) = Len(part) + Len(tail) /\ Len(part) \in Nat /\ Len(tail) \in Nat
    BY <1>2, <1>3, ConcatProperties DEF Text
  <2>2. part \o tail \in Text
    BY <1>2, <1>3, ConcatProperties DEF Text
  <2>3. Len(part \o tail) # 0
    BY <1>2, <2>1
  <2> QED
    BY <2>2, <2>3
<1>5. LongToken(t, n) = IF t[n] = "#" THEN Remark(part \o tail) ELSE Word(part \o tail)
  BY DEF LongToken, Remark, Word, part, tail
<1>6. LongToken(t, n).string = part \o tail
  BY <1>5 DEF Remark, Word
<1> QED
  BY <1>4, <1>5, <1>6 DEF Tokens

LEMMA TokensOfTyped ==
    ASSUME NEW t \in Text, NEW n \in 1 .. Len(t) + 1
    PROVE  TokensOf(t)[n] \in Seq(Tokens)
<1> DEFINE S == {k \in 1 .. Len(t) + 1 : TokensOf(t)[k] \in Seq(Tokens)}
<1>1. Len(t) + 1 \in Nat
  BY DEF Text
<1>2. ASSUME NEW k \in 1 .. Len(t) + 1, \A j \in k + 1 .. Len(t) + 1 : j \in S
      PROVE  k \in S
  <2>1. CASE k > Len(t)
    <3>1. TokensOf(t)[k] = <<>>
      BY <2>1, TokensOfUnfolds DEF Body
    <3>2. TokensOf(t)[k] \in Seq(Tokens)
      BY <3>1, SmallSeqs
    <3> QED
      BY <3>2
  <2>2. CASE ~(k > Len(t))
    <3>1. k + 1 \in k + 1 .. Len(t) + 1 /\ k \in 1 .. Len(t) /\ Len(t) \in Nat
      BY <2>2 DEF Text
    <3>2. LastOf(t, k) + 1 \in k + 1 .. Len(t) + 1
      BY <3>1, LastOfIs
    <3>3. TokensOf(t)[k + 1] \in Seq(Tokens) /\ TokensOf(t)[LastOf(t, k) + 1] \in Seq(Tokens)
      BY <1>2, <3>1, <3>2
    <3>4. LongToken(t, k) \in Tokens
      BY <3>1, LongTokenTyped
    <3>5. LineEnd \in Tokens /\ (t[k] \in Punctuation => Mark(t[k]) \in Tokens)
      BY DEF Tokens
    <3>6. \A x \in Tokens, q \in Seq(Tokens) : <<x>> \o q \in Seq(Tokens)
      BY InFront
    <3>7. TokensOf(t)[k] = Body(t, TokensOf(t), k)
      BY TokensOfUnfolds
    <3> DEFINE r == TokensOf(t)[k + 1]
               s == TokensOf(t)[LastOf(t, k) + 1]
    <3>8. TokensOf(t)[k] =
              IF t[k] \in Blanks THEN r
              ELSE IF t[k] = "\n" THEN <<LineEnd>> \o r
              ELSE IF t[k] \in Punctuation THEN <<Mark(t[k])>> \o r
              ELSE <<LongToken(t, k)>> \o s
      BY <2>2, <3>7 DEF Body
    <3> HIDE DEF r, s
    <3>9. TokensOf(t)[k] \in Seq(Tokens)
      <4>1. /\ r \in Seq(Tokens) /\ <<LineEnd>> \o r \in Seq(Tokens)
            /\ t[k] \in Punctuation => <<Mark(t[k])>> \o r \in Seq(Tokens)
            /\ <<LongToken(t, k)>> \o s \in Seq(Tokens)
        BY <3>3, <3>4, <3>5, <3>6, Zenon DEF r, s
      <4> QED
        BY <3>8, <4>1, Zenon
    <3> QED
      BY <3>9
  <2> QED
    BY <2>1, <2>2
<1>3. \A k \in 1 .. Len(t) + 1 : k \in S
  <2> HIDE DEF S
  <2> QED
    BY <1>1, <1>2, Downward
<1> QED
  BY <1>3

LEMMA ScanTyped ==
    ASSUME NEW t \in Text
    PROVE  Scan(t) \in Seq(Tokens)
<1>1. 1 \in 1 .. Len(t) + 1
  BY DEF Text
<1> QED
  BY <1>1, TokensOfTyped DEF Scan

(* What the scanner makes of a text from a place on is about the text from *)
(* there on only.                                                          *)
LEMMA BehindIs ==
    ASSUME NEW u \in Text, NEW r \in Text
    PROVE  /\ u \o r \in Text /\ Len(u \o r) = Len(u) + Len(r)
           /\ Len(u) \in Nat /\ Len(r) \in Nat
           /\ \A n \in 1 .. Len(u) : (u \o r)[n] = u[n]
           /\ \A n \in 1 .. Len(r) : (u \o r)[Len(u) + n] = r[n]
           /\ \A n \in 1 .. Len(u) : u[n] \in Chars
           /\ \A n \in 1 .. Len(r) : r[n] \in Chars
<1>1. u \in Seq(Chars) /\ r \in Seq(Chars)
  BY DEF Text
<1>2. /\ u \o r \in Seq(Chars) /\ Len(u \o r) = Len(u) + Len(r)
      /\ \A i \in 1 .. Len(u) + Len(r) : (u \o r)[i] = IF i <= Len(u) THEN u[i] ELSE r[i - Len(u)]
  BY <1>1, ConcatProperties
<1>3. Len(u) \in Nat /\ Len(r) \in Nat
  BY <1>1
<1>4. ASSUME NEW n \in 1 .. Len(u) PROVE (u \o r)[n] = u[n]
  <2>1. n \in 1 .. Len(u) + Len(r) /\ n <= Len(u)
    BY <1>3
  <2> QED
    BY <1>2, <2>1
<1>5. ASSUME NEW n \in 1 .. Len(r) PROVE (u \o r)[Len(u) + n] = r[n]
  <2>1. Len(u) + n \in 1 .. Len(u) + Len(r) /\ ~(Len(u) + n <= Len(u)) /\ Len(u) + n - Len(u) = n
    BY <1>3
  <2> QED
    BY <1>2, <2>1
<1> QED
  BY <1>1, <1>2, <1>3, <1>4, <1>5 DEF Text

LEMMA LongTokenBehind ==
    ASSUME NEW u \in Text, NEW r \in Text, NEW n \in 1 .. Len(r)
    PROVE  /\ LastOf(u \o r, Len(u) + n) = Len(u) + LastOf(r, n)
           /\ LongToken(u \o r, Len(u) + n) = LongToken(r, n)
<1> DEFINE k == Len(u)
           t == u \o r
<1>1. /\ t \in Text /\ Len(t) = k + Len(r) /\ k \in Nat /\ Len(r) \in Nat
      /\ \A m \in 1 .. Len(r) : t[k + m] = r[m]
  BY BehindIs
<1> HIDE DEF k, t
<1>2. k + n \in 1 .. Len(t) /\ t[k + n] = r[n] /\ n \in Nat
  BY <1>1
<1>3. \A m \in n + 1 .. Len(r) : m \in Stops(r, n) <=> k + m \in Stops(t, k + n)
  <2> SUFFICES ASSUME NEW m \in n + 1 .. Len(r)
               PROVE  m \in Stops(r, n) <=> k + m \in Stops(t, k + n)
    OBVIOUS
  <2>1. m \in 1 .. Len(r) /\ k + m \in (k + n) + 1 .. Len(t)
    BY <1>1, <1>2
  <2>2. t[k + m] = r[m]
    BY <1>1, <2>1
  <2> QED
    BY <1>2, <2>1, <2>2 DEF Stops
<1>4. ASSUME NEW x \in Stops(t, k + n) PROVE x - k \in Stops(r, n) /\ k + (x - k) = x
  <2>1. x \in (k + n) + 1 .. Len(t)
    BY <1>4 DEF Stops
  <2>2. x - k \in n + 1 .. Len(r) /\ k + (x - k) = x
    BY <1>1, <1>2, <2>1
  <2> QED
    BY <1>3, <1>4, <2>2
<1>5. LastOf(t, k + n) = k + LastOf(r, n)
  <2>1. CASE Stops(r, n) = {}
    <3>1. Stops(t, k + n) = {}
      BY <1>4, <2>1
    <3> QED
      BY <1>1, <2>1, <3>1 DEF LastOf
  <2>2. CASE Stops(r, n) # {}
    <3>1. Stops(r, n) \in SUBSET Nat /\ Stops(r, n) \subseteq n + 1 .. Len(r)
      BY <1>1, <1>2 DEF Stops
    <3>2. PICK x \in Stops(r, n) : \A y \in Stops(r, n) : x <= y
      BY <2>2, <3>1, LeastIn
    <3>3. Min(Stops(r, n)) = x
      BY <3>2, LastOfIs
    <3>4. k + x \in Stops(t, k + n)
      BY <1>3, <3>1, <3>2
    <3>5. ASSUME NEW y \in Stops(t, k + n) PROVE k + x <= y
      <4>1. x <= y - k /\ k + (y - k) = y /\ y - k \in Nat /\ x \in Nat
        BY <1>4, <3>1, <3>2
      <4>2. y \in Nat
        BY <1>1, <1>2 DEF Stops
      <4> QED
        BY <1>1, <4>1, <4>2
    <3>6. Min(Stops(t, k + n)) = k + x
      BY <1>1, <1>2, <3>4, <3>5, LastOfIs
    <3>7. Stops(t, k + n) # {}
      BY <3>4
    <3>8. x \in Nat
      BY <3>1
    <3>9. (k + x) - 1 = k + (x - 1)
      BY <1>1, <3>8
    <3>10. LastOf(t, k + n) = IF Starts(r[n]) = "quoted" THEN k + x ELSE (k + x) - 1
      BY <1>2, <3>6, <3>7 DEF LastOf
    <3>11. LastOf(r, n) = IF Starts(r[n]) = "quoted" THEN x ELSE x - 1
      BY <2>2, <3>3 DEF LastOf
    <3>12. CASE Starts(r[n]) = "quoted"
      BY <3>10, <3>11, <3>12
    <3>13. CASE Starts(r[n]) # "quoted"
      BY <3>9, <3>10, <3>11, <3>13
    <3> QED
      BY <3>12, <3>13
  <2> QED
    BY <2>1, <2>2
<1>6. SubSeq(t, k + n, LastOf(t, k + n)) = SubSeq(r, n, LastOf(r, n))
  <2> DEFINE l == LastOf(r, n)
             v == SubSeq(t, k + n, k + l)
             w == SubSeq(r, n, l)
  <2>1. l \in n .. Len(r)
    BY LastOfIs
  <2> HIDE DEF l
  <2>2. /\ w \in Seq(Chars) /\ Len(w) = l - n + 1
        /\ \A i \in 1 .. l - n + 1 : w[i] = r[n + i - 1]
    BY <1>1, <1>2, <2>1, SubSeqProperties DEF Text
  <2>3. k + n \in 1 .. Len(t) /\ k + l \in k + n .. Len(t) /\ (k + l) - (k + n) + 1 = l - n + 1
    BY <1>1, <1>2, <2>1
  <2>4. /\ v \in Seq(Chars) /\ Len(v) = l - n + 1
        /\ \A i \in 1 .. l - n + 1 : v[i] = t[k + n + i - 1]
    BY <1>1, <1>2, <2>3, SubSeqProperties DEF Text
  <2>5. ASSUME NEW i \in 1 .. l - n + 1 PROVE v[i] = w[i]
    <3>1. n + i - 1 \in 1 .. Len(r) /\ k + n + i - 1 = k + (n + i - 1)
      BY <1>1, <1>2, <2>1
    <3> QED
      BY <1>1, <2>2, <2>4, <3>1
  <2> HIDE DEF v, w
  <2>6. v = w
    BY <2>2, <2>4, <2>5, SeqEqual
  <2> QED
    BY <1>5, <2>6 DEF l, v, w
<1>7. Stops(t, k + n) = {} <=> Stops(r, n) = {}
  <2>1. Stops(r, n) \subseteq n + 1 .. Len(r)
    BY DEF Stops
  <2> QED
    BY <1>3, <1>4, <2>1
<1>8. LongToken(t, k + n) = LongToken(r, n)
  BY <1>2, <1>6, <1>7 DEF LongToken
<1> QED
  BY <1>5, <1>8 DEF k, t

LEMMA TokensBehind ==
    ASSUME NEW u \in Text, NEW r \in Text
    PROVE  TokensOf(u \o r)[Len(u) + 1] = Scan(r)
<1> DEFINE k == Len(u)
           t == u \o r
           L == Len(r)
           S == {m \in 1 .. L + 1 : TokensOf(t)[k + m] = TokensOf(r)[m]}
<1>1. /\ t \in Text /\ Len(t) = k + L /\ k \in Nat /\ L \in Nat
      /\ \A m \in 1 .. L : t[k + m] = r[m]
  BY BehindIs
<1>2. \A m \in 1 .. L :
          LastOf(t, k + m) = k + LastOf(r, m) /\ LongToken(t, k + m) = LongToken(r, m)
  BY LongTokenBehind
<1>3. \A m \in 1 .. L : LastOf(r, m) \in m .. L
  BY LastOfIs
<1>4. \A m \in 1 .. L + 1 : TokensOf(r)[m] = Body(r, TokensOf(r), m)
  BY TokensOfUnfolds
<1>5. \A m \in 1 .. Len(t) + 1 : TokensOf(t)[m] = Body(t, TokensOf(t), m)
  <2> HIDE DEF t
  <2> QED
    BY <1>1, TokensOfUnfolds
<1>a. L = Len(r)
  OBVIOUS
<1> HIDE DEF k, t, L
<1>6. ASSUME NEW m \in 1 .. L + 1, \A j \in m + 1 .. L + 1 : j \in S
      PROVE  m \in S
  <2>1. k + m \in 1 .. Len(t) + 1 /\ (k + m > Len(t) <=> m > L) /\ m \in Nat
    BY <1>1
  <2>2. TokensOf(t)[k + m] = Body(t, TokensOf(t), k + m) /\ TokensOf(r)[m] = Body(r, TokensOf(r), m)
    BY <1>4, <1>5, <2>1
  <2>3. CASE m > L
    <3>1. Body(t, TokensOf(t), k + m) = <<>>
      BY <2>1, <2>3 DEF Body
    <3>2. Body(r, TokensOf(r), m) = <<>>
      BY <1>a, <2>3 DEF Body
    <3> QED
      BY <2>2, <3>1, <3>2
  <2>4. CASE ~(m > L)
    <3>1. m \in 1 .. L /\ m + 1 \in m + 1 .. L + 1 /\ k + m + 1 = k + (m + 1)
      BY <1>1, <2>1, <2>4
    <3>2. t[k + m] = r[m]
      BY <1>1, <3>1
    <3>3. TokensOf(t)[k + m + 1] = TokensOf(r)[m + 1]
      <4>1. m + 1 \in S
        <5> HIDE DEF S
        <5> QED
          BY <1>6, <3>1
      <4> QED
        BY <3>1, <4>1
    <3> DEFINE l == LastOf(r, m)
    <3>4. l \in m .. L
      BY <1>3, <3>1
    <3>5. LastOf(t, k + m) = k + l /\ LongToken(t, k + m) = LongToken(r, m)
      BY <1>2, <3>1
    <3> HIDE DEF l
    <3>6. l + 1 \in m + 1 .. L + 1 /\ k + l + 1 = k + (l + 1)
      BY <1>1, <2>1, <3>4
    <3>7. TokensOf(t)[k + l + 1] = TokensOf(r)[l + 1]
      <4>1. l + 1 \in S
        <5> HIDE DEF S
        <5> QED
          BY <1>6, <3>6
      <4> QED
        BY <3>6, <4>1
    <3>8. Body(t, TokensOf(t), k + m) =
              IF r[m] \in Blanks THEN TokensOf(r)[m + 1]
              ELSE IF r[m] = "\n" THEN <<LineEnd>> \o TokensOf(r)[m + 1]
              ELSE IF r[m] \in Punctuation THEN <<Mark(r[m])>> \o TokensOf(r)[m + 1]
              ELSE <<LongToken(r, m)>> \o TokensOf(r)[l + 1]
      BY <2>1, <2>4, <3>2, <3>3, <3>5, <3>7 DEF Body
    <3>9. Body(r, TokensOf(r), m) =
              IF r[m] \in Blanks THEN TokensOf(r)[m + 1]
              ELSE IF r[m] = "\n" THEN <<LineEnd>> \o TokensOf(r)[m + 1]
              ELSE IF r[m] \in Punctuation THEN <<Mark(r[m])>> \o TokensOf(r)[m + 1]
              ELSE <<LongToken(r, m)>> \o TokensOf(r)[l + 1]
      BY <1>a, <2>4 DEF Body, l
    <3> QED
      BY <2>2, <3>8, <3>9
  <2> QED
    BY <2>3, <2>4
<1>7. 1 \in 1 .. L + 1 /\ L + 1 \in Nat
  BY <1>1
<1>8. \A m \in 1 .. L + 1 : m \in S
  <2> HIDE DEF S
  <2> QED
    BY <1>6, <1>7, Downward
<1>9. 1 \in S
  <2> HIDE DEF S
  <2> QED
    BY <1>7, <1>8
<1> QED
  BY <1>9 DEF k, t, Scan

(* One character in front of a text.                                       *)
LEMMA OneInFront ==
    ASSUME NEW c \in Chars, NEW r \in Text
    PROVE  /\ <<c>> \in Text /\ Len(<<c>>) = 1 /\ <<c>>[1] = c /\ <<c>> # <<>>
           /\ <<c>> \o r \in Text /\ Len(<<c>> \o r) = 1 + Len(r) /\ Len(r) \in Nat
           /\ (<<c>> \o r)[1] = c /\ <<c>> \o r # <<>>
           /\ \A n \in 1 .. Len(r) : (<<c>> \o r)[1 + n] = r[n]
<1>1. <<c>> \in Text
  BY SmallSeqs DEF Text
<1>2. Len(<<c>>) = 1 /\ <<c>>[1] = c /\ <<c>> # <<>>
  OBVIOUS
<1> DEFINE u == <<c>>
           t == u \o r
<1>3. u \in Text /\ Len(u) = 1 /\ u[1] = c
  BY <1>1, <1>2
<1>4. u \in Text
  BY <1>1
<1> HIDE DEF u
<1>5. /\ t \in Text /\ Len(t) = Len(u) + Len(r) /\ Len(r) \in Nat
      /\ \A n \in 1 .. Len(u) : t[n] = u[n]
      /\ \A n \in 1 .. Len(r) : t[Len(u) + n] = r[n]
  BY <1>4, BehindIs
<1> HIDE DEF t
<1>6. /\ Len(t) = 1 + Len(r)
      /\ t[1] = c
      /\ \A n \in 1 .. Len(r) : t[1 + n] = r[n]
  <2>1. 1 \in 1 .. Len(u)
    BY <1>3
  <2> QED
    BY <1>3, <1>5, <2>1
<1>7. t # <<>>
  <2>1. Len(t) # 0
    BY <1>5, <1>6
  <2> QED
    BY <2>1
<1> QED
  BY <1>1, <1>2, <1>5, <1>6, <1>7 DEF t, u

(* One character that is a token or none.                                  *)
LEMMA ScanOne ==
    ASSUME NEW c \in Chars, NEW r \in Text
    PROVE  /\ c \in Blanks => Scan(<<c>> \o r) = Scan(r)
           /\ c = "\n" => Scan(<<c>> \o r) = <<LineEnd>> \o Scan(r)
           /\ c \in Punctuation => Scan(<<c>> \o r) = <<Mark(c)>> \o Scan(r)
           /\ <<c>> \o r \in Text
<1> DEFINE u == <<c>>
           t == u \o r
<1>1. u \in Text /\ Len(u) = 1
  BY OneInFront
<1>2. t \in Text /\ Len(t) = 1 + Len(r) /\ Len(r) \in Nat /\ t[1] = c
  BY OneInFront
<1> HIDE DEF u
<1>3. TokensOf(t)[1 + 1] = Scan(r)
  BY <1>1, TokensBehind
<1> HIDE DEF t
<1>4. 1 \in 1 .. Len(t) + 1 /\ ~(1 > Len(t))
  BY <1>2
<1>5. Scan(t) = Body(t, TokensOf(t), 1)
  BY <1>2, <1>4, TokensOfUnfolds DEF Scan
<1>6. "\n" \notin Blanks /\ \A x \in Punctuation : x \notin Blanks /\ x # "\n"
  BY DEF Blanks, Punctuation
<1> QED
  BY <1>2, <1>3, <1>4, <1>5, <1>6 DEF Body, t, u

(* The first character that ends a long token.                             *)
LEMMA FirstStop ==
    ASSUME NEW t \in Text, NEW k \in 2 .. Len(t), t[k] \in Ends[Starts(t[1])],
           \A m \in 2 .. k - 1 : t[m] \notin Ends[Starts(t[1])]
    PROVE  Stops(t, 1) # {} /\ Min(Stops(t, 1)) = k
<1>1. Len(t) \in Nat /\ 1 \in 1 .. Len(t) /\ k \in Nat
  BY DEF Text
<1>2. k \in Stops(t, 1)
  BY <1>1 DEF Stops
<1>3. ASSUME NEW m \in Stops(t, 1) PROVE k <= m
  <2>1. m \in 2 .. Len(t) /\ t[m] \in Ends[Starts(t[1])]
    BY <1>3 DEF Stops
  <2>2. m \notin 2 .. k - 1
    BY <2>1
  <2> QED
    BY <1>1, <2>1, <2>2
<1>4. Min(Stops(t, 1)) = k
  BY <1>1, <1>2, <1>3, LastOfIs
<1> QED
  BY <1>2, <1>4

(* A long token in front of others.                                        *)
LEMMA ScanLong ==
    ASSUME NEW w \in Text, w # <<>>, w[1] \notin Blanks \cup {"\n"} \cup Punctuation,
           NEW r \in Text, Stops(w \o r, 1) # {}, LastOf(w \o r, 1) = Len(w)
    PROVE  Scan(w \o r) = <<IF w[1] = "#" THEN Remark(w) ELSE Word(w)>> \o Scan(r)
<1> DEFINE t == w \o r
           k == Len(w)
           part == SubSeq(t, 1, k)
<1>1. /\ t \in Text /\ Len(t) = k + Len(r) /\ k \in Nat /\ Len(r) \in Nat
      /\ \A n \in 1 .. k : t[n] = w[n]
  BY BehindIs
<1>2. k # 0
  BY DEF Text
<1>3. TokensOf(t)[k + 1] = Scan(r)
  BY TokensBehind
<1>a. LastOf(t, 1) = k /\ Stops(t, 1) # {}
  OBVIOUS
<1>b. w \in Seq(Chars) /\ Len(w) = k
  BY DEF Text
<1> HIDE DEF t, k
<1>4. 1 \in 1 .. k /\ 1 \in 1 .. Len(t) + 1 /\ ~(1 > Len(t)) /\ t[1] = w[1]
  BY <1>1, <1>2
<1>5. Scan(t) = <<LongToken(t, 1)>> \o TokensOf(t)[LastOf(t, 1) + 1]
  <2>1. Scan(t) = Body(t, TokensOf(t), 1)
    BY <1>1, <1>4, TokensOfUnfolds DEF Scan
  <2> QED
    BY <1>4, <2>1 DEF Body
<1>6. part = w
  <2>1. 1 \in 1 .. Len(t) /\ k \in 1 .. Len(t) /\ k - 1 + 1 = k
    BY <1>1, <1>2
  <2>2. part \in Seq(Chars) /\ Len(part) = k /\ \A i \in 1 .. k : part[i] = t[1 + i - 1]
    BY <1>1, <2>1, SubSeqProperties DEF Text
  <2> HIDE DEF part
  <2>3. ASSUME NEW i \in 1 .. k PROVE part[i] = w[i]
    <3>1. 1 + i - 1 = i
      BY <1>1
    <3> QED
      BY <1>1, <2>2, <3>1
  <2> QED
    BY <1>b, <2>2, <2>3, SeqEqual
<1> HIDE DEF part
<1>7. LongToken(t, 1) = [type |-> IF w[1] = "#" THEN "comment" ELSE "string", string |-> w \o <<>>]
  BY <1>4, <1>6, <1>a DEF LongToken, part
<1>8. w \o <<>> = w
  BY <1>b
<1>9. LongToken(t, 1) = IF w[1] = "#" THEN Remark(w) ELSE Word(w)
  BY <1>7, <1>8 DEF Remark, Word
<1> QED
  BY <1>3, <1>5, <1>9, <1>a DEF t

(* A string without quotes, in front of a character that ends it,          *)
LEMMA ScanPlain ==
    ASSUME NEW w \in Text, Plain(w), NEW r \in Text, r # <<>>, r[1] \in Ends.unquoted
    PROVE  Scan(w \o r) = <<Word(w)>> \o Scan(r)
<1> DEFINE t == w \o r
           k == Len(w)
<1>1. /\ t \in Text /\ Len(t) = k + Len(r) /\ k \in Nat /\ Len(r) \in Nat
      /\ \A n \in 1 .. k : t[n] = w[n]
      /\ \A n \in 1 .. Len(r) : t[k + n] = r[n]
  BY BehindIs
<1>2. k # 0 /\ Len(r) # 0 /\ DOMAIN w = 1 .. k
  <2>1. w # <<>>
    BY DEF Plain
  <2>2. w \in Seq(Chars) /\ r \in Seq(Chars)
    BY DEF Text
  <2> HIDE DEF t
  <2> QED
    BY <2>1, <2>2
<1>3. w # <<>> /\ w[1] \notin Punctuation \cup {"#", "\""} /\ \A n \in 1 .. k : w[n] \notin Ends.unquoted
  BY <1>2 DEF Plain
<1> HIDE DEF t, k
<1>4. 1 \in 1 .. k /\ t[1] = w[1] /\ 1 \in 1 .. Len(r) /\ t[k + 1] = r[1] /\ k + 1 \in 2 .. Len(t)
  BY <1>1, <1>2
<1>5. Starts(t[1]) = "unquoted"
  BY <1>3, <1>4 DEF Starts
<1>6. Ends["unquoted"] = Ends.unquoted /\ Blanks \cup {"\n"} \subseteq Ends.unquoted
  BY DEF Ends, LineEnds
<1>7. Stops(t, 1) # {} /\ Min(Stops(t, 1)) = k + 1
  <2>1. \A m \in 2 .. (k + 1) - 1 : t[m] \notin Ends[Starts(t[1])]
    <3>1. \A m \in 2 .. (k + 1) - 1 : m \in 1 .. k
      BY <1>1
    <3> QED
      BY <1>1, <1>3, <1>5, <1>6, <3>1
  <2> QED
    BY <1>1, <1>4, <1>5, <1>6, <2>1, FirstStop
<1>8. LastOf(t, 1) = k
  BY <1>1, <1>5, <1>7 DEF LastOf
<1>9. w[1] \notin Blanks \cup {"\n"} \cup Punctuation /\ w[1] # "#"
  BY <1>3, <1>4, <1>6
<1> QED
  BY <1>3, <1>7, <1>8, <1>9, ScanLong DEF t, k

(* one in quotes,                                                          *)
LEMMA QuotedIs ==
    ASSUME NEW s \in Text
    PROVE  /\ Quoted(s) \in Text /\ Len(Quoted(s)) = Len(s) + 2 /\ Len(s) \in Nat
           /\ Quoted(s) # <<>> /\ Quoted(s)[1] = "\"" /\ Quoted(s)[Len(s) + 2] = "\""
           /\ \A n \in 1 .. Len(s) : Quoted(s)[n + 1] = s[n]
<1> DEFINE c == "\""
           q == <<c>>
           u == q \o s
           w == u \o q
<1>1. c \in Chars
  BY CharsAssumption DEF Special
<1>a. Quoted(s) = w
  BY DEF Quoted
<1> HIDE DEF c
<1>2. /\ q \in Text /\ Len(q) = 1 /\ q[1] = c
      /\ u \in Text /\ Len(u) = 1 + Len(s) /\ Len(s) \in Nat /\ u[1] = c
      /\ \A n \in 1 .. Len(s) : u[1 + n] = s[n]
  BY <1>1, OneInFront
<1>b. q \in Text /\ u \in Text
  BY <1>2
<1> HIDE DEF q, u
<1>3. /\ w \in Text /\ Len(w) = Len(u) + Len(q)
      /\ \A n \in 1 .. Len(u) : w[n] = u[n]
      /\ \A n \in 1 .. Len(q) : w[Len(u) + n] = q[n]
  BY <1>b, BehindIs
<1> HIDE DEF w
<1>4. Len(u) + 1 = Len(s) + 2 /\ 1 \in 1 .. Len(q) /\ 1 \in 1 .. Len(u)
  BY <1>2
<1>5. w[1] = c /\ w[Len(s) + 2] = c /\ Len(w) = Len(s) + 2
  BY <1>2, <1>3, <1>4
<1>6. \A n \in 1 .. Len(s) : w[n + 1] = s[n]
  <2>1. \A n \in 1 .. Len(s) : n + 1 \in 1 .. Len(u) /\ 1 + n = n + 1
    BY <1>2
  <2> QED
    BY <1>2, <1>3, <2>1
<1>7. w # <<>>
  <2>1. Len(w) # 0
    BY <1>2, <1>5
  <2> QED
    BY <2>1
<1> QED
  BY <1>2, <1>3, <1>5, <1>6, <1>7, <1>a DEF c

LEMMA ScanQuoted ==
    ASSUME NEW s \in Text, \A n \in DOMAIN s : s[n] \notin Ends.quoted, NEW r \in Text
    PROVE  Scan(Quoted(s) \o r) = <<Word(Quoted(s))>> \o Scan(r)
<1> DEFINE w == Quoted(s)
           t == w \o r
           k == Len(s) + 2
<1>1. /\ w \in Text /\ Len(w) = k /\ Len(s) \in Nat /\ w # <<>>
      /\ w[1] = "\"" /\ w[k] = "\""
      /\ \A n \in 1 .. Len(s) : w[n + 1] = s[n]
  BY QuotedIs
<1>a. DOMAIN s = 1 .. Len(s)
  BY DEF Text
<1>b. w \in Text
  BY <1>1
<1> HIDE DEF w
<1>c. /\ t \in Text /\ Len(t) = Len(w) + Len(r) /\ Len(r) \in Nat
      /\ \A n \in 1 .. Len(w) : t[n] = w[n]
  BY <1>b, BehindIs
<1> HIDE DEF t
<1>2. /\ t \in Text /\ Len(t) = k + Len(r) /\ Len(r) \in Nat
      /\ \A n \in 1 .. k : t[n] = w[n]
  BY <1>1, <1>c
<1>d. k \in Nat /\ k = Len(s) + 2 /\ Len(s) \in Nat
  <2>1. Len(s) \in Nat
    BY DEF Text
  <2> QED
    BY <2>1
<1>3. /\ 1 \in 1 .. k /\ k \in 1 .. k /\ k \in 2 .. Len(t)
      /\ \A m \in 2 .. k - 1 : m \in 1 .. k /\ m - 1 \in 1 .. Len(s) /\ (m - 1) + 1 = m
  <2> HIDE DEF k
  <2>1. 1 \in 1 .. k /\ k \in 1 .. k /\ k \in 2 .. Len(t)
    BY <1>2, <1>d
  <2>2. ASSUME NEW m \in 2 .. k - 1
        PROVE  m \in 1 .. k /\ m - 1 \in 1 .. Len(s) /\ (m - 1) + 1 = m
    BY <1>d
  <2> QED
    BY <2>1, <2>2
<1>4. t[1] = "\"" /\ t[k] = "\"" /\ \A m \in 2 .. k - 1 : t[m] = s[m - 1]
  BY <1>1, <1>2, <1>3
<1>5. Starts(t[1]) = "quoted" /\ Ends["quoted"] = Ends.quoted /\ "\"" \in Ends.quoted
  BY <1>4 DEF Starts, Ends
<1>6. Stops(t, 1) # {} /\ Min(Stops(t, 1)) = k
  <2>1. \A m \in 2 .. k - 1 : t[m] \notin Ends[Starts(t[1])]
    BY <1>3, <1>4, <1>5, <1>a
  <2>2. t[k] \in Ends[Starts(t[1])]
    BY <1>4, <1>5
  <2> HIDE DEF k
  <2> QED
    BY <1>2, <1>3, <2>1, <2>2, FirstStop
<1>7. LastOf(t, 1) = k
  BY <1>5, <1>6 DEF LastOf
<1>8. w[1] \notin Blanks \cup {"\n"} \cup Punctuation /\ w[1] # "#"
  BY <1>1 DEF Blanks, Punctuation
<1> QED
  BY <1>1, <1>6, <1>7, <1>8, ScanLong DEF t, w

(* and a comment.                                                          *)
LEMMA ScanComment ==
    ASSUME NEW r \in Text
    PROVE  Scan(<<"#">> \o (<<"\n">> \o r)) = <<Remark(<<"#">>)>> \o (<<LineEnd>> \o Scan(r))
<1> DEFINE w == <<"#">>
           n == <<"\n">> \o r
           t == w \o n
<1>1. "#" \in Chars /\ "\n" \in Chars
  BY CharsAssumption DEF Special, LineEnds
<1>2. Scan(n) = <<LineEnd>> \o Scan(r)
  BY <1>1, ScanOne
<1>3. n \in Text /\ n[1] = "\n" /\ Len(n) = 1 + Len(r) /\ Len(r) \in Nat
  BY <1>1, OneInFront
<1>4. w \in Text /\ Len(w) = 1 /\ w[1] = "#" /\ w # <<>>
  BY <1>1, OneInFront
<1>5. /\ t \in Text /\ Len(t) = 1 + Len(n) /\ t[1] = "#"
      /\ \A i \in 1 .. Len(n) : t[1 + i] = n[i]
  <2> HIDE DEF n
  <2> QED
    BY <1>1, <1>3, OneInFront
<1> HIDE DEF w, n, t
<1>6. t[1] = "#" /\ t[2] = "\n" /\ 2 \in 2 .. Len(t)
  <2>1. 1 \in 1 .. Len(n) /\ 1 + 1 = 2
    BY <1>3
  <2> QED
    BY <1>3, <1>5, <2>1
<1>7. Starts(t[1]) = "comment" /\ "\n" \in Ends["comment"]
  BY <1>6 DEF Starts, Ends, LineEnds
<1>8. Stops(t, 1) # {} /\ Min(Stops(t, 1)) = 2
  <2>1. \A m \in 2 .. 2 - 1 : t[m] \notin Ends[Starts(t[1])]
    OBVIOUS
  <2> QED
    BY <1>5, <1>6, <1>7, <2>1, FirstStop
<1>9. LastOf(t, 1) = 1
  BY <1>7, <1>8 DEF LastOf
<1>10. w[1] \notin Blanks \cup {"\n"} \cup Punctuation
  BY <1>4 DEF Blanks, Punctuation
<1>11. Scan(t) = <<Remark(w)>> \o Scan(n)
  BY <1>3, <1>4, <1>8, <1>9, <1>10, ScanLong DEF t
<1> QED
  BY <1>2, <1>11 DEF t, n, w

-----------------------------------------------------------------------------
(* Text behind text.                                                       *)
LEMMA TextIs ==
    /\ \A r, s \in Text : r \o s \in Text
    /\ \A r, s, u \in Text : (r \o s) \o u = r \o (s \o u)
    /\ \A r \in Text : r \o <<>> = r /\ <<>> \o r = r
    /\ <<>> \in Text /\ \A x \in Chars : <<x>> \in Text
<1>1. ASSUME NEW r \in Text, NEW s \in Text PROVE r \o s \in Text
  BY Joined DEF Text
<1>2. ASSUME NEW r \in Text, NEW s \in Text, NEW u \in Text PROVE (r \o s) \o u = r \o (s \o u)
  BY Joined DEF Text
<1>3. ASSUME NEW r \in Text PROVE r \o <<>> = r /\ <<>> \o r = r
  BY Joined DEF Text
<1>4. <<>> \in Text /\ \A x \in Chars : <<x>> \in Text
  BY SmallSeqs DEF Text
<1> QED
  BY <1>1, <1>2, <1>3, <1>4

(* Two or three characters are one character and others.                   *)
LEMMA PairOf ==
    ASSUME NEW x \in Chars, NEW y \in Chars, NEW s \in Text
    PROVE  <<x, y>> \in Text /\ <<x, y>> \o s = <<x>> \o (<<y>> \o s)
<1>1. <<x, y>> \in Text
  BY DEF Text
<1>a. <<x, y>> = <<x>> \o <<y>>
  <2>1. <<x, y>> = Append(<<x>>, y) /\ <<x>> \in Seq(Chars)
    OBVIOUS
  <2>2. \A r \in Seq(Chars) : Append(r, y) = r \o <<y>>
    BY AppendIsConcat
  <2> QED
    BY <2>1, <2>2
<1>2. <<x>> \in Text /\ <<y>> \in Text
  BY TextIs
<1> DEFINE p == <<x>>
           q == <<y>>
<1> HIDE DEF p, q
<1>3. (p \o q) \o s = p \o (q \o s)
  BY <1>2, TextIs DEF p, q
<1> QED
  BY <1>1, <1>a, <1>3 DEF p, q

LEMMA TripleOf ==
    ASSUME NEW x \in Chars, NEW y \in Chars, NEW z \in Chars, NEW s \in Text
    PROVE  <<x, y, z>> \in Text /\ <<x, y, z>> \o s = <<x>> \o (<<y>> \o (<<z>> \o s))
<1>1. <<x, y, z>> \in Text
  BY DEF Text
<1>a. <<x, y, z>> = <<x, y>> \o <<z>>
  <2>1. <<x, y, z>> = Append(<<x, y>>, z) /\ <<x, y>> \in Seq(Chars)
    OBVIOUS
  <2>2. \A r \in Seq(Chars) : Append(r, z) = r \o <<z>>
    BY AppendIsConcat
  <2> QED
    BY <2>1, <2>2
<1>2. <<x, y>> \in Text /\ <<z>> \in Text
  BY TextIs, PairOf
<1> DEFINE p == <<x, y>>
           q == <<z>>
           u == q \o s
<1>3. (p \o q) \o s = p \o u
  <2> HIDE DEF p, q
  <2> QED
    BY <1>2, TextIs DEF p, q
<1>4. u \in Text
  <2> HIDE DEF q
  <2> QED
    BY <1>2, TextIs DEF q
<1> HIDE DEF u
<1>5. p \o u = <<x>> \o (<<y>> \o u)
  BY <1>4, PairOf
<1> QED
  BY <1>1, <1>a, <1>3, <1>5 DEF u

(* What stands between the strings is text,                                *)
LEMMA MarksAreText ==
    /\ NewLine \in Text /\ Hash \in Text /\ Gap \in Text /\ Assign \in Text
    /\ Between \in Text /\ ListEnd \in Text /\ HeadEnd \in Text /\ Foot \in Text
<1>1. \A c \in {"\n", "#", " ", "=", ",", ";", "{", "}"} : c \in Chars
  BY CharsAssumption DEF Special, Punctuation, Blanks, LineEnds
<1>2. <<>> \in Text
  BY TextIs
<1> QED
  BY <1>1, <1>2, TextIs, PairOf, TripleOf DEF NewLine, Hash, Gap, Assign, Between, ListEnd, HeadEnd, Foot

(* The same character by character.                                        *)
LEMMA MarksOpen ==
    ASSUME NEW r \in Text
    PROVE  /\ NewLine \o r = <<"\n">> \o r
           /\ Hash \o r = <<"#">> \o r
           /\ Gap \o r = <<" ">> \o r
           /\ Assign \o r = <<" ">> \o (<<"=">> \o (<<" ">> \o r))
           /\ Between \o r = <<",">> \o (<<" ">> \o r)
           /\ ListEnd \o r = <<";">> \o (<<"\n">> \o r)
           /\ HeadEnd \o r = <<" ">> \o (<<"{">> \o (<<"\n">> \o r))
           /\ Foot \o r = <<"}">> \o (<<"\n">> \o r)
<1>1. \A c \in {"\n", "#", " ", "=", ",", ";", "{", "}"} : c \in Chars
  BY CharsAssumption DEF Special, Punctuation, Blanks, LineEnds
<1>2. \A x, y \in Chars : <<x, y>> \o r = <<x>> \o (<<y>> \o r)
  BY PairOf
<1>3. \A x, y, z \in Chars : <<x, y, z>> \o r = <<x>> \o (<<y>> \o (<<z>> \o r))
  BY TripleOf
<1>4. /\ "\n" \in Chars /\ "#" \in Chars /\ " " \in Chars /\ "=" \in Chars
      /\ "," \in Chars /\ ";" \in Chars /\ "{" \in Chars /\ "}" \in Chars
  BY <1>1
<1>5. Assign \o r = <<" ">> \o (<<"=">> \o (<<" ">> \o r))
  <2>1. \A z \in Chars : <<" ", "=", z>> \o r = <<" ">> \o (<<"=">> \o (<<z>> \o r))
    BY <1>3, <1>4, Zenon
  <2> QED
    BY <1>4, <2>1, Zenon DEF Assign
<1>6. HeadEnd \o r = <<" ">> \o (<<"{">> \o (<<"\n">> \o r))
  <2>1. \A z \in Chars : <<" ", "{", z>> \o r = <<" ">> \o (<<"{">> \o (<<z>> \o r))
    BY <1>3, <1>4, Zenon
  <2> QED
    BY <1>4, <2>1, Zenon DEF HeadEnd
<1>7. Between \o r = <<",">> \o (<<" ">> \o r)
  BY <1>2, <1>4, Zenon DEF Between
<1>8. ListEnd \o r = <<";">> \o (<<"\n">> \o r)
  BY <1>2, <1>4, Zenon DEF ListEnd
<1>9. Foot \o r = <<"}">> \o (<<"\n">> \o r)
  BY <1>2, <1>4, Zenon DEF Foot
<1> QED
  BY <1>5, <1>6, <1>7, <1>8, <1>9, Zenon DEF NewLine, Hash, Gap

(* and this is how the scanner takes it.                                   *)
LEMMA ScanMarks ==
    ASSUME NEW r \in Text
    PROVE  /\ Scan(NewLine \o r) = <<LineEnd>> \o Scan(r)
           /\ Scan(Hash \o (NewLine \o r)) = <<Remark(Hash)>> \o (<<LineEnd>> \o Scan(r))
           /\ Scan(Gap \o r) = Scan(r)
           /\ Scan(Assign \o r) = <<Mark("=")>> \o Scan(r)
           /\ Scan(Between \o r) = <<Mark(",")>> \o Scan(r)
           /\ Scan(ListEnd \o r) = <<Mark(";")>> \o (<<LineEnd>> \o Scan(r))
           /\ Scan(HeadEnd \o r) = <<Mark("{")>> \o (<<LineEnd>> \o Scan(r))
           /\ Scan(Foot \o r) = <<Mark("}")>> \o (<<LineEnd>> \o Scan(r))
<1>1. \A c \in {"\n", "#", " ", "=", ",", ";", "{", "}"} : c \in Chars
  BY CharsAssumption DEF Special, Punctuation, Blanks, LineEnds
<1>2. ASSUME NEW s \in Text
      PROVE  /\ \A c \in {"\n", " ", "=", ",", ";", "{", "}"} : <<c>> \o s \in Text
             /\ Scan(<<"\n">> \o s) = <<LineEnd>> \o Scan(s)
             /\ Scan(<<" ">> \o s) = Scan(s)
             /\ \A c \in {"=", ",", ";", "{", "}"} : Scan(<<c>> \o s) = <<Mark(c)>> \o Scan(s)
  <2>1. " " \in Blanks /\ \A c \in {"=", ",", ";", "{", "}"} : c \in Punctuation
    BY DEF Blanks, Punctuation
  <2> QED
    BY <1>1, <2>1, ScanOne
<1> DEFINE line == <<"\n">> \o r
           gap == <<" ">> \o r
<1>3. line \in Text /\ gap \in Text /\ Scan(line) = <<LineEnd>> \o Scan(r) /\ Scan(gap) = Scan(r)
  BY <1>2
<1>a. NewLine \o r = line /\ Gap \o r = gap /\ Hash \o (NewLine \o r) = <<"#">> \o line
  BY MarksOpen DEF NewLine, Gap, Hash
<1>b. /\ Assign \o r = <<" ">> \o (<<"=">> \o gap)
      /\ Between \o r = <<",">> \o gap
      /\ ListEnd \o r = <<";">> \o line
      /\ HeadEnd \o r = <<" ">> \o (<<"{">> \o line)
      /\ Foot \o r = <<"}">> \o line
  BY MarksOpen
<1>c. Scan(<<"#">> \o line) = <<Remark(Hash)>> \o (<<LineEnd>> \o Scan(r))
  BY ScanComment DEF Hash
<1> HIDE DEF line, gap
<1>4. Scan(Between \o r) = <<Mark(",")>> \o Scan(r)
  BY <1>2, <1>3, <1>b
<1>5. /\ Scan(ListEnd \o r) = <<Mark(";")>> \o (<<LineEnd>> \o Scan(r))
      /\ Scan(Foot \o r) = <<Mark("}")>> \o (<<LineEnd>> \o Scan(r))
  <2>1. Scan(<<";">> \o line) = <<Mark(";")>> \o Scan(line)
    BY <1>2, <1>3
  <2>2. Scan(<<"}">> \o line) = <<Mark("}")>> \o Scan(line)
    BY <1>2, <1>3
  <2> QED
    BY <1>3, <1>b, <2>1, <2>2
<1>6. Scan(Assign \o r) = <<Mark("=")>> \o Scan(r)
  <2>1. <<"=">> \o gap \in Text /\ Scan(<<"=">> \o gap) = <<Mark("=")>> \o Scan(r)
    BY <1>2, <1>3
  <2> QED
    BY <1>2, <1>b, <2>1
<1>7. Scan(HeadEnd \o r) = <<Mark("{")>> \o (<<LineEnd>> \o Scan(r))
  <2>1. <<"{">> \o line \in Text /\ Scan(<<"{">> \o line) = <<Mark("{")>> \o (<<LineEnd>> \o Scan(r))
    BY <1>2, <1>3
  <2> QED
    BY <1>2, <1>b, <2>1
<1> QED
  BY <1>3, <1>4, <1>5, <1>6, <1>7, <1>a, <1>c

LEMMA ScanNothing ==
    Scan(<<>>) = <<>>
<1>1. <<>> \in Text /\ 1 \in 1 .. Len(<<>>) + 1 /\ 1 > Len(<<>>)
  BY TextIs
<1> QED
  BY <1>1, TokensOfUnfolds DEF Scan, Body

(* Each of them but for the comma ends a string in front of it.            *)
LEMMA MarksEnd ==
    ASSUME NEW r \in Text
    PROVE  \A m \in {Gap, Assign, Between, ListEnd, HeadEnd} :
               m \o r \in Text /\ m \o r # <<>> /\ (m \o r)[1] \in Ends.unquoted
<1>1. \A c \in {"\n", " ", "=", ",", ";", "{"} : c \in Chars
  BY CharsAssumption DEF Special, Punctuation, Blanks, LineEnds
<1>2. \A c \in {" ", ",", ";"} : c \in Ends.unquoted
  BY DEF Ends, Blanks
<1>3. \A c \in {" ", ",", ";"}, s \in Text :
          <<c>> \o s \in Text /\ <<c>> \o s # <<>> /\ (<<c>> \o s)[1] \in Ends.unquoted
  <2> SUFFICES ASSUME NEW c \in {" ", ",", ";"}, NEW s \in Text
               PROVE  <<c>> \o s \in Text /\ <<c>> \o s # <<>> /\ (<<c>> \o s)[1] \in Ends.unquoted
    OBVIOUS
  <2>1. c \in Chars /\ c \in Ends.unquoted
    BY <1>1, <1>2
  <2>2. <<c>> \o s \in Text /\ <<c>> \o s # <<>> /\ (<<c>> \o s)[1] = c
    BY <2>1, OneInFront
  <2> QED
    BY <2>1, <2>2
<1>4. \A c \in {"\n", " ", "=", "{"}, s \in Text : <<c>> \o s \in Text
  BY <1>1, OneInFront
<1>5. /\ Gap \o r = <<" ">> \o r
      /\ Assign \o r = <<" ">> \o (<<"=">> \o (<<" ">> \o r))
      /\ Between \o r = <<",">> \o (<<" ">> \o r)
      /\ ListEnd \o r = <<";">> \o (<<"\n">> \o r)
      /\ HeadEnd \o r = <<" ">> \o (<<"{">> \o (<<"\n">> \o r))
  BY MarksOpen
<1>6. /\ <<" ">> \o r \in Text /\ <<"\n">> \o r \in Text
      /\ <<"=">> \o (<<" ">> \o r) \in Text /\ <<"{">> \o (<<"\n">> \o r) \in Text
  BY <1>4
<1>7. ASSUME NEW m, m = Gap \/ m = Assign \/ m = Between \/ m = ListEnd \/ m = HeadEnd
      PROVE  m \o r \in Text /\ m \o r # <<>> /\ (m \o r)[1] \in Ends.unquoted
  <2>1. \E c \in {" ", ",", ";"}, s \in Text : m \o r = <<c>> \o s
    BY <1>5, <1>6, <1>7
  <2> QED
    BY <1>3, <2>1
<1> QED
  BY <1>7

-----------------------------------------------------------------------------
(* Strings between quotes and without them.  The strings are all texts.    *)
LEMMA StringsAreText ==
    Strings = Text /\ EmptyString = <<>> /\ <<>> \in Strings
<1>1. Strings = Text /\ EmptyString = <<>>
  BY StringsAreTexts DEF Text
<1> QED
  BY <1>1, TextIs

LEMMA WrittenIs ==
    ASSUME NEW s \in Strings
    PROVE  /\ Written(s) \in Text
           /\ Written(s) = <<>> <=> Blank(s)
           /\ Blank(s) => Written(s) = <<>>
<1>1. s \in Text
  BY StringsAreText
<1>2. Quoted(s) \in Text /\ Quoted(s) # <<>>
  BY <1>1, QuotedIs
<1>3. Blank(s) => ~string_need_quotes(s)
  BY DEF Blank, string_need_quotes
<1> QED
  BY <1>1, <1>2, <1>3 DEF Written, Blank

(* A string that needs no quotes ends where another token may begin.       *)
LEMMA NormalIsPlain ==
    ASSUME NEW s \in Text, s # <<>>, ~string_need_quotes(s)
    PROVE  Plain(s)
<1>1. \A n \in DOMAIN s : s[n] \in Normal
  BY DEF string_need_quotes
<1>2. 1 \in DOMAIN s
  BY DEF Text
<1>3. \A c \in Normal : c \notin Punctuation \cup {"#", "\""} /\ c \notin Ends.unquoted
  BY CharsAssumption DEF Special, Ends, Punctuation
<1> QED
  BY <1>1, <1>2, <1>3 DEF Plain

(* What is written of a string is one token.                               *)
LEMMA ScanWritten ==
    ASSUME NEW s \in Strings, ~Blank(s), \A n \in DOMAIN s : s[n] \notin Ends.quoted,
           NEW r \in Text, r # <<>>, r[1] \in Ends.unquoted
    PROVE  /\ Scan(Written(s) \o r) = <<Word(Written(s))>> \o Scan(r)
           /\ Written(s) \in Text \ {<<>>}
<1>1. s \in Text /\ s # <<>>
  BY StringsAreText DEF Blank
<1>2. CASE string_need_quotes(s)
  <2>1. Scan(Quoted(s) \o r) = <<Word(Quoted(s))>> \o Scan(r)
    BY <1>1, ScanQuoted
  <2> QED
    BY <1>2, <2>1, WrittenIs DEF Written
<1>3. CASE ~string_need_quotes(s)
  <2>1. Plain(s)
    BY <1>1, <1>3, NormalIsPlain
  <2>2. Scan(s \o r) = <<Word(s)>> \o Scan(r)
    BY <1>1, <2>1, ScanPlain
  <2> QED
    BY <1>3, <2>2, WrittenIs DEF Written
<1> QED
  BY <1>2, <1>3

(* The parser takes off the quotes that the writer has set, and none from  *)
(* a key.                                                                  *)
LEMMA UnquotedPlain ==
    ASSUME NEW s, Plain(s)
    PROVE  Unquoted(s) = s
BY DEF Plain, Unquoted

LEMMA UnquotedIs ==
    ASSUME NEW s \in Strings, ~Blank(s)
    PROVE  Unquoted(Written(s)) = s
<1>1. s \in Text /\ s # <<>>
  BY StringsAreText DEF Blank
<1>2. CASE string_need_quotes(s)
  <2> DEFINE w == Quoted(s)
             k == Len(s) + 2
             part == SubSeq(w, 2, k - 1)
  <2>1. \A n \in 1 .. Len(s) : w[n + 1] = s[n]
    BY <1>1, QuotedIs
  <2>b. w \in Text /\ Len(w) = k /\ w[1] = "\"" /\ w[k] = "\""
    BY <1>1, QuotedIs
  <2>2. Len(s) \in Nat /\ Len(s) # 0
    BY <1>1 DEF Text
  <2>a. k \in Nat /\ k > 2 /\ k = Len(s) + 2
    BY <2>2
  <2> HIDE DEF w, k
  <2>3. Unquoted(w) = part
    <3>1. Len(w) > 1
      <4> HIDE DEF part
      <4>1. Len(w) = k
        BY <2>b
      <4> QED
        BY <2>a, <4>1
    <3> QED
      BY <2>b, <3>1 DEF Unquoted
  <2>4. /\ part \in Seq(Chars) /\ Len(part) = Len(s)
        /\ \A i \in 1 .. Len(s) : part[i] = w[2 + i - 1]
    <3> DEFINE l == k - 1
    <3>1. 2 \in 1 .. k /\ l \in 2 .. k /\ l - 2 + 1 = Len(s)
      BY <2>2, <2>a
    <3>2. 2 \in 1 .. Len(w) /\ l \in 2 .. Len(w)
      BY <2>b, <3>1
    <3> HIDE DEF l
    <3>3. /\ SubSeq(w, 2, l) \in Seq(Chars) /\ Len(SubSeq(w, 2, l)) = l - 2 + 1
          /\ \A i \in 1 .. l - 2 + 1 : SubSeq(w, 2, l)[i] = w[2 + i - 1]
      <4>1. w \in Seq(Chars)
        BY <2>b DEF Text
      <4> HIDE DEF part
      <4> QED
        BY <3>2, <4>1, SubSeqProperties
    <3> QED
      BY <3>1, <3>3 DEF l
  <2> HIDE DEF part
  <2>5. ASSUME NEW i \in 1 .. Len(s) PROVE part[i] = s[i]
    <3>1. 2 + i - 1 = i + 1
      BY <2>2
    <3> QED
      BY <2>1, <2>4, <3>1
  <2>6. part = s
    <3>1. s \in Seq(Chars)
      BY <1>1 DEF Text
    <3> QED
      BY <2>4, <2>5, <3>1, SeqEqual
  <2> QED
    BY <1>2, <2>3, <2>6 DEF Written, w
<1>3. CASE ~string_need_quotes(s)
  <2>1. Plain(s)
    BY <1>1, <1>3, NormalIsPlain
  <2> QED
    BY <1>3, <2>1, UnquotedPlain DEF Written
<1> QED
  BY <1>2, <1>3

(* Whatever it takes them from, a string is left.                          *)
LEMMA UnquotedTyped ==
    ASSUME NEW w \in Text \ {<<>>}
    PROVE  Unquoted(w) \in Strings
<1>1. w \in Seq(Chars) /\ w # <<>> /\ Len(w) \in Nat
  BY DEF Text
<1>2. Tail(w) \in Seq(Chars)
  BY <1>1
<1>3. ASSUME Len(w) > 1 PROVE SubSeq(w, 2, Len(w) - 1) \in Seq(Chars)
  <2>1. \A i \in 2 .. Len(w) - 1 : i \in 1 .. Len(w)
    BY <1>1
  <2> DEFINE l == Len(w) - 1
  <2>2. l \in Int /\ \A i \in 2 .. l : w[i] \in Chars
    BY <1>1, <2>1
  <2> QED
    BY <1>1, <1>3, <2>1
<1> QED
  BY <1>1, <1>2, <1>3, StringsAreText DEF Unquoted, Text

(* Likewise if the file ends inside the string.                            *)
LEMMA CutTyped ==
    ASSUME NEW w \in Text \ {<<>>}, NEW n \in 1 .. Len(w) - 1
    PROVE  /\ SubSeq(w, 1, n) \in Text /\ Len(SubSeq(w, 1, n)) = n /\ n \in Nat
           /\ \A i \in 1 .. n : SubSeq(w, 1, n)[i] = w[i]
           /\ Unquoted(LongToken(SubSeq(w, 1, n), 1).string) \in Strings
<1>1. w \in Seq(Chars) /\ w # <<>> /\ Len(w) \in Nat
  BY DEF Text
<1>2. n \in Nat /\ n >= 1 /\ 1 \in 1 .. Len(w) /\ n \in 1 .. Len(w) /\ n - 1 + 1 = n
  BY <1>1
<1> DEFINE part == SubSeq(w, 1, n)
<1>3. part \in Seq(Chars) /\ Len(part) = n /\ \A i \in 1 .. n : part[i] = w[1 + i - 1]
  BY <1>1, <1>2, SubSeqProperties
<1> HIDE DEF part
<1>4. \A i \in 1 .. n : part[i] = w[i]
  <2>1. \A i \in 1 .. n : 1 + i - 1 = i
    BY <1>2
  <2> QED
    BY <1>3, <2>1
<1>5. part \in Text /\ 1 \in 1 .. Len(part)
  BY <1>2, <1>3 DEF Text
<1>6. LongToken(part, 1).string \in Text \ {<<>>}
  BY <1>5, LongTokenTyped
<1> QED
  BY <1>2, <1>3, <1>4, <1>5, <1>6, UnquotedTyped DEF part

(* And if that was a string that the writer has written, it is one of      *)
(* CutOff().                                                               *)
LEMMA CutIs ==
    ASSUME NEW s \in Strings, ~Blank(s), \A n \in DOMAIN s : s[n] \notin Ends.quoted,
           NEW n \in 1 .. Len(Written(s)) - 1
    PROVE  Unquoted(LongToken(SubSeq(Written(s), 1, n), 1).string) \in CutOff(s)
<1>1. s \in Text /\ s # <<>> /\ Len(s) \in Nat /\ DOMAIN s = 1 .. Len(s)
  BY StringsAreText DEF Blank, Text
<1> DEFINE w == Written(s)
           part == SubSeq(w, 1, n)
           token == LongToken(part, 1).string
<1>2. w \in Text \ {<<>>}
  BY WrittenIs
<1>3. part \in Text /\ Len(part) = n /\ n \in Nat /\ \A i \in 1 .. n : part[i] = w[i]
  <2> HIDE DEF w
  <2> QED
    BY <1>2, CutTyped DEF w
<1>4. ASSUME \A i \in 2 .. n : part[i] \notin Ends[Starts(part[1])]
      PROVE  /\ Stops(part, 1) = {}
             /\ part[1] # "\"" => token = part
             /\ part[1] = "\"" => token = part \o <<EOF>>
  <2> HIDE DEF part
  <2>1. Stops(part, 1) = {}
    <3>1. 1 + 1 = 2
      OBVIOUS
    <3> QED
      BY <1>3, <1>4, <3>1 DEF Stops
  <2>2. LastOf(part, 1) = n
    BY <1>3, <2>1 DEF LastOf
  <2>3. SubSeq(part, 1, n) = part
    BY <1>3, SubSeqFull DEF Text
  <2>4. part \o <<>> = part
    BY <1>3, TextIs
  <2>5. token = part \o IF part[1] = "\"" /\ Stops(part, 1) = {} THEN <<EOF>> ELSE <<>>
    BY <2>2, <2>3 DEF LongToken
  <2> HIDE DEF token
  <2> QED
    BY <2>1, <2>4, <2>5
<1>5. 1 \in 1 .. n
  OBVIOUS
<1>6. CASE string_need_quotes(s)
  <2> DEFINE k == Len(s) + 2
  <2>1. /\ Len(w) = k /\ w[1] = "\""
        /\ \A i \in 1 .. Len(s) : w[i + 1] = s[i]
    BY <1>1, <1>6, QuotedIs DEF Written
  <2>2. n - 1 \in 0 .. Len(s) /\ n - 1 \in Nat
    <3>1. n \in 1 .. Len(w) - 1 /\ Len(w) = Len(s) + 2
      BY <2>1
    <3>2. n \in 1 .. (Len(s) + 2) - 1 /\ Len(s) \in Nat
      BY <1>1, <3>1
    <3> QED
      BY <3>2
  <2>3. part[1] = "\""
    BY <1>3, <1>5, <2>1
  <2>4. \A i \in 1 .. n - 1 : part[i + 1] = s[i] /\ i \in 1 .. Len(s)
    <3>1. \A i \in 1 .. n - 1 : i + 1 \in 1 .. n /\ i \in 1 .. Len(s)
      BY <1>1, <1>3, <2>2
    <3> QED
      BY <1>3, <2>1, <3>1
  <2> HIDE DEF w, part
  <2>5. \A i \in 2 .. n : part[i] \notin Ends[Starts(part[1])]
    <3>1. Ends[Starts(part[1])] = Ends.quoted
      BY <2>3 DEF Starts, Ends
    <3>2. \A i \in 2 .. n : i - 1 \in 1 .. n - 1 /\ (i - 1) + 1 = i
      BY <1>3
    <3>3. \A i \in 1 .. n - 1 : s[i] \notin Ends.quoted
      BY <1>1, <2>4
    <3> QED
      BY <2>4, <3>1, <3>2, <3>3
  <2>6. token = part \o <<EOF>>
    BY <1>4, <2>3, <2>5
  <2> HIDE DEF token
  <2> DEFINE q == <<EOF>>
             u == part \o q
             v == SubSeq(s, 1, n - 1)
             x == v \o q
  <2>a. EOF \in Chars /\ EOF # "\""
    BY CharsAssumption DEF Special, EOF
  <2>7. q \in Text /\ Len(q) = 1 /\ q[1] = EOF
    BY <2>a, OneInFront, TextIs
  <2>b. q \in Text
    BY <2>7
  <2> HIDE DEF q
  <2>8. /\ u \in Text /\ Len(u) = Len(part) + Len(q)
        /\ \A i \in 1 .. Len(part) : u[i] = part[i]
        /\ \A i \in 1 .. Len(q) : u[Len(part) + i] = q[i]
    BY <1>3, <2>b, BehindIs
  <2>9. v \in Text /\ Len(v) = n - 1 /\ \A i \in 1 .. n - 1 : v[i] = s[i]
    <3>1. CASE n = 1
      <4>1. v = <<>>
        BY <1>1, <3>1, SubSeqEmpty DEF Text
      <4>2. v \in Text /\ Len(v) = 0
        BY <4>1, TextIs
      <4>3. n - 1 = 0 /\ 1 .. n - 1 = {}
        BY <3>1
      <4> QED
        BY <4>2, <4>3
    <3>2. CASE n # 1
      <4> DEFINE m == n - 1
      <4>1. m \in 1 .. Len(s) /\ 1 \in 1 .. Len(s) /\ m - 1 + 1 = m /\ m \in Nat
        BY <1>3, <2>2, <3>2
      <4> HIDE DEF m
      <4>2. /\ SubSeq(s, 1, m) \in Seq(Chars) /\ Len(SubSeq(s, 1, m)) = m
            /\ \A i \in 1 .. m : SubSeq(s, 1, m)[i] = s[1 + i - 1]
        BY <1>1, <4>1, SubSeqProperties DEF Text
      <4>3. \A i \in 1 .. m : 1 + i - 1 = i
        BY <4>1
      <4> QED
        BY <4>2, <4>3 DEF m, Text
    <3> QED
      BY <3>1, <3>2
  <2>c. v \in Text
    BY <2>9
  <2> HIDE DEF v, u
  <2>10. /\ x \in Text /\ Len(x) = Len(v) + Len(q)
         /\ \A i \in 1 .. Len(v) : x[i] = v[i]
         /\ \A i \in 1 .. Len(q) : x[Len(v) + i] = q[i]
    BY <2>b, <2>c, BehindIs
  <2> HIDE DEF x
  <2>11. Len(u) = n + 1 /\ u[1] = "\"" /\ u[n + 1] = EOF /\ Len(x) = n
    <3>1. 1 \in 1 .. Len(part) /\ 1 \in 1 .. Len(q)
      BY <1>3, <1>5, <2>7
    <3>2. Len(part) = n /\ Len(q) = 1 /\ Len(v) = n - 1 /\ n \in Nat
      BY <1>3, <2>7, <2>9
    <3>3. Len(u) = n + 1 /\ Len(x) = n
      <4>1. Len(u) = Len(part) + Len(q) /\ Len(x) = Len(v) + Len(q)
        BY <2>8, <2>10
      <4>2. Len(u) = n + 1 /\ Len(x) = (n - 1) + 1
        BY <3>2, <4>1
      <4> QED
        BY <3>2, <4>2
    <3>4. u[1] = "\""
      BY <2>3, <2>8, <3>1
    <3>5. u[n + 1] = EOF
      <4>1. u[Len(part) + 1] = q[1]
        BY <2>8, <3>1
      <4> QED
        BY <2>7, <3>2, <4>1
    <3> QED
      BY <3>3, <3>4, <3>5
  <2>12. Unquoted(u) = Tail(u)
    <3>1. u[Len(u)] # "\""
      BY <2>11, <2>a
    <3> QED
      BY <2>11, <3>1 DEF Unquoted
  <2>13. Tail(u) \in Text /\ Len(Tail(u)) = n /\ \A i \in 1 .. n : Tail(u)[i] = u[i + 1]
    <3>1. u \in Seq(Chars) /\ u # <<>> /\ Len(u) = n + 1
      <4>1. u \in Seq(Chars) /\ Len(u) = n + 1 /\ n \in Nat
        BY <1>3, <2>8, <2>11 DEF Text
      <4>2. Len(u) # 0
        BY <4>1
      <4> QED
        BY <4>1, <4>2
    <3>2. Tail(u) \in Seq(Chars) /\ Len(Tail(u)) = Len(u) - 1 /\ \A i \in 1 .. Len(u) - 1 : Tail(u)[i] = u[i + 1]
      BY <3>1, HeadTailProperties
    <3>3. Len(u) - 1 = n
      BY <1>3, <3>1
    <3> QED
      BY <3>2, <3>3 DEF Text
  <2>14. ASSUME NEW i \in 1 .. n PROVE Tail(u)[i] = x[i]
    <3>1. CASE i = n
      <4>1. x[n] = EOF
        <5>1. Len(v) + 1 = n /\ 1 \in 1 .. Len(q)
          BY <1>3, <2>7, <2>9
        <5> QED
          BY <2>7, <2>10, <5>1
      <4> QED
        BY <2>11, <2>13, <3>1, <4>1
    <3>2. CASE i # n
      <4>1. i \in 1 .. n - 1 /\ i \in 1 .. Len(v) /\ i + 1 \in 1 .. Len(part)
        BY <1>3, <2>9, <3>2
      <4> QED
        BY <2>4, <2>8, <2>9, <2>10, <2>13, <4>1
    <3> QED
      BY <3>1, <3>2
  <2>15. Tail(u) = x
    BY <2>10, <2>11, <2>13, <2>14, SeqEqual DEF Text
  <2>16. x \in CutOff(s)
    BY <1>6, <2>2 DEF CutOff, x, v, q
  <2> QED
    BY <2>6, <2>12, <2>15, <2>16 DEF token, u, part, w, q
<1>7. CASE ~string_need_quotes(s)
  <2>1. w = s
    BY <1>7 DEF Written
  <2>2. Plain(s)
    BY <1>1, <1>7, NormalIsPlain
  <2>3. s[1] # "\"" /\ s[1] # "#" /\ \A i \in 1 .. Len(s) : s[i] \notin Ends.unquoted
    BY <1>1, <2>2 DEF Plain
  <2>4. n \in 1 .. Len(s) - 1 /\ \A i \in 1 .. n : part[i] = s[i] /\ i \in 1 .. Len(s)
    BY <1>1, <1>3, <2>1
  <2>5. part[1] = s[1]
    BY <1>5, <2>4
  <2>a. part = SubSeq(s, 1, n)
    BY <2>1
  <2> HIDE DEF part, w
  <2>6. \A i \in 2 .. n : part[i] \notin Ends[Starts(part[1])]
    <3>1. Ends[Starts(part[1])] = Ends.unquoted
      BY <2>3, <2>5 DEF Starts, Ends
    <3>2. \A i \in 2 .. n : i \in 1 .. n
      BY <1>3
    <3> QED
      BY <2>3, <2>4, <3>1, <3>2
  <2>7. token = part
    BY <1>4, <2>3, <2>5, <2>6
  <2>8. Unquoted(part) = part
    BY <2>3, <2>5 DEF Unquoted
  <2>9. part \in CutOff(s)
    BY <1>7, <2>4, <2>a DEF CutOff
  <2> QED
    BY <2>7, <2>8, <2>9 DEF token, part, w
<1> QED
  BY <1>6, <1>7

(* The texts of a list or a block, one behind the other.                   *)
LEMMA TextSuffixIs ==
    ASSUME NEW texts \in Seq(Text), NEW n \in 1 .. Len(texts) + 1
    PROVE  /\ Suffix(texts, n) \in Text
           /\ n = Len(texts) + 1 => Suffix(texts, n) = <<>>
           /\ n \in DOMAIN texts => Suffix(texts, n) = texts[n] \o Suffix(texts, n + 1)
           /\ Suffix(texts, 1) = FlattenSeq(texts)
           /\ FlattenSeq(texts) \in Text
<1>1. texts \in Seq(Seq(Chars))
  BY DEF Text
<1> QED
  BY <1>1, SuffixIs, FlattenTyped DEF Text

(* The comma and the string behind it.                                     *)
LEMMA BetweenJoins ==
    ASSUME NEW w \in Text, NEW more \in Text
    PROVE  w \o more \in Text /\ (Between \o w) \o more = Between \o (w \o more)
<1> DEFINE y == Between
<1>1. y \in Text
  BY MarksAreText
<1> HIDE DEF y
<1>2. w \o more \in Text /\ (y \o w) \o more = y \o (w \o more)
  BY <1>1, TextIs
<1> QED
  BY <1>2 DEF y

(* A string before the nth has been written.                               *)
Before(list, n) == \E m \in 1 .. n - 1 : ~Blank(list[m])

(* What is written of a string of a list: a comma if a string that is not  *)
(* empty is before it, and the string.                                     *)
LEMMA ListTextsAre ==
    ASSUME NEW list \in Seq(Strings)
    PROVE  /\ ListTexts(list) \in Seq(Text) /\ Len(ListTexts(list)) = Len(list)
           /\ KeptTexts(list) \in Seq(Seq(Strings)) /\ Len(KeptTexts(list)) = Len(list)
           /\ Len(list) \in Nat
           /\ \A n \in 1 .. Len(list) :
               /\ list[n] \in Strings
               /\ KeptTexts(list)[n] = IF Blank(list[n]) THEN <<>> ELSE <<list[n]>>
               /\ ListTexts(list)[n] = (IF Before(list, n) THEN Between ELSE <<>>) \o Written(list[n])
<1> DEFINE L == Len(list)
<1>1. /\ L \in Nat /\ DOMAIN list = 1 .. L
      /\ \A n \in 1 .. L : list[n] \in Strings /\ n \in Nat
  BY SeqFacts
<1> HIDE DEF L
<1>2. \A n \in 1 .. L : Written(list[n]) \in Text /\ (Written(list[n]) = <<>> <=> Blank(list[n]))
  BY <1>1, WrittenIs
<1>3. ASSUME NEW n \in 1 .. L
      PROVE  Separator(list, n) = IF Before(list, n) THEN Between ELSE <<>>
  <2>1. ASSUME NEW m \in 1 .. n - 1 PROVE Written(list[m]) # <<>> <=> ~Blank(list[m])
    <3>1. m \in 1 .. L
      BY <1>1
    <3> QED
      BY <1>2, <3>1
  <2> QED
    BY <2>1 DEF Separator, Before, Between
<1>4. ASSUME NEW n \in 1 .. L
      PROVE  /\ Separator(list, n) \o Written(list[n]) \in Text
             /\ (IF Blank(list[n]) THEN <<>> ELSE <<list[n]>>) \in Seq(Strings)
  <2>1. Separator(list, n) \in Text
    BY <1>3, TextIs, MarksAreText
  <2>2. Written(list[n]) \in Text
    BY <1>2
  <2>3. <<list[n]>> \in Seq(Strings) /\ <<>> \in Seq(Strings)
    BY <1>1, SmallSeqs
  <2>4. Separator(list, n) \o Written(list[n]) \in Text
    BY <2>1, <2>2, TextIs
  <2> QED
    BY <2>3, <2>4
<1>5. ListTexts(list) = [n \in 1 .. L |-> Separator(list, n) \o Written(list[n])]
  BY <1>1 DEF ListTexts
<1>6. KeptTexts(list) = [n \in 1 .. L |-> IF Blank(list[n]) THEN <<>> ELSE <<list[n]>>]
  BY <1>1 DEF KeptTexts
<1>7. ListTexts(list) \in Seq(Text) /\ Len(ListTexts(list)) = L
  <2> DEFINE e(n) == Separator(list, n) \o Written(list[n])
  <2>1. \A n \in 1 .. L : e(n) \in Text
    BY <1>4
  <2>2. ListTexts(list) = [n \in 1 .. L |-> e(n)]
    BY <1>5
  <2> HIDE DEF e
  <2> QED
    BY <1>1, <2>1, <2>2
<1>8. KeptTexts(list) \in Seq(Seq(Strings)) /\ Len(KeptTexts(list)) = L
  <2> DEFINE e(n) == IF Blank(list[n]) THEN <<>> ELSE <<list[n]>>
  <2>1. \A n \in 1 .. L : e(n) \in Seq(Strings)
    BY <1>4
  <2>2. KeptTexts(list) = [n \in 1 .. L |-> e(n)]
    BY <1>6
  <2> HIDE DEF e
  <2> QED
    BY <1>1, <2>1, <2>2
<1>9. \A n \in 1 .. L : ListTexts(list)[n] = (IF Before(list, n) THEN Between ELSE <<>>) \o Written(list[n])
  BY <1>3, <1>5
<1>10. \A n \in 1 .. L : KeptTexts(list)[n] = IF Blank(list[n]) THEN <<>> ELSE <<list[n]>>
  BY <1>6
<1> QED
  BY <1>1, <1>7, <1>8, <1>9, <1>10 DEF L

(* What is written of a list, and what is read of it.                      *)
LEMMA NotEmptyTyped ==
    ASSUME NEW list \in Seq(Strings)
    PROVE  /\ NotEmpty(list) \in Seq(Strings)
           /\ nfcconf_list_get_string(list) \in Text
           /\ NotEmpty(list) = FlattenSeq(KeptTexts(list))
           /\ nfcconf_list_get_string(list) = FlattenSeq(ListTexts(list))
<1>1. NotEmpty(list) = FlattenSeq(KeptTexts(list))
  BY DEF NotEmpty, KeptTexts, Blank
<1>2. nfcconf_list_get_string(list) = FlattenSeq(ListTexts(list))
  BY DEF nfcconf_list_get_string, ListTexts
<1>3. ListTexts(list) \in Seq(Text) /\ KeptTexts(list) \in Seq(Seq(Strings))
  BY ListTextsAre
<1>4. FlattenSeq(ListTexts(list)) \in Text /\ FlattenSeq(KeptTexts(list)) \in Seq(Strings)
  <2>1. FlattenSeq(KeptTexts(list)) \in Seq(Strings)
    BY <1>3, FlattenTyped
  <2>2. ListTexts(list) \in Seq(Seq(Chars))
    BY <1>3 DEF Text
  <2>3. FlattenSeq(ListTexts(list)) \in Seq(Chars)
    BY <2>2, FlattenTyped
  <2> QED
    BY <2>1, <2>3 DEF Text
<1> QED
  BY <1>1, <1>2, <1>4

(* Before anything of a list is read, all of it is left.                   *)
LEMMA ListStart ==
    ASSUME NEW list \in Seq(Strings)
    PROVE  ListLeft(list, <<>>, FALSE, nfcconf_list_get_string(list))
<1>1. 1 \in 1 .. Len(list) + 1
  BY SeqFacts
<1>2. /\ Suffix(KeptTexts(list), 1) = NotEmpty(list) /\ NotEmpty(list) \in Seq(Strings)
      /\ Suffix(ListTexts(list), 1) = nfcconf_list_get_string(list)
  <2>1. /\ ListTexts(list) \in Seq(Text) /\ Len(ListTexts(list)) = Len(list)
        /\ KeptTexts(list) \in Seq(Seq(Strings)) /\ Len(KeptTexts(list)) = Len(list)
    BY ListTextsAre
  <2>2. Suffix(ListTexts(list), 1) = FlattenSeq(ListTexts(list))
    BY <1>1, <2>1, TextSuffixIs
  <2>3. Suffix(KeptTexts(list), 1) = FlattenSeq(KeptTexts(list))
    BY <1>1, <2>1, SuffixIs
  <2> QED
    BY <2>2, <2>3, NotEmptyTyped
<1>3. <<>> \o NotEmpty(list) = NotEmpty(list)
  BY <1>2
<1>4. ~\E m \in 1 .. 1 - 1 : ~Blank(list[m])
  OBVIOUS
<1>5. ListAt(list, 1, <<>>, FALSE, nfcconf_list_get_string(list))
  BY <1>2, <1>3, <1>4 DEF ListAt
<1> QED
  BY <1>1, <1>5 DEF ListLeft

(* What has been read is the beginning of the list.                        *)
LEMMA ListPrefix ==
    ASSUME NEW list \in Seq(Strings), NEW got \in Seq(Strings), NEW isset, NEW left,
           ListLeft(list, got, isset, left)
    PROVE  IsPrefix(got, NotEmpty(list))
<1>1. PICK n \in 1 .. Len(list) + 1 : ListAt(list, n, got, isset, left)
  BY DEF ListLeft
<1> DEFINE more == Suffix(KeptTexts(list), n)
<1>2. more \in Seq(Strings)
  BY ListTextsAre, SuffixIs
<1>3. got \o more = NotEmpty(list)
  BY <1>1 DEF ListAt
<1> HIDE DEF more
<1>4. Len(got) <= Len(got \o more) /\ SubSeq(got \o more, 1, Len(got)) = got
  BY <1>2
<1>5. SubSeq(got, 1, Len(got)) = got
  OBVIOUS
<1> QED
  BY <1>3, <1>4, <1>5 DEF IsPrefix

(* What comes next of a list: nothing when all of it has been read; a      *)
(* comma; or a string, which comes first or behind a comma and in front of *)
(* nothing or a comma.                                                     *)
Legal(s) == s \in Strings /\ ~Blank(s) /\ \A i \in DOMAIN s : s[i] \notin Ends.quoted

CommaNext(more) == more = <<>> \/ \E u \in Text : more = Between \o u

ListGoesOn(list, got, isset, left) ==
    \/ left = <<>> /\ got = NotEmpty(list)
    \/ \E more \in Text :
        left = Between \o more /\ ListLeft(list, got, FALSE, more)
    \/ \E s \in Strings, more \in Text :
        /\ ~isset /\ Legal(s)
        /\ left = Written(s) \o more /\ CommaNext(more)
        /\ ListLeft(list, Append(got, s), TRUE, more)

(* The place in a list behind a string that was read.                      *)
LEMMA ListAtStart ==
    ASSUME NEW list, NEW n, NEW got, NEW isset, got # <<>>,
           got \o Suffix(KeptTexts(list), n) = NotEmpty(list),
           \E m \in 1 .. n - 1 : ~Blank(list[m])
    PROVE  ListAt(list, n, got, isset, Suffix(ListTexts(list), n))
BY DEF ListAt

(* When a string of the list has been read, the strings behind it are      *)
(* left.                                                                   *)
LEMMA ListString ==
    ASSUME NEW list \in Seq(Strings), NEW n \in 1 .. Len(list), NEW got \in Seq(Strings),
           ~Blank(list[n]), got \o Suffix(KeptTexts(list), n) = NotEmpty(list)
    PROVE  ListLeft(list, Append(got, list[n]), TRUE, Suffix(ListTexts(list), n + 1))
<1> DEFINE more == Suffix(KeptTexts(list), n + 1)
           s == list[n]
           new == Append(got, s)
<1>0. Len(list) \in Nat /\ n + 1 \in 1 .. Len(list) + 1 /\ n \in DOMAIN KeptTexts(list) /\ s \in Strings
  <2>1. Len(KeptTexts(list)) = Len(list) /\ KeptTexts(list) \in Seq(Seq(Strings))
    BY ListTextsAre
  <2> QED
    BY <2>1, SeqFacts
<1>1. more \in Seq(Strings) /\ Suffix(KeptTexts(list), n) = <<s>> \o more
  <2>1. KeptTexts(list)[n] = <<s>>
    BY ListTextsAre
  <2>2. KeptTexts(list) \in Seq(Seq(Strings)) /\ Len(KeptTexts(list)) = Len(list)
    BY ListTextsAre
  <2>3. n \in 1 .. Len(list) + 1
    BY SeqFacts
  <2> HIDE DEF s
  <2>4. Suffix(KeptTexts(list), n) = KeptTexts(list)[n] \o Suffix(KeptTexts(list), n + 1)
    BY <1>0, <2>2, <2>3, SuffixIs
  <2>5. Suffix(KeptTexts(list), n + 1) \in Seq(Strings)
    BY <1>0, <2>2, SuffixIs
  <2> QED
    BY <2>1, <2>4, <2>5
<1> HIDE DEF more, s
<1>2. new # <<>> /\ new \o more = got \o (<<s>> \o more)
  BY <1>0, <1>1, InStrings
<1> HIDE DEF new
<1>3. new \o more = NotEmpty(list)
  BY <1>1, <1>2
<1>4. \E m \in 1 .. n + 1 - 1 : ~Blank(list[m])
  <2>1. n \in 1 .. n + 1 - 1
    <3>1. n \in Nat /\ n >= 1
      BY SeqFacts
    <3> QED
      BY <3>1
  <2> QED
    BY <2>1
<1>5. ListAt(list, n + 1, new, TRUE, Suffix(ListTexts(list), n + 1))
  <2>1. new \o Suffix(KeptTexts(list), n + 1) = NotEmpty(list)
    BY <1>3 DEF more
  <2>2. new # <<>> <=> (\E m \in 1 .. n + 1 - 1 : ~Blank(list[m]))
    BY <1>2, <1>4
  <2> QED
    <3> DEFINE k == n + 1
    <3>1. new \o Suffix(KeptTexts(list), k) = NotEmpty(list) /\ \E m \in 1 .. k - 1 : ~Blank(list[m])
      BY <1>2, <2>1, <2>2
    <3> HIDE DEF k
    <3>2. \A isset : ListAt(list, k, new, isset, Suffix(ListTexts(list), k))
      BY <1>2, <3>1, ListAtStart
    <3> QED
      BY <3>2 DEF k
<1> QED
  BY <1>0, <1>5 DEF ListLeft, new, s

(* What is left behind a string that was written begins with a comma.      *)
LEMMA CommaFollows ==
    ASSUME NEW list \in Seq(Strings), NEW n \in 1 .. Len(list) + 1, Before(list, n)
    PROVE  CommaNext(Suffix(ListTexts(list), n))
<1>0. Len(list) \in Nat /\ ListTexts(list) \in Seq(Text) /\ Len(ListTexts(list)) = Len(list)
      /\ DOMAIN ListTexts(list) = 1 .. Len(list)
  <2>1. Len(list) \in Nat /\ ListTexts(list) \in Seq(Text) /\ Len(ListTexts(list)) = Len(list)
    BY ListTextsAre
  <2>2. DOMAIN ListTexts(list) = 1 .. Len(ListTexts(list))
    BY <2>1, SeqFacts
  <2> QED
    BY <2>1, <2>2
<1>1. CASE n = Len(list) + 1
  <2>1. Suffix(ListTexts(list), n) = <<>>
    BY <1>0, <1>1, TextSuffixIs
  <2> QED
    BY <2>1 DEF CommaNext
<1>2. CASE n # Len(list) + 1
  <2>1. n \in 1 .. Len(list) /\ n + 1 \in 1 .. Len(list) + 1
    BY <1>0, <1>2
  <2> DEFINE w == Written(list[n])
             more == Suffix(ListTexts(list), n + 1)
  <2>2. Suffix(ListTexts(list), n) = ListTexts(list)[n] \o more
    BY <1>0, <2>1, TextSuffixIs
  <2>3. more \in Text
    BY <1>0, <2>1, TextSuffixIs
  <2>4. ListTexts(list)[n] = Between \o w /\ w \in Text
    BY <2>1, ListTextsAre, WrittenIs
  <2> HIDE DEF w, more
  <2>5. w \o more \in Text /\ (Between \o w) \o more = Between \o (w \o more)
    BY <2>3, <2>4, BetweenJoins
  <2> QED
    BY <2>2, <2>4, <2>5 DEF CommaNext
<1> QED
  BY <1>1, <1>2

(* What is left of a list goes on with one of the three.                   *)
LEMMA ListNext ==
    ASSUME NEW list \in Seq(Strings), Readable(list),
           NEW got \in Seq(Strings), NEW isset \in BOOLEAN, NEW left,
           ListLeft(list, got, isset, left)
    PROVE  ListGoesOn(list, got, isset, left)
<1> DEFINE L == Len(list)
           Form1(n, set1) ==
               /\ got \o Suffix(KeptTexts(list), n) = NotEmpty(list)
               /\ set1 => got # <<>>
               /\ got # <<>> <=> Before(list, n)
           S == {n \in 1 .. L + 1 : \A b \in BOOLEAN :
                     Form1(n, b) => ListGoesOn(list, got, b, Suffix(ListTexts(list), n))}
<1>0. /\ L \in Nat /\ L + 1 \in Nat /\ NotEmpty(list) \in Seq(Strings)
      /\ ListTexts(list) \in Seq(Text) /\ KeptTexts(list) \in Seq(Seq(Strings))
      /\ Len(ListTexts(list)) = L /\ Len(KeptTexts(list)) = L
  <2>1. L \in Nat /\ L + 1 \in Nat
    BY SeqFacts
  <2> HIDE DEF L
  <2> QED
    BY <2>1, ListTextsAre, NotEmptyTyped DEF L
<1>a. ASSUME NEW n \in 1 .. L
      PROVE  /\ list[n] \in Strings /\ Written(list[n]) \in Text
             /\ KeptTexts(list)[n] = IF Blank(list[n]) THEN <<>> ELSE <<list[n]>>
             /\ ListTexts(list)[n] = (IF Before(list, n) THEN Between ELSE <<>>) \o Written(list[n])
             /\ n \in Nat /\ n + 1 \in 1 .. L + 1
             /\ Suffix(ListTexts(list), n) = ListTexts(list)[n] \o Suffix(ListTexts(list), n + 1)
             /\ Suffix(KeptTexts(list), n) = KeptTexts(list)[n] \o Suffix(KeptTexts(list), n + 1)
             /\ Suffix(ListTexts(list), n + 1) \in Text
             /\ Suffix(KeptTexts(list), n + 1) \in Seq(Strings)
             /\ ~Blank(list[n]) => Legal(list[n]) /\ CommaNext(Suffix(ListTexts(list), n + 1))
  <2>1. n \in Nat /\ n + 1 \in 1 .. L + 1 /\ n \in 1 .. L + 1 /\ n \in 1 .. n + 1 - 1
    BY <1>0
  <2>2. n \in DOMAIN ListTexts(list) /\ n \in DOMAIN KeptTexts(list) /\ n \in DOMAIN list
    BY <1>0
  <2>a. list[n] \in Strings
    BY <2>2
  <2>b. ~Blank(list[n]) => Legal(list[n]) /\ Before(list, n + 1)
    BY <2>1, <2>2, <2>a DEF Readable, Legal, Before
  <2>c. Written(list[n]) \in Text
    BY <2>a, WrittenIs
  <2>d. ~Blank(list[n]) => CommaNext(Suffix(ListTexts(list), n + 1))
    <3> DEFINE k == n + 1
    <3>1. k \in 1 .. Len(list) + 1 /\ (~Blank(list[n]) => Before(list, k))
      BY <2>1, <2>b
    <3> HIDE DEF k
    <3>2. ~Blank(list[n]) => CommaNext(Suffix(ListTexts(list), k))
      BY <3>1, CommaFollows
    <3> QED
      BY <3>2 DEF k
  <2> HIDE DEF L
  <2>3. /\ Suffix(ListTexts(list), n) = ListTexts(list)[n] \o Suffix(ListTexts(list), n + 1)
        /\ Suffix(ListTexts(list), n + 1) \in Text
    BY <1>0, <2>1, <2>2, TextSuffixIs
  <2>4. /\ Suffix(KeptTexts(list), n) = KeptTexts(list)[n] \o Suffix(KeptTexts(list), n + 1)
        /\ Suffix(KeptTexts(list), n + 1) \in Seq(Strings)
    BY <1>0, <2>1, <2>2, SuffixIs
  <2>5. /\ KeptTexts(list)[n] = IF Blank(list[n]) THEN <<>> ELSE <<list[n]>>
        /\ ListTexts(list)[n] = (IF Before(list, n) THEN Between ELSE <<>>) \o Written(list[n])
    BY ListTextsAre DEF L
  <2> QED
    BY <2>1, <2>3, <2>4, <2>5, <2>a, <2>b, <2>c, <2>d
<1>b. Suffix(ListTexts(list), L + 1) = <<>> /\ Suffix(KeptTexts(list), L + 1) = <<>>
  <2>1. L + 1 \in 1 .. L + 1
    BY <1>0
  <2> HIDE DEF L
  <2> QED
    BY <1>0, <2>1, SuffixIs, TextSuffixIs
<1>c. ASSUME NEW n \in 1 .. L + 1, NEW b \in BOOLEAN, Form1(n, b)
      PROVE  ListLeft(list, got, b, Suffix(ListTexts(list), n))
  BY <1>c DEF ListLeft, ListAt, Before
<1> HIDE DEF L
<1>1. ASSUME NEW n \in 1 .. L + 1, \A i \in n + 1 .. L + 1 : i \in S,
             NEW b \in BOOLEAN, Form1(n, b)
      PROVE  ListGoesOn(list, got, b, Suffix(ListTexts(list), n))
  <2>1. CASE n = L + 1
    <3>1. got \o <<>> = got
      OBVIOUS
    <3>2. got = NotEmpty(list)
      BY <1>1, <1>b, <2>1, <3>1
    <3> QED
      BY <1>b, <2>1, <3>2 DEF ListGoesOn
  <2>2. CASE n # L + 1
    <3>0. n \in 1 .. L /\ n \in Nat
      BY <1>0, <2>2
    <3> DEFINE more == Suffix(ListTexts(list), n + 1)
               kept == Suffix(KeptTexts(list), n + 1)
               w == Written(list[n])
    <3>1. more \in Text /\ kept \in Seq(Strings) /\ n + 1 \in 1 .. L + 1 /\ w \in Text
      BY <1>a, <3>0
    <3>2. CASE Blank(list[n])
      <4>1. Suffix(KeptTexts(list), n) = kept
        <5>1. KeptTexts(list)[n] = <<>>
          BY <1>a, <3>0, <3>2
        <5>2. Suffix(KeptTexts(list), n) = KeptTexts(list)[n] \o kept
          BY <1>a, <3>0
        <5> HIDE DEF kept
        <5> QED
          BY <3>1, <5>1, <5>2, Joined
      <4>2. Before(list, n + 1) <=> Before(list, n)
        <5>1. \A m \in 1 .. n + 1 - 1 : m = n \/ m \in 1 .. n - 1
          BY <3>0
        <5>2. \A m \in 1 .. n - 1 : m \in 1 .. n + 1 - 1
          BY <3>0
        <5> QED
          BY <3>2, <5>1, <5>2 DEF Before
      <4>3. Form1(n + 1, FALSE) /\ (b => got # <<>>)
        BY <1>1, <4>1, <4>2
      <4>a. w = <<>>
        BY <1>a, <3>0, <3>2, WrittenIs
      <4>4. CASE Before(list, n)
        <5>1. Suffix(ListTexts(list), n) = (Between \o w) \o more
          BY <1>a, <3>0, <4>4
        <5>2. Between \o <<>> = Between
          BY TextIs, MarksAreText
        <5>3. ListLeft(list, got, FALSE, more)
          <6> HIDE DEF Form1
          <6> QED
            BY <1>c, <3>1, <4>3
        <5> QED
          BY <3>1, <4>a, <5>1, <5>2, <5>3 DEF ListGoesOn
      <4>5. CASE ~Before(list, n)
        <5>1. Suffix(ListTexts(list), n) = more
          <6>1. ListTexts(list)[n] = <<>> \o w
            BY <1>a, <3>0, <4>5
          <6>2. <<>> \o <<>> = <<>>
            OBVIOUS
          <6>3. Suffix(ListTexts(list), n) = ListTexts(list)[n] \o more
            BY <1>a, <3>0
          <6> HIDE DEF more, w
          <6> QED
            BY <3>1, <4>a, <6>1, <6>2, <6>3, TextIs
        <5>2. n + 1 \in S
          <6>1. n + 1 \in n + 1 .. L + 1
            BY <1>0, <3>0
          <6> HIDE DEF S
          <6> QED
            BY <1>1, <6>1
        <5>3. Form1(n + 1, b)
          BY <4>3
        <5>4. ListGoesOn(list, got, b, more)
          <6> HIDE DEF Form1
          <6> QED
            BY <5>2, <5>3
        <5> QED
          BY <5>1, <5>4
      <4> QED
        BY <4>4, <4>5
    <3>3. CASE ~Blank(list[n])
      <4> DEFINE s == list[n]
      <4>1. s \in Strings /\ Legal(s) /\ CommaNext(more)
        BY <1>a, <3>0, <3>3
      <4>2. ListLeft(list, Append(got, s), TRUE, more)
        BY <1>1, <3>0, <3>3, ListString DEF L
      <4>3. CASE Before(list, n)
        <5>1. Suffix(ListTexts(list), n) = (Between \o w) \o more
          BY <1>a, <3>0, <4>3
        <5>2. (Between \o w) \o more = Between \o (w \o more) /\ w \o more \in Text
          <6> HIDE DEF more, w
          <6> QED
            BY <3>1, BetweenJoins
        <5>4. ListAt(list, n, got, FALSE, w \o more)
          <6>1. n \in DOMAIN list
            BY <3>0, SeqFacts DEF L
          <6> QED
            BY <1>1, <3>3, <6>1 DEF ListAt
        <5>5. ListLeft(list, got, FALSE, w \o more)
          BY <5>4 DEF ListLeft, L
        <5> HIDE DEF more, w, s
        <5> QED
          BY <5>1, <5>2, <5>5 DEF ListGoesOn
      <4>4. CASE ~Before(list, n)
        <5>1. Suffix(ListTexts(list), n) = (<<>> \o w) \o more
          BY <1>a, <3>0, <4>4
        <5>2. <<>> \o w = w
          <6> HIDE DEF w
          <6> QED
            BY <3>1, TextIs
        <5>3. ~b
          BY <1>1, <4>4
        <5>4. Suffix(ListTexts(list), n) = Written(s) \o more
          BY <5>1, <5>2
        <5> HIDE DEF more, s, w
        <5> QED
          BY <3>1, <4>1, <4>2, <5>3, <5>4 DEF ListGoesOn
      <4> QED
        BY <4>3, <4>4
    <3> QED
      BY <3>2, <3>3
  <2> QED
    BY <2>1, <2>2
<1>2. \A n \in 1 .. L + 1 : n \in S
  <2>1. \A n \in 1 .. L + 1 : (\A i \in n + 1 .. L + 1 : i \in S) => n \in S
    <3> HIDE DEF Form1
    <3> QED
      BY <1>1
  <2> HIDE DEF S
  <2> QED
    BY <1>0, <2>1, Downward
<1>3. PICK n \in 1 .. L + 1 : ListAt(list, n, got, isset, left)
  BY DEF ListLeft, L
<1>4. CASE left = Suffix(ListTexts(list), n) /\ Form1(n, isset)
  <2> HIDE DEF Form1
  <2> QED
    BY <1>2, <1>4
<1>5. CASE n \in DOMAIN list /\ ~Blank(list[n]) /\ ~isset
           /\ left = Written(list[n]) \o Suffix(ListTexts(list), n + 1)
  <2>1. n \in 1 .. L
    BY <1>5, SeqFacts DEF L
  <2>2. /\ list[n] \in Strings /\ Suffix(ListTexts(list), n + 1) \in Text
        /\ Legal(list[n]) /\ CommaNext(Suffix(ListTexts(list), n + 1))
    BY <1>a, <1>5, <2>1
  <2>3. ListLeft(list, Append(got, list[n]), TRUE, Suffix(ListTexts(list), n + 1))
    BY <1>3, <1>5, <2>1, ListString DEF ListAt, L
  <2> QED
    BY <1>5, <2>2, <2>3 DEF ListGoesOn
<1> QED
  BY <1>3, <1>4, <1>5 DEF ListAt, Before


-----------------------------------------------------------------------------
(* The empty string is one of the strings a file can have.                 *)
LEMMA StringsAre ==
    Seq(Strings \cup {EmptyString}) = Seq(Strings)
<1>1. Strings \cup {EmptyString} = Strings
  BY StringsAreText
<1> QED
  BY <1>1

(* Block by block and item by item.                                        *)
LEMMA WritableBlock ==
    ASSUME NEW t, Writable(t), NEW b \in DOMAIN t
    PROVE  /\ Len(t) \in Nat /\ Len(t) >= 1 /\ DOMAIN t = 1 .. Len(t) /\ b \in Nat /\ b >= 1
           /\ t[b] \in Blocks /\ t[b].parent \in Nat /\ t[b].name \in Seq(Strings)
           /\ t[b].items \in Seq(ItemRecords) /\ Len(t[b].items) \in Nat
           /\ DOMAIN t[b].items = 1 .. Len(t[b].items)
           /\ b # 1 => t[b].parent \in 1 .. b - 1 /\ t[b].parent \in DOMAIN t /\ t[b].name # <<>>
           /\ Readable(t[b].name)
<1>1. t \in Seq(Blocks) /\ t # <<>>
  BY DEF Writable
<1>2. Len(t) \in Nat /\ Len(t) >= 1 /\ DOMAIN t = 1 .. Len(t) /\ b \in Nat /\ b >= 1 /\ t[b] \in Blocks
  BY <1>1
<1>3. t[b].parent \in Nat /\ t[b].name \in Seq(Strings) /\ t[b].items \in Seq(ItemRecords)
  BY <1>2, StringsAre DEF Blocks
<1>4. Len(t[b].items) \in Nat /\ DOMAIN t[b].items = 1 .. Len(t[b].items)
  BY <1>3
<1>5. b # 1 => t[b].parent \in 1 .. b - 1 /\ t[b].name # <<>>
  BY DEF Writable
<1>6. b # 1 => t[b].parent \in DOMAIN t
  BY <1>2, <1>5
<1>7. Readable(t[b].name)
  BY DEF Writable
<1> QED
  BY <1>2, <1>3, <1>4, <1>5, <1>6, <1>7

(* Each item has what its type asks for, and a block is numbered higher    *)
(* than the block it is in.                                                *)
LEMMA WritableItem ==
    ASSUME NEW t, Writable(t), NEW b \in DOMAIN t, NEW n \in DOMAIN t[b].items
    PROVE  /\ n \in Nat /\ n >= 1 /\ n <= Len(t[b].items) /\ n + 1 \in 1 .. Len(t[b].items) + 1
           /\ t[b].items[n] \in ItemRecords
           /\ t[b].items[n].type \in {"comment", "value", "block"}
           /\ t[b].items[n].type = "comment" => t[b].items[n].value \in {NULL, "text"}
           /\ t[b].items[n].type # "comment" =>
                  t[b].items[n].key \in Strings /\ Plain(t[b].items[n].key)
           /\ t[b].items[n].type = "value" =>
                  t[b].items[n].value \in Seq(Strings) /\ Readable(t[b].items[n].value)
           /\ t[b].items[n].type = "block" =>
                  /\ t[b].items[n].value \in DOMAIN t /\ t[b].items[n].value # 1
                  /\ t[t[b].items[n].value].parent = b
                  /\ t[b].items[n].value \in b + 1 .. Len(t)
<1>1. n \in Nat /\ n >= 1 /\ n <= Len(t[b].items) /\ n + 1 \in 1 .. Len(t[b].items) + 1
  BY WritableBlock
<1>2. t[b].items[n] \in ItemRecords
  BY WritableBlock
<1>3. t[b].items[n].type \in {"comment", "value", "block"}
  BY <1>2 DEF ItemRecords
<1>4. /\ t[b].items[n].type = "comment" => t[b].items[n].value \in {NULL, "text"}
      /\ t[b].items[n].type # "comment" =>
                  t[b].items[n].key \in Strings /\ Plain(t[b].items[n].key)
      /\ t[b].items[n].type = "value" =>
                  t[b].items[n].value \in Seq(Strings) /\ Readable(t[b].items[n].value)
      /\ t[b].items[n].type = "block" =>
                  /\ t[b].items[n].value \in DOMAIN t /\ t[b].items[n].value # 1
                  /\ t[t[b].items[n].value].parent = b
  BY DEF Writable
<1>5. ASSUME t[b].items[n].type = "block" PROVE t[b].items[n].value \in b + 1 .. Len(t)
  <2> DEFINE c == t[b].items[n].value
  <2>1. c \in DOMAIN t /\ c # 1 /\ t[c].parent = b
    BY <1>4, <1>5
  <2> HIDE DEF c
  <2>2. t[c].parent \in 1 .. c - 1 /\ c \in Nat /\ b \in Nat /\ DOMAIN t = 1 .. Len(t) /\ Len(t) \in Nat
    BY <2>1, WritableBlock
  <2>3. c \in b + 1 .. Len(t)
    BY <2>1, <2>2
  <2> QED
    BY <2>3 DEF c
<1> QED
  BY <1>1, <1>2, <1>3, <1>4, <1>5

(* No two options of a block have the same key.                            *)
LEMMA WritableKeysDiffer ==
    ASSUME NEW t, Writable(t), NEW b \in DOMAIN t, NEW m \in DOMAIN t[b].items,
           NEW n \in DOMAIN t[b].items, m < n,
           t[b].items[m].type = "value", t[b].items[n].type = "value"
    PROVE  t[b].items[m].key # t[b].items[n].key
BY DEF Writable

(* A block has a place among the items of its parent,                      *)
LEMMA PlaceIs ==
    ASSUME NEW t, Writable(t), NEW b \in DOMAIN t, b # 1
    PROVE  /\ Place(t, b) \in DOMAIN t[t[b].parent].items
           /\ t[t[b].parent].items[Place(t, b)].type = "block"
           /\ t[t[b].parent].items[Place(t, b)].value = b
<1>1. \E n \in DOMAIN t[t[b].parent].items :
          LET item == t[t[b].parent].items[n] IN item.type = "block" /\ item.value = b
  BY DEF Writable
<1> QED
  BY <1>1 DEF Place

(* and only one.                                                           *)
LEMMA PlaceIsOne ==
    ASSUME NEW t, Writable(t), NEW b \in DOMAIN t, NEW n \in DOMAIN t[b].items,
           t[b].items[n].type = "block"
    PROVE  Place(t, t[b].items[n].value) = n
<1> DEFINE c == t[b].items[n].value
           m == Place(t, c)
<1>1. c \in DOMAIN t /\ c # 1 /\ t[c].parent = b
  BY WritableItem
<1>2. c \in Nat
  <2> HIDE DEF c
  <2> QED
    BY <1>1, WritableBlock
<1>3. m \in DOMAIN t[b].items /\ t[b].items[m].type = "block" /\ t[b].items[m].value = c
  <2> HIDE DEF c
  <2> QED
    BY <1>1, PlaceIs
<1>a. c = t[b].items[n].value
  OBVIOUS
<1> HIDE DEF c, m
<1>4. m \in Nat /\ n \in Nat
  BY <1>3, WritableItem
<1>5. m < n => t[b].items[m].value < t[b].items[n].value
  BY <1>3 DEF Writable
<1>6. n < m => t[b].items[n].value < t[b].items[m].value
  BY <1>3, SMTT(30) DEF Writable
<1> QED
  BY <1>2, <1>3, <1>4, <1>5, <1>6, <1>a DEF m, c

-----------------------------------------------------------------------------
(* What an item is in the file, in front of what follows it.               *)
LEMMA ShapedBlock ==
    ASSUME NEW t, Shaped(t), NEW b \in DOMAIN t
    PROVE  /\ Len(t) \in Nat /\ Len(t) >= 1 /\ DOMAIN t = 1 .. Len(t) /\ b \in Nat /\ b >= 1
           /\ t[b].name \in Seq(Strings)
           /\ t[b].items \in Seq(ItemRecords) /\ Len(t[b].items) \in Nat
           /\ DOMAIN t[b].items = 1 .. Len(t[b].items)
<1>1. t \in Seq(Blocks) /\ t # <<>>
  BY DEF Shaped
<1>2. /\ Len(t) \in Nat /\ Len(t) >= 1 /\ DOMAIN t = 1 .. Len(t) /\ b \in Nat /\ b >= 1
      /\ t[b] \in Blocks
  BY <1>1
<1>3. t[b].name \in Seq(Strings) /\ t[b].items \in Seq(ItemRecords)
  BY <1>2, StringsAre DEF Blocks
<1>4. Len(t[b].items) \in Nat /\ DOMAIN t[b].items = 1 .. Len(t[b].items)
  <2> DEFINE items == t[b].items
  <2>1. items \in Seq(ItemRecords)
    BY <1>3
  <2> HIDE DEF items
  <2>2. Len(items) \in Nat /\ DOMAIN items = 1 .. Len(items)
    BY <2>1
  <2> QED
    BY <2>2 DEF items
<1> QED
  BY <1>2, <1>3, <1>4


LEMMA WritableIsShaped ==
    ASSUME NEW t, Writable(t)
    PROVE  Shaped(t)
<1>1. t \in Seq(Blocks) /\ t # <<>>
  BY DEF Writable
<1>2. ASSUME NEW b \in DOMAIN t, NEW n \in DOMAIN t[b].items
      PROVE  /\ t[b].items[n].type # "comment" => t[b].items[n].key \in Strings
             /\ t[b].items[n].type = "value" => t[b].items[n].value \in Seq(Strings)
             /\ t[b].items[n].type = "block" => t[b].items[n].value \in b + 1 .. Len(t)
  BY <1>2, WritableItem
<1> QED
  BY <1>1, <1>2 DEF Shaped

(* The same of an operator that the provers know nothing else about.       *)
Then(r, s) == r \o s

LEMMA ThenIs ==
    /\ \A r, s \in Text : Then(r, s) \in Text
    /\ \A r, s, u \in Text : Then(Then(r, s), u) = Then(r, Then(s, u))
BY TextIs DEF Then

LEMMA Regrouped ==
    ASSUME NEW p \in Text, NEW q \in Text, NEW r \in Text, NEW s \in Text, NEW u \in Text
    PROVE  /\ Then(Then(Then(Then(p, q), r), s), u) = Then(p, Then(q, Then(r, Then(s, u))))
           /\ Then(Then(Then(p, q), r), s) \in Text
<1>1. Then(p, q) \in Text /\ Then(Then(p, q), r) \in Text /\ Then(s, u) \in Text /\ Then(r, Then(s, u)) \in Text
  BY ThenIs
<1>2. Then(Then(Then(Then(p, q), r), s), u) = Then(Then(Then(p, q), r), Then(s, u))
  BY <1>1, ThenIs
<1>3. Then(Then(Then(p, q), r), Then(s, u)) = Then(Then(p, q), Then(r, Then(s, u)))
  BY <1>1, ThenIs
<1>4. Then(Then(p, q), Then(r, Then(s, u))) = Then(p, Then(q, Then(r, Then(s, u))))
  BY <1>1, ThenIs
<1>5. Then(Then(Then(p, q), r), s) \in Text
  BY <1>1, ThenIs
<1> QED
  BY <1>2, <1>3, <1>4, <1>5

(* What an item is in the file, in front of the rest of it.                *)
ItemThen(t, item, inner, rest) ==
    CASE item.type = "comment" ->
            (IF item.value = NULL THEN <<>> ELSE Hash) \o (NewLine \o rest)
      [] item.type = "value" ->
            item.key \o (Assign \o (nfcconf_list_get_string(item.value) \o (ListEnd \o rest)))
      [] item.type = "block" ->
            item.key \o (Gap \o (nfcconf_list_get_string(t[item.value].name)
                \o (HeadEnd \o (inner \o (Foot \o rest)))))

(* The text of an item, in front of any other text.                        *)
LEMMA ItemTextThen ==
    ASSUME NEW t, Shaped(t), NEW b \in DOMAIN t, NEW n \in DOMAIN t[b].items, NEW inner \in Text
    PROVE  /\ ItemText(t, t[b].items[n], inner) \in Text
           /\ \A rest \in Text :
                  ItemText(t, t[b].items[n], inner) \o rest = ItemThen(t, t[b].items[n], inner, rest)
<1> DEFINE item == t[b].items[n]
           text == ItemText(t, item, inner)
<1>0. /\ item.type \in {"comment", "value", "block"}
      /\ item.type # "comment" => item.key \in Text
      /\ item.type = "value" => nfcconf_list_get_string(item.value) \in Text
      /\ item.type = "block" => nfcconf_list_get_string(t[item.value].name) \in Text
  <2>1. item.type \in {"comment", "value", "block"}
    <3>1. t[b].items[n] \in ItemRecords
      BY ShapedBlock
    <3> QED
      BY <3>1 DEF ItemRecords
  <2>2. item.type # "comment" => item.key \in Text
    BY StringsAreText DEF Shaped
  <2>3. item.type = "value" => nfcconf_list_get_string(item.value) \in Text
    BY NotEmptyTyped DEF Shaped
  <2>4. ASSUME item.type = "block" PROVE nfcconf_list_get_string(t[item.value].name) \in Text
    <3>1. item.value \in b + 1 .. Len(t)
      BY <2>4 DEF Shaped
    <3> HIDE DEF item
    <3>2. item.value \in DOMAIN t
      BY <3>1, ShapedBlock
    <3>3. t[item.value].name \in Seq(Strings)
      BY <3>2, ShapedBlock
    <3> QED
      BY <3>3, NotEmptyTyped
  <2> QED
    BY <2>1, <2>2, <2>3, <2>4
<1> HIDE DEF item, text
<1>1. CASE item.type = "comment"
  <2> DEFINE mark == IF item.value = NULL THEN <<>> ELSE Hash
             end == NewLine
  <2>1. mark \in Text /\ end \in Text
    BY MarksAreText, TextIs
  <2>a. text = mark \o end
    BY <1>1, Zenon DEF ItemText, text, Hash, NewLine
  <2>b. \A rest : ItemThen(t, item, inner, rest) = mark \o (end \o rest)
    BY <1>1, Zenon DEF ItemThen
  <2> HIDE DEF mark, end
  <2>2. text \in Text
    BY <2>1, <2>a, TextIs
  <2>3. ASSUME NEW rest \in Text PROVE text \o rest = ItemThen(t, item, inner, rest)
    <3>1. (mark \o end) \o rest = mark \o (end \o rest)
      BY <2>1, TextIs
    <3> QED
      BY <2>a, <2>b, <3>1
  <2> QED
    BY <2>2, <2>3 DEF item, text
<1>2. CASE item.type = "value"
  <2> DEFINE p == item.key
             q == Assign
             r == nfcconf_list_get_string(item.value)
             s == ListEnd
  <2>0. item.type # "comment" /\ item.type # "block"
    BY <1>2
  <2>1. p \in Text /\ q \in Text /\ r \in Text /\ s \in Text
    BY <1>0, <1>2, <2>0, MarksAreText, Zenon
  <2>2. text = ((p \o q) \o r) \o s
    BY <1>2, <2>0, Zenon DEF ItemText, text, Assign, ListEnd
  <2>3. \A rest : ItemThen(t, item, inner, rest) = p \o (q \o (r \o (s \o rest)))
    BY <1>2, <2>0, Zenon DEF ItemThen
  <2> HIDE DEF p, q, r, s
  <2>5. text \in Text
    <3>1. Then(Then(Then(p, q), r), s) \in Text
      BY <2>1, ThenIs
    <3> QED
      BY <2>2, <3>1 DEF Then
  <2>6. ASSUME NEW rest \in Text PROVE text \o rest = ItemThen(t, item, inner, rest)
    <3>1. Then(Then(Then(Then(p, q), r), s), rest) = Then(p, Then(q, Then(r, Then(s, rest))))
      BY <2>1, Regrouped
    <3>2. (((p \o q) \o r) \o s) \o rest = p \o (q \o (r \o (s \o rest)))
      BY <3>1 DEF Then
    <3> QED
      BY <2>2, <2>3, <3>2
  <2> QED
    BY <2>5, <2>6 DEF item, text
<1>3. CASE item.type = "block"
  <2> DEFINE p == item.key
             q == Gap
             r == nfcconf_list_get_string(t[item.value].name)
             s == HeadEnd
             end == Foot
  <2>0. item.type # "comment" /\ item.type # "value"
    BY <1>3
  <2>1. p \in Text /\ q \in Text /\ r \in Text /\ s \in Text /\ end \in Text
    BY <1>0, <1>3, <2>0, MarksAreText, Zenon
  <2>2. text = ((((p \o q) \o r) \o s) \o inner) \o end
    BY <1>3, <2>0, Zenon DEF ItemText, BlockText, BlockHead, text, Gap, HeadEnd, Foot
  <2>3. \A rest : ItemThen(t, item, inner, rest) =
                      p \o (q \o (r \o (s \o (inner \o (end \o rest)))))
    BY <1>3, <2>0, Zenon DEF ItemThen
  <2> HIDE DEF p, q, r, s, end
  <2> DEFINE u == Then(Then(Then(p, q), r), s)
  <2>4. u \in Text
    BY <2>1, ThenIs
  <2>a. text = Then(Then(u, inner), end)
    BY <2>2 DEF Then
  <2>5. text \in Text /\ Then(u, inner) \in Text
    <3> HIDE DEF u
    <3> QED
      BY <2>1, <2>4, <2>a, ThenIs
  <2>6. ASSUME NEW rest \in Text PROVE text \o rest = ItemThen(t, item, inner, rest)
    <3> DEFINE v == Then(inner, Then(end, rest))
    <3>1. v \in Text /\ Then(end, rest) \in Text
      BY <2>1, ThenIs
    <3>2. Then(text, rest) = Then(u, v)
      <4> HIDE DEF u
      <4>1. Then(Then(Then(u, inner), end), rest) = Then(Then(u, inner), Then(end, rest))
        BY <2>1, <2>5, ThenIs
      <4>2. Then(Then(u, inner), Then(end, rest)) = Then(u, Then(inner, Then(end, rest)))
        BY <2>4, <3>1, ThenIs
      <4> QED
        BY <2>a, <4>1, <4>2
    <3> HIDE DEF v
    <3>3. Then(u, v) = Then(p, Then(q, Then(r, Then(s, v))))
      BY <2>1, <3>1, Regrouped
    <3>4. Then(text, rest) = Then(p, Then(q, Then(r, Then(s, Then(inner, Then(end, rest))))))
      BY <3>2, <3>3 DEF v
    <3> QED
      BY <2>3, <3>4 DEF Then
  <2> QED
    BY <2>5, <2>6 DEF item, text
<1> QED
  BY <1>0, <1>1, <1>2, <1>3 DEF item, text

(* The recursive functions of what is written have values.                 *)
LEMMA TextsTyped ==
    ASSUME NEW t, Shaped(t), NEW b \in DOMAIN t, NEW f, \A c \in b + 1 .. Len(t) : f[c] \in Text
    PROVE  /\ TextsWith(t, f, b) \in Seq(Text)
           /\ Len(TextsWith(t, f, b)) = Len(t[b].items)
           /\ \A n \in DOMAIN t[b].items :
                  /\ InnerText(t, f, b, n) \in Text
                  /\ TextsWith(t, f, b)[n] = ItemText(t, t[b].items[n], InnerText(t, f, b, n))
           /\ InsideBody(t, f, b) \in Text
<1>1. Len(t[b].items) \in Nat /\ DOMAIN t[b].items = 1 .. Len(t[b].items)
  BY ShapedBlock
<1>2. ASSUME NEW n \in DOMAIN t[b].items
      PROVE  /\ InnerText(t, f, b, n) \in Text
             /\ ItemText(t, t[b].items[n], InnerText(t, f, b, n)) \in Text
  <2>1. t[b].items[n].type = "block" => t[b].items[n].value \in b + 1 .. Len(t)
    BY DEF Shaped
  <2>2. InnerText(t, f, b, n) \in Text
    BY <2>1, TextIs DEF InnerText
  <2> QED
    BY <2>2, ItemTextThen
<1>3. TextsWith(t, f, b) \in Seq(Text) /\ Len(TextsWith(t, f, b)) = Len(t[b].items)
  <2> DEFINE L == Len(t[b].items)
             e(n) == ItemText(t, t[b].items[n], InnerText(t, f, b, n))
  <2>1. TextsWith(t, f, b) = [n \in 1 .. L |-> e(n)] /\ L \in Nat
    BY <1>1 DEF TextsWith
  <2>2. \A n \in 1 .. L : e(n) \in Text
    BY <1>1, <1>2
  <2> HIDE DEF L, e
  <2>3. [n \in 1 .. L |-> e(n)] \in Seq(Text) /\ Len([n \in 1 .. L |-> e(n)]) = L
    BY <2>1, <2>2
  <2> QED
    BY <2>1, <2>3 DEF L
<1>4. InsideBody(t, f, b) \in Text
  <2>1. TextsWith(t, f, b) \in Seq(Seq(Chars))
    BY <1>3 DEF Text
  <2> QED
    BY <2>1, FlattenTyped DEF InsideBody, Text
<1> QED
  BY <1>2, <1>3, <1>4 DEF TextsWith

(* The text of a block is about the blocks inside it only, which have      *)
(* higher numbers.                                                         *)
LEMMA TextsSame ==
    ASSUME NEW t, Shaped(t), NEW b \in DOMAIN t, NEW f, NEW g,
           \A c \in b + 1 .. Len(t) : f[c] = g[c]
    PROVE  TextsWith(t, f, b) = TextsWith(t, g, b) /\ InsideBody(t, f, b) = InsideBody(t, g, b)
<1>1. ASSUME NEW n \in DOMAIN t[b].items PROVE InnerText(t, f, b, n) = InnerText(t, g, b, n)
  <2>1. t[b].items[n].type = "block" => t[b].items[n].value \in b + 1 .. Len(t)
    BY DEF Shaped
  <2> QED
    BY <2>1 DEF InnerText
<1>2. TextsWith(t, f, b) = TextsWith(t, g, b)
  BY <1>1 DEF TextsWith
<1> QED
  BY <1>2 DEF InsideBody

(* So the function of the text inside each block is defined, from the last *)
(* block to the first,                                                     *)
LEMMA InsideExists ==
    ASSUME NEW t, Shaped(t)
    PROVE  \E f : f = [b \in DOMAIN t |-> InsideBody(t, f, b)] /\ \A b \in DOMAIN t : f[b] \in Text
<1> DEFINE L == Len(t)
           Partly(k) == \E f : /\ f = [b \in k .. L |-> InsideBody(t, f, b)]
                               /\ \A b \in k .. L : f[b] \in Text
           S == {k \in 1 .. L + 1 : Partly(k)}
<1>0. L \in Nat /\ L >= 1 /\ DOMAIN t = 1 .. L
  <2>1. t \in Seq(Blocks) /\ t # <<>>
    BY DEF Shaped
  <2> QED
    BY <2>1
<1>1. ASSUME NEW n \in 1 .. L + 1, \A k \in n + 1 .. L + 1 : k \in S
      PROVE  n \in S
  <2>1. CASE n = L + 1
    <3> DEFINE f == [b \in n .. L |-> {}]
    <3>1. n .. L = {}
      BY <1>0, <2>1
    <3>2. f = [b \in n .. L |-> InsideBody(t, f, b)] /\ \A b \in n .. L : f[b] \in Text
      BY <3>1
    <3> QED
      BY <3>2
  <2>2. CASE n # L + 1
    <3>0. n \in Nat /\ n \in 1 .. L /\ n + 1 \in n + 1 .. L + 1
      BY <1>0, <2>2
    <3>1. Partly(n + 1)
      <4>1. n + 1 \in S
        <5> HIDE DEF S
        <5> QED
          BY <1>1, <3>0
      <4> HIDE DEF Partly
      <4> QED
        BY <4>1
    <3>2. PICK f : /\ f = [b \in n + 1 .. L |-> InsideBody(t, f, b)]
                   /\ \A b \in n + 1 .. L : f[b] \in Text
      BY <3>1
    <3> DEFINE g == [b \in n .. L |-> InsideBody(t, f, b)]
    <3>3. ASSUME NEW c \in n + 1 .. L PROVE f[c] = g[c]
      <4>1. f[c] = InsideBody(t, f, c)
        BY <3>2
      <4>2. c \in n .. L
        BY <3>0
      <4> QED
        BY <4>1, <4>2
    <3>4. ASSUME NEW b \in n .. L
          PROVE  InsideBody(t, f, b) = InsideBody(t, g, b) /\ InsideBody(t, f, b) \in Text
      <4>1. b \in DOMAIN t /\ \A c \in b + 1 .. L : c \in n + 1 .. L
        BY <1>0, <3>0
      <4>2. \A c \in b + 1 .. Len(t) : f[c] = g[c] /\ f[c] \in Text
        BY <3>2, <3>3, <4>1
      <4> HIDE DEF g
      <4> QED
        BY <4>1, <4>2, TextsSame, TextsTyped
    <3>5. g = [b \in n .. L |-> InsideBody(t, g, b)] /\ \A b \in n .. L : g[b] \in Text
      <4>1. g = [b \in n .. L |-> InsideBody(t, f, b)]
        OBVIOUS
      <4> HIDE DEF g
      <4> QED
        BY <3>4, <4>1
    <3> QED
      BY <3>5
  <2> QED
    BY <2>1, <2>2
<1>2. 1 \in S
  <2>1. L + 1 \in Nat /\ 1 \in 1 .. L + 1
    BY <1>0
  <2> HIDE DEF S
  <2>2. \A n \in 1 .. L + 1 : n \in S
    BY <2>1, <1>1, Downward
  <2> QED
    BY <2>1, <2>2
<1> QED
  BY <1>0, <1>2

(* and is what its definition says.                                        *)
LEMMA InsideIs ==
    ASSUME NEW t, Shaped(t), NEW b \in DOMAIN t
    PROVE  /\ Inside(t)[b] = FlattenSeq(Texts(t, b))
           /\ Inside(t)[b] \in Text
           /\ Texts(t, b) \in Seq(Text)
           /\ Len(Texts(t, b)) = Len(t[b].items)
           /\ \A n \in DOMAIN t[b].items :
                  /\ InnerText(t, Inside(t), b, n) \in Text
                  /\ Texts(t, b)[n] = ItemText(t, t[b].items[n], InnerText(t, Inside(t), b, n))
<1>1. PICK f : f = [a \in DOMAIN t |-> InsideBody(t, f, a)] /\ \A a \in DOMAIN t : f[a] \in Text
  BY InsideExists
<1>2. Inside(t) = [a \in DOMAIN t |-> InsideBody(t, Inside(t), a)]
  <2> DEFINE g == CHOOSE g : g = [a \in DOMAIN t |-> InsideBody(t, g, a)]
  <2>1. Inside(t) = g
    BY DEF Inside
  <2>2. g = [a \in DOMAIN t |-> InsideBody(t, g, a)]
    BY <1>1
  <2> HIDE DEF g
  <2> QED
    BY <2>1, <2>2
<1>3. \A a \in DOMAIN t : Inside(t)[a] \in Text
  <2> DEFINE L == Len(t)
             S == {a \in 1 .. L : Inside(t)[a] \in Text}
  <2>0. L \in Nat /\ DOMAIN t = 1 .. L
    BY ShapedBlock
  <2>1. ASSUME NEW a \in 1 .. L, \A c \in a + 1 .. L : c \in S PROVE a \in S
    <3>1. Inside(t)[a] = InsideBody(t, Inside(t), a)
      BY <1>2, <2>0
    <3>2. InsideBody(t, Inside(t), a) \in Text
      <4>1. \A c \in a + 1 .. Len(t) : Inside(t)[c] \in Text
        BY <2>1
      <4> QED
        BY <2>0, <4>1, TextsTyped
    <3> QED
      BY <3>1, <3>2
  <2> HIDE DEF S
  <2>2. \A a \in 1 .. L : a \in S
    BY <2>0, <2>1, Downward
  <2> QED
    BY <2>0, <2>2 DEF S
<1>4. \A c \in b + 1 .. Len(t) : Inside(t)[c] \in Text
  <2>1. DOMAIN t = 1 .. Len(t) /\ b \in Nat /\ b >= 1
    BY ShapedBlock
  <2>2. \A c \in b + 1 .. Len(t) : c \in DOMAIN t
    BY <2>1
  <2> QED
    BY <1>3, <2>2
<1>5. Inside(t)[b] = InsideBody(t, Inside(t), b)
  BY <1>2
<1> QED
  BY <1>3, <1>4, <1>5, TextsTyped DEF InsideBody, Texts

(* nfcconf_write_items() writes what is inside the root.                   *)
LEMMA WriterWrites ==
    ASSUME NEW t, Shaped(t)
    PROVE  nfcconf_write_items(t) = Inside(t)[1]
BY DEF nfcconf_write_items, Inside, InsideBody, TextsWith, InnerText

(* What stands behind a block in its parent is text.                       *)

(* What stands behind a block in its parent is text.                       *)
LEMMA AfterHere ==
    ASSUME NEW t, Writable(t), NEW b \in DOMAIN t, b # 1
    PROVE  Suffix(Texts(t, t[b].parent), Place(t, b) + 1) \in Text
<1> DEFINE p == t[b].parent
           n == Place(t, b) + 1
<1>1. p \in DOMAIN t
  BY WritableBlock
<1>2. Place(t, b) \in DOMAIN t[p].items
  BY PlaceIs
<1> HIDE DEF p
<1>3. n \in 1 .. Len(t[p].items) + 1
  BY <1>1, <1>2, WritableItem
<1>4. Texts(t, p) \in Seq(Text) /\ Len(Texts(t, p)) = Len(t[p].items)
  BY <1>1, WritableIsShaped, InsideIs
<1> HIDE DEF n
<1>5. Suffix(Texts(t, p), n) \in Text
  BY <1>3, <1>4, TextSuffixIs
<1> QED
  BY <1>5 DEF p, n

(* The text behind a block is about the blocks around it only, which have  *)
(* lower numbers.                                                          *)
LEMMA AfterBodyIs ==
    ASSUME NEW t, Writable(t), NEW b \in DOMAIN t, NEW f, NEW g,
           \A a \in 1 .. b - 1 : f[a] \in Text /\ f[a] = g[a]
    PROVE  AfterBody(t, f, b) \in Text /\ AfterBody(t, f, b) = AfterBody(t, g, b)
<1>1. CASE b = 1
  BY <1>1, TextIs DEF AfterBody
<1>2. CASE b # 1
  <2> DEFINE a == t[b].parent
             u == Suffix(Texts(t, a), Place(t, b) + 1)
             v == Foot
  <2>1. a \in 1 .. b - 1
    BY <1>2, WritableBlock
  <2>2. u \in Text
    BY <1>2, AfterHere
  <2>3. v \in Text
    BY MarksAreText
  <2>4. AfterBody(t, f, b) = v \o (u \o f[a]) /\ AfterBody(t, g, b) = v \o (u \o g[a])
    BY <1>2 DEF AfterBody
  <2> HIDE DEF a, u, v
  <2>5. f[a] \in Text /\ f[a] = g[a]
    BY <2>1
  <2>6. v \o (u \o f[a]) \in Text
    <3>1. u \o f[a] \in Text
      BY <2>2, <2>5, TextIs
    <3> QED
      BY <2>3, <3>1, TextIs
  <2> QED
    BY <2>4, <2>5, <2>6
<1> QED
  BY <1>1, <1>2

(* So the function of the text behind each block is defined, from the root *)
(* down,                                                                   *)
LEMMA AfterExists ==
    ASSUME NEW t, Writable(t)
    PROVE  \E f : f = [b \in DOMAIN t |-> AfterBody(t, f, b)] /\ \A b \in DOMAIN t : f[b] \in Text
<1> DEFINE L == Len(t)
           Partly(k) == \E f : /\ f = [b \in 1 .. k |-> AfterBody(t, f, b)]
                               /\ \A b \in 1 .. k : f[b] \in Text
           S == {k \in 1 .. L : Partly(k)}
<1>0. L \in Nat /\ L >= 1 /\ DOMAIN t = 1 .. L
  <2>1. t \in Seq(Blocks) /\ t # <<>>
    BY DEF Writable
  <2> QED
    BY <2>1
<1>1. ASSUME NEW n \in 1 .. L, \A k \in 1 .. n - 1 : k \in S
      PROVE  n \in S
  <2>0. n \in Nat
    BY <1>0
  <2>1. PICK f : /\ f = [b \in 1 .. n - 1 |-> AfterBody(t, f, b)]
                 /\ \A b \in 1 .. n - 1 : f[b] \in Text
    <3>1. CASE n = 1
      <4> DEFINE f == [b \in 1 .. n - 1 |-> {}]
      <4>1. 1 .. n - 1 = {}
        BY <3>1
      <4>2. f = [b \in 1 .. n - 1 |-> AfterBody(t, f, b)] /\ \A b \in 1 .. n - 1 : f[b] \in Text
        BY <4>1
      <4> QED
        BY <4>2
    <3>2. CASE n # 1
      <4>1. n - 1 \in S
        <5>1. n - 1 \in 1 .. n - 1
          BY <2>0, <3>2
        <5> HIDE DEF S
        <5> QED
          BY <1>1, <5>1
      <4>2. Partly(n - 1)
        BY <4>1
      <4> QED
        BY <4>2
    <3> QED
      BY <3>1, <3>2
  <2> DEFINE g == [b \in 1 .. n |-> AfterBody(t, f, b)]
  <2>2. ASSUME NEW a \in 1 .. n - 1 PROVE f[a] \in Text /\ f[a] = g[a]
    <3>1. f[a] = AfterBody(t, f, a) /\ f[a] \in Text
      BY <2>1
    <3>2. a \in 1 .. n
      BY <2>0
    <3> QED
      BY <3>1, <3>2
  <2>3. ASSUME NEW b \in 1 .. n
        PROVE  AfterBody(t, f, b) \in Text /\ AfterBody(t, f, b) = AfterBody(t, g, b)
    <3>1. b \in DOMAIN t /\ \A a \in 1 .. b - 1 : a \in 1 .. n - 1
      BY <1>0, <2>0
    <3>2. \A a \in 1 .. b - 1 : f[a] \in Text /\ f[a] = g[a]
      BY <2>2, <3>1
    <3> HIDE DEF g
    <3> QED
      BY <3>1, <3>2, AfterBodyIs
  <2>4. g = [b \in 1 .. n |-> AfterBody(t, g, b)] /\ \A b \in 1 .. n : g[b] \in Text
    <3>1. g = [b \in 1 .. n |-> AfterBody(t, f, b)]
      OBVIOUS
    <3> HIDE DEF g
    <3> QED
      BY <2>3, <3>1
  <2> QED
    BY <2>4
<1>2. L \in S
  <2>1. L \in 1 .. L
    BY <1>0
  <2> HIDE DEF S
  <2>2. \A n \in 1 .. L : n \in S
    BY <1>0, <1>1, Upward
  <2> QED
    BY <2>1, <2>2
<1> QED
  BY <1>0, <1>2

(* and is what its definition says.                                        *)
LEMMA AfterIs ==
    ASSUME NEW t, Writable(t), NEW b \in DOMAIN t
    PROVE  /\ After(t)[b] \in Text
           /\ b = 1 => After(t)[b] = <<>>
           /\ b # 1 => After(t)[b] = Foot \o Rest(t, t[b].parent, Place(t, b) + 1)
<1>1. PICK f : f = [a \in DOMAIN t |-> AfterBody(t, f, a)] /\ \A a \in DOMAIN t : f[a] \in Text
  BY AfterExists
<1>2. After(t) = [a \in DOMAIN t |-> AfterBody(t, After(t), a)]
  <2> DEFINE g == CHOOSE g : g = [a \in DOMAIN t |-> AfterBody(t, g, a)]
  <2>1. After(t) = g
    BY DEF After
  <2>2. g = [a \in DOMAIN t |-> AfterBody(t, g, a)]
    BY <1>1
  <2> HIDE DEF g
  <2> QED
    BY <2>1, <2>2
<1>3. \A a \in DOMAIN t : After(t)[a] \in Text
  <2> DEFINE L == Len(t)
             S == {a \in 1 .. L : After(t)[a] \in Text}
  <2>0. L \in Nat /\ DOMAIN t = 1 .. L
    BY WritableBlock
  <2>1. ASSUME NEW a \in 1 .. L, \A c \in 1 .. a - 1 : c \in S PROVE a \in S
    <3>1. After(t)[a] = AfterBody(t, After(t), a)
      BY <1>2, <2>0
    <3>2. AfterBody(t, After(t), a) \in Text
      <4>1. \A c \in 1 .. a - 1 : After(t)[c] \in Text
        BY <2>1
      <4> QED
        BY <2>0, <4>1, AfterBodyIs
    <3> QED
      BY <3>1, <3>2
  <2> HIDE DEF S
  <2>2. \A a \in 1 .. L : a \in S
    BY <2>0, <2>1, Upward
  <2> QED
    BY <2>0, <2>2 DEF S
<1>4. After(t)[b] = AfterBody(t, After(t), b)
  BY <1>2
<1> QED
  BY <1>3, <1>4 DEF AfterBody, Rest

(* What is left of the file from an item on, to be read one token after    *)
(* the other.                                                              *)
LEMMA RestTyped ==
    ASSUME NEW t, Writable(t), NEW b \in DOMAIN t, NEW n \in 1 .. Len(t[b].items) + 1
    PROVE  /\ Rest(t, b, n) \in Text
           /\ n = Len(t[b].items) + 1 => Rest(t, b, n) = After(t)[b]
           /\ n \in DOMAIN t[b].items => Rest(t, b, n) = Texts(t, b)[n] \o Rest(t, b, n + 1)
           /\ Rest(t, b, 1) = Inside(t)[b] \o After(t)[b]
<1>1. /\ Texts(t, b) \in Seq(Text) /\ Len(Texts(t, b)) = Len(t[b].items)
      /\ Inside(t)[b] = FlattenSeq(Texts(t, b))
  BY WritableIsShaped, InsideIs
<1>2. After(t)[b] \in Text
  BY AfterIs
<1> DEFINE texts == Texts(t, b)
           a == After(t)[b]
           s == Suffix(texts, n)
<1>3. /\ s \in Text
      /\ n = Len(texts) + 1 => s = <<>>
      /\ n \in DOMAIN texts => s = texts[n] \o Suffix(texts, n + 1)
      /\ Suffix(texts, 1) = FlattenSeq(texts)
  <2> HIDE DEF texts
  <2> QED
    BY <1>1, TextSuffixIs DEF texts
<1>4. Rest(t, b, n) = s \o a /\ Rest(t, b, n + 1) = Suffix(texts, n + 1) \o a
      /\ Rest(t, b, 1) = Suffix(texts, 1) \o a
  BY DEF Rest
<1>5. ASSUME n \in DOMAIN t[b].items PROVE Rest(t, b, n) = texts[n] \o Rest(t, b, n + 1)
  <2>1. n + 1 \in 1 .. Len(t[b].items) + 1 /\ DOMAIN t[b].items = 1 .. Len(t[b].items)
    BY <1>5, WritableItem, WritableBlock
  <2> DEFINE u == Suffix(texts, n + 1)
             x == texts[n]
  <2>2. u \in Text /\ x \in Text
    <3>1. u \in Text
      <4> HIDE DEF texts
      <4> QED
        BY <1>1, <2>1, TextSuffixIs DEF texts
    <3>2. x \in Text
      <4>1. n \in 1 .. Len(texts) /\ texts \in Seq(Text)
        BY <1>1, <1>5, <2>1
      <4> HIDE DEF texts
      <4> QED
        BY <4>1
    <3> QED
      BY <3>1, <3>2
  <2>3. s = x \o u
    <3>1. n \in DOMAIN texts
      BY <1>1, <1>5, <2>1
    <3> QED
      BY <1>3, <3>1
  <2> HIDE DEF texts, a, s, x, u
  <2>4. (x \o u) \o a = x \o (u \o a)
    BY <1>2, <2>2, TextIs DEF a
  <2> QED
    BY <1>4, <2>3, <2>4 DEF x, u
<1>6. ASSUME n = Len(t[b].items) + 1 PROVE Rest(t, b, n) = a
  <2>1. s = <<>>
    BY <1>1, <1>3, <1>6
  <2> HIDE DEF s, a
  <2> QED
    BY <1>2, <1>4, <2>1, TextIs DEF a
<1>7. Rest(t, b, n) \in Text
  <2> HIDE DEF s, a
  <2> QED
    BY <1>2, <1>3, <1>4, TextIs, Zenon DEF a
<1> QED
  BY <1>1, <1>3, <1>4, <1>5, <1>6, <1>7

(* What is left of the file at an item begins with what the item is        *)
(* written as.                                                             *)
LEMMA RestGoesOn ==
    ASSUME NEW t, Writable(t), NEW b \in DOMAIN t, NEW n \in DOMAIN t[b].items
    PROVE  LET item == t[b].items[n]
           IN  /\ Rest(t, b, n + 1) \in Text
               /\ item.type = "comment" => Rest(t, b, n) =
                    (IF item.value = NULL THEN <<>> ELSE Hash) \o (NewLine \o Rest(t, b, n + 1))
               /\ item.type = "value" => Rest(t, b, n) =
                    item.key \o (Assign \o (nfcconf_list_get_string(item.value)
                        \o (ListEnd \o Rest(t, b, n + 1))))
               /\ item.type = "block" =>
                    /\ Rest(t, item.value, 1) \in Text
                    /\ Rest(t, b, n) =
                         item.key \o (Gap \o (nfcconf_list_get_string(t[item.value].name)
                             \o (HeadEnd \o Rest(t, item.value, 1))))
<1> DEFINE item == t[b].items[n]
           more == Rest(t, b, n + 1)
           inner == InnerText(t, Inside(t), b, n)
<1>1. n \in 1 .. Len(t[b].items) + 1 /\ n + 1 \in 1 .. Len(t[b].items) + 1
  <2>1. n \in 1 .. Len(t[b].items) /\ Len(t[b].items) \in Nat
    BY WritableBlock
  <2> QED
    BY <2>1
<1>2. more \in Text /\ Rest(t, b, n) = Texts(t, b)[n] \o more
  BY <1>1, RestTyped
<1>3. inner \in Text /\ Texts(t, b)[n] = ItemText(t, item, inner)
  BY WritableIsShaped, InsideIs
<1>4. Rest(t, b, n) = ItemThen(t, item, inner, more)
  <2> HIDE DEF inner, more
  <2>1. \A rest \in Text : ItemText(t, item, inner) \o rest = ItemThen(t, item, inner, rest)
    <3>1. Shaped(t)
      BY WritableIsShaped
    <3> QED
      BY <1>3, <3>1, ItemTextThen, ZenonT(30)
  <2> HIDE DEF item
  <2> QED
    BY <1>2, <1>3, <2>1
<1>5. ASSUME item.type = "block"
      PROVE  /\ Rest(t, item.value, 1) \in Text
             /\ Rest(t, item.value, 1) = inner \o (Foot \o more)
  <2> DEFINE c == item.value
  <2>1. inner = Inside(t)[c]
    BY <1>5 DEF InnerText
  <2>2. c \in DOMAIN t /\ c # 1 /\ t[c].parent = b
    BY <1>5, WritableItem
  <2>3. Place(t, c) = n
    BY <1>5, PlaceIsOne
  <2> HIDE DEF c
  <2>4. 1 \in 1 .. Len(t[c].items) + 1
    <3>1. Len(t[c].items) \in Nat
      BY <2>2, WritableBlock
    <3> QED
      BY <3>1
  <2>5. Rest(t, c, 1) \in Text /\ Rest(t, c, 1) = Inside(t)[c] \o After(t)[c]
    BY <2>2, <2>4, RestTyped
  <2>6. After(t)[c] = Foot \o more
    BY <2>2, <2>3, AfterIs
  <2> HIDE DEF inner, more
  <2> QED
    BY <2>1, <2>5, <2>6 DEF c
<1> HIDE DEF inner, more, item
<1>6. CASE item.type = "block"
  <2>1. ItemThen(t, item, inner, more) =
            item.key \o (Gap \o (nfcconf_list_get_string(t[item.value].name)
                \o (HeadEnd \o (inner \o (Foot \o more)))))
    BY <1>6 DEF ItemThen
  <2> QED
    BY <1>2, <1>4, <1>5, <1>6, <2>1 DEF item, more
<1>7. CASE item.type = "value"
  BY <1>2, <1>4, <1>7 DEF ItemThen, item, more
<1>8. CASE item.type = "comment"
  BY <1>2, <1>4, <1>8 DEF ItemThen, item, more
<1>9. item.type \in {"comment", "value", "block"}
  BY WritableItem DEF item
<1> QED
  BY <1>6, <1>7, <1>8, <1>9 DEF item

(* At the end of a block its foot is left, and what stands behind the      *)
(* block. At the end of the root nothing is left.                          *)
LEMMA RestEnds ==
    ASSUME NEW t, Writable(t), NEW b \in DOMAIN t, NEW n, n = Len(t[b].items) + 1
    PROVE  /\ b = 1 => Rest(t, b, n) = <<>>
           /\ b # 1 =>
                /\ Rest(t, t[b].parent, Place(t, b) + 1) \in Text
                /\ Rest(t, b, n) = Foot \o Rest(t, t[b].parent, Place(t, b) + 1)
<1>1. n \in 1 .. Len(t[b].items) + 1
  <2>1. Len(t[b].items) \in Nat
    BY WritableBlock
  <2> QED
    BY <2>1
<1>2. Rest(t, b, n) = After(t)[b]
  BY <1>1, RestTyped
<1>3. ASSUME b # 1 PROVE Rest(t, t[b].parent, Place(t, b) + 1) \in Text
  <2>1. t[b].parent \in DOMAIN t
    BY <1>3, WritableBlock
  <2>2. Place(t, b) \in DOMAIN t[t[b].parent].items
    BY <1>3, PlaceIs
  <2>3. Place(t, b) + 1 \in 1 .. Len(t[t[b].parent].items) + 1
    BY <2>1, <2>2, WritableItem
  <2> QED
    BY <2>1, <2>3, RestTyped
<1> QED
  BY <1>2, <1>3, AfterIs

-----------------------------------------------------------------------------
(* The tokens of what is left of the file, at an item or at the end of a   *)
(* block.                                                                  *)
LEMMA RestScanTyped ==
    ASSUME NEW t, Writable(t), NEW b \in DOMAIN t, NEW n \in 1 .. Len(t[b].items) + 1
    PROVE  RestScan(t, b, n) \in Seq(Tokens)
<1>1. Rest(t, b, n) \in Text
  BY RestTyped
<1> QED
  BY <1>1, ScanTyped DEF RestScan

(* A value or a block: its key, and more.                                  *)
KeyThen(t, b, n, more) ==
    LET item == t[b].items[n]
    IN  /\ RestScan(t, b, n) = <<Word(item.key)>> \o more
        /\ item.type = "value" =>
             more = <<Mark("=")>> \o Scan(nfcconf_list_get_string(item.value)
                                            \o (ListEnd \o Rest(t, b, n + 1)))
        /\ item.type = "block" =>
             more = Scan(nfcconf_list_get_string(t[item.value].name)
                         \o (HeadEnd \o Rest(t, item.value, 1)))

(* An option or a block begins with its key.                               *)
LEMMA KeyGoesOn ==
    ASSUME NEW t, Writable(t), NEW b \in DOMAIN t, NEW n \in DOMAIN t[b].items,
           t[b].items[n].type # "comment"
    PROVE  \E more \in Seq(Tokens) : KeyThen(t, b, n, more)
<1> DEFINE item == t[b].items[n]
           values == nfcconf_list_get_string(item.value) \o (ListEnd \o Rest(t, b, n + 1))
           names == nfcconf_list_get_string(t[item.value].name) \o (HeadEnd \o Rest(t, item.value, 1))
<1>1. /\ item.type \in {"value", "block"}
      /\ item.key \in Text /\ Plain(item.key)
      /\ item.type = "value" => item.value \in Seq(Strings)
      /\ item.type = "block" => item.value \in DOMAIN t
  BY WritableItem, StringsAreText, SMTT(30)
<1>2. /\ Rest(t, b, n + 1) \in Text
      /\ item.type = "value" => Rest(t, b, n) = item.key \o (Assign \o values)
      /\ item.type = "block" => Rest(t, item.value, 1) \in Text /\ Rest(t, b, n) = item.key \o (Gap \o names)
  BY RestGoesOn
<1>3. item.type = "value" => values \in Text
  <2> SUFFICES ASSUME item.type = "value" PROVE values \in Text
    OBVIOUS
  <2>1. nfcconf_list_get_string(item.value) \in Text
    BY <1>1, NotEmptyTyped
  <2>2. ListEnd \o Rest(t, b, n + 1) \in Text
    BY <1>2, MarksEnd
  <2> QED
    BY <2>1, <2>2, TextIs, Zenon
<1>4. item.type = "block" => names \in Text
  <2> SUFFICES ASSUME item.type = "block" PROVE names \in Text
    OBVIOUS
  <2>1. nfcconf_list_get_string(t[item.value].name) \in Text
    <3>1. item.value \in DOMAIN t
      BY <1>1
    <3> HIDE DEF item
    <3>2. t[item.value].name \in Seq(Strings)
      BY <3>1, WritableBlock
    <3> QED
      BY <3>2, NotEmptyTyped
  <2>2. HeadEnd \o Rest(t, item.value, 1) \in Text
    BY <1>2, MarksEnd
  <2> QED
    BY <2>1, <2>2, TextIs, Zenon
<1> HIDE DEF values, names, item
<1>5. CASE item.type = "value"
  <2>1. values \in Text /\ Rest(t, b, n) = item.key \o (Assign \o values)
    BY <1>2, <1>3, <1>5
  <2>2. /\ Assign \o values \in Text /\ Assign \o values # <<>>
        /\ (Assign \o values)[1] \in Ends.unquoted
        /\ Scan(Assign \o values) = <<Mark("=")>> \o Scan(values)
    BY <2>1, MarksEnd, ScanMarks
  <2>3. Scan(item.key \o (Assign \o values)) = <<Word(item.key)>> \o Scan(Assign \o values)
    BY <1>1, <2>2, ScanPlain
  <2>4. Scan(Assign \o values) \in Seq(Tokens)
    BY <2>2, ScanTyped
  <2>5. item.type # "block"
    BY <1>5
  <2>6. KeyThen(t, b, n, Scan(Assign \o values))
    BY <1>5, <2>1, <2>2, <2>3, <2>5, Zenon DEF KeyThen, RestScan, item, values
  <2> QED
    BY <2>4, <2>6
<1>6. CASE item.type = "block"
  <2>1. names \in Text /\ Rest(t, b, n) = item.key \o (Gap \o names)
    BY <1>2, <1>4, <1>6
  <2>2. /\ Gap \o names \in Text /\ Gap \o names # <<>>
        /\ (Gap \o names)[1] \in Ends.unquoted
        /\ Scan(Gap \o names) = Scan(names)
    BY <2>1, MarksEnd, ScanMarks
  <2>3. Scan(item.key \o (Gap \o names)) = <<Word(item.key)>> \o Scan(Gap \o names)
    BY <1>1, <2>2, ScanPlain
  <2>4. Scan(names) \in Seq(Tokens)
    BY <2>1, ScanTyped
  <2>5. item.type # "value"
    BY <1>6
  <2>6. KeyThen(t, b, n, Scan(names))
    BY <1>6, <2>1, <2>2, <2>3, <2>5, Zenon DEF KeyThen, RestScan, item, names
  <2> QED
    BY <2>4, <2>6
<1> QED
  BY <1>1, <1>5, <1>6

(* A comment is one token, an empty line none, and the line ends.          *)
LEMMA CommentGoesOn ==
    ASSUME NEW t, Writable(t), NEW b \in DOMAIN t, NEW n \in DOMAIN t[b].items,
           t[b].items[n].type = "comment"
    PROVE  /\ t[b].items[n].value = NULL =>
                  RestScan(t, b, n) = <<LineEnd>> \o RestScan(t, b, n + 1)
           /\ t[b].items[n].value # NULL =>
                  RestScan(t, b, n) = <<Remark(Hash)>> \o (<<LineEnd>> \o RestScan(t, b, n + 1))
<1> DEFINE more == Rest(t, b, n + 1)
<1>1. more \in Text
  BY RestGoesOn
<1>2. /\ t[b].items[n].value = NULL => Rest(t, b, n) = <<>> \o (NewLine \o more)
      /\ t[b].items[n].value # NULL => Rest(t, b, n) = Hash \o (NewLine \o more)
  BY RestGoesOn
<1> HIDE DEF more
<1> DEFINE line == NewLine \o more
<1>3. line \in Text /\ <<>> \o line = line
  <2>1. line \in Text
    BY <1>1, MarksAreText, TextIs, Zenon
  <2> HIDE DEF line
  <2> QED
    BY <2>1, TextIs
<1>4. /\ Scan(NewLine \o more) = <<LineEnd>> \o Scan(more)
      /\ Scan(Hash \o (NewLine \o more)) = <<Remark(Hash)>> \o (<<LineEnd>> \o Scan(more))
  BY <1>1, ScanMarks
<1> QED
  BY <1>2, <1>3, <1>4, Zenon DEF RestScan, more, line

(* The foot of a block is a token and a line end.                          *)
LEMMA FootGoesOn ==
    ASSUME NEW t, Writable(t), NEW b \in DOMAIN t, NEW n, n = Len(t[b].items) + 1
    PROVE  /\ b = 1 => RestScan(t, b, n) = <<>>
           /\ b # 1 => RestScan(t, b, n) =
                  <<Mark("}")>> \o (<<LineEnd>> \o RestScan(t, t[b].parent, Place(t, b) + 1))
<1>1. b = 1 => RestScan(t, b, n) = <<>>
  BY RestEnds, ScanNothing DEF RestScan
<1>2. ASSUME b # 1
      PROVE  RestScan(t, b, n) =
                  <<Mark("}")>> \o (<<LineEnd>> \o RestScan(t, t[b].parent, Place(t, b) + 1))
  <2> DEFINE more == Rest(t, t[b].parent, Place(t, b) + 1)
  <2>1. more \in Text /\ Rest(t, b, n) = Foot \o more
    BY <1>2, RestEnds
  <2> HIDE DEF more
  <2>2. Scan(Foot \o more) = <<Mark("}")>> \o (<<LineEnd>> \o Scan(more))
    BY <2>1, ScanMarks
  <2> QED
    BY <2>1, <2>2 DEF RestScan, more
<1> QED
  BY <1>1, <1>2

-----------------------------------------------------------------------------
(* So a tree that can be written is one that Writable() speaks of.         *)
LEMMA TreeIsWritable ==
    ASSUME ParserInv, TreeShape, OneItemPerKey, Numbered, HasKeys(tree), Legible(tree)
    PROVE  Writable(tree)
<1>0. /\ tree \in Seq(Blocks) /\ block \in DOMAIN tree /\ Len(tree) \in Nat /\ DOMAIN tree = 1 .. Len(tree)
      /\ 1 \in DOMAIN tree /\ tree # <<>>
      /\ \A b \in DOMAIN tree : tree[b].parent \in 0 .. b - 1 /\ b \in Nat /\ b >= 1
      /\ \A b \in DOMAIN tree : b # 1 => b \in 2 .. Len(tree)
  <2>1. block \in DOMAIN tree /\ tree \in Seq(Blocks)
    BY HereIsBlock DEF ParserInv
  <2>2. \A b \in DOMAIN tree : tree[b].parent \in 0 .. b - 1
    BY DEF ParserInv, TypeOK
  <2> QED
    BY <2>1, <2>2
<1>1. tree[1].parent = 0 /\ tree[1].name = <<>>
  BY <1>0 DEF Numbered, Named
<1>2. ASSUME NEW b \in DOMAIN tree, b # 1
      PROVE  /\ tree[b].parent \in 1 .. b - 1 /\ tree[b].name # <<>>
             /\ \E n \in DOMAIN tree[tree[b].parent].items :
                    LET item == tree[tree[b].parent].items[n] IN item.type = "block" /\ item.value = b
  <2>1. b \in 2 .. Len(tree)
    BY <1>0, <1>2
  <2>2. tree[b].parent \in DOMAIN tree
    BY <2>1 DEF TreeShape
  <2>3. tree[b].parent \in 1 .. b - 1
    BY <1>0, <2>2
  <2>4. PICK n \in DOMAIN tree[tree[b].parent].items :
            \A q \in DOMAIN tree : \A m \in DOMAIN tree[q].items :
                Hangs(b, q, m) <=> q = tree[b].parent /\ m = n
    BY <2>1 DEF TreeShape
  <2>5. Hangs(b, tree[b].parent, n)
    BY <2>2, <2>4
  <2> QED
    BY <1>2, <2>3, <2>5 DEF Hangs, Numbered, Named
<1>3. ASSUME NEW b \in DOMAIN tree, NEW n \in DOMAIN tree[b].items
      PROVE  LET item == tree[b].items[n]
             IN  /\ item.type = "comment" => item.value \in {NULL, "text"}
                 /\ item.type # "comment" => item.key \in Strings /\ Plain(item.key)
                 /\ item.type = "value" => item.value \in Seq(Strings) /\ Readable(item.value)
                 /\ item.type = "block" =>
                     item.value \in DOMAIN tree /\ item.value # 1 /\ tree[item.value].parent = b
                 /\ \A m \in DOMAIN tree[b].items : m < n /\ tree[b].items[m].type = item.type =>
                     /\ item.type = "block" => tree[b].items[m].value < item.value
                     /\ item.type = "value" => tree[b].items[m].key # item.key
  <2> DEFINE item == tree[b].items[n]
  <2>1. item.type = "comment" => item.value \in {NULL, "text"}
    BY DEF Numbered, Named
  <2>2. item.type # "comment" => item.key \in Strings /\ Plain(item.key)
    <3>1. item \in ItemRecords
      BY BlockTypes
    <3>2. item.key \in Strings \cup {NULL}
      BY <3>1 DEF ItemRecords
    <3>3. item.type # "comment" => item.key # NULL /\ Plain(item.key)
      BY DEF HasKeys, Legible
    <3> QED
      BY <3>2, <3>3
  <2>3. item.type = "value" => item.value \in Seq(Strings) /\ Readable(item.value)
    BY DEF ParserInv, Legible
  <2>4. ASSUME item.type = "block"
        PROVE  item.value \in DOMAIN tree /\ item.value # 1 /\ tree[item.value].parent = b
    <3>1. item.value \in 2 .. Len(tree)
      BY <2>4 DEF TreeShape
    <3> DEFINE c == item.value
    <3>2. Hangs(c, b, n)
      BY <2>4 DEF Hangs
    <3>3. \E k \in DOMAIN tree[tree[c].parent].items :
              \A q \in DOMAIN tree : \A m \in DOMAIN tree[q].items :
                  Hangs(c, q, m) <=> q = tree[c].parent /\ m = k
      <4> HIDE DEF c
      <4> QED
        BY <3>1 DEF TreeShape, c
    <3>4. b = tree[c].parent
      <4> HIDE DEF c
      <4> QED
        BY <3>2, <3>3
    <3> QED
      BY <1>0, <3>1, <3>4
  <2>5. ASSUME NEW m \in DOMAIN tree[b].items, m < n, tree[b].items[m].type = item.type
        PROVE  /\ item.type = "block" => tree[b].items[m].value < item.value
               /\ item.type = "value" => tree[b].items[m].key # item.key
    <3>1. item.type = "block" => tree[b].items[m].value < item.value
      BY <2>5 DEF Numbered, InOrder
    <3>2. ASSUME item.type = "value" PROVE tree[b].items[m].key # item.key
      <4>1. m \in Nat /\ n \in Nat
        BY BlockTypes
      <4> QED
        BY <2>5, <3>2, <4>1 DEF OneItemPerKey
    <3> QED
      BY <3>1, <3>2
  <2> QED
    BY <2>1, <2>2, <2>3, <2>4, <2>5
<1>4. \A x, y \in DOMAIN tree : x < y /\ tree[y].parent < x => tree[x].parent >= tree[y].parent
  BY DEF Numbered, Nested
<1>5. \A b \in DOMAIN tree : Readable(tree[b].name)
  BY DEF Legible
<1> HIDE DEF HasKeys, Legible
<1> QED
  BY <1>0, <1>1, <1>2, <1>3, <1>4, <1>5, Zenon DEF Writable

-----------------------------------------------------------------------------
(* The second parse.  What becomes of the items of a block.                *)
LEMMA AgainItemIs ==
    ASSUME NEW t, Writable(t), NEW b \in DOMAIN t, NEW n \in DOMAIN t[b].items
    PROVE  LET item == t[b].items[n]
           IN  /\ AgainItem(item).type = item.type
               /\ item.type = "comment" => AgainItem(item) = Item("comment", NULL, item.value)
               /\ item.type # "comment" => AgainItem(item).key = item.key
               /\ item.type = "value" => AgainItem(item) = Item("value", item.key, NotEmpty(item.value))
               /\ item.type = "block" =>
                    AgainItem(item) = item /\ item = Item("block", item.key, item.value)
               /\ AgainItem(item) = Item("comment", NULL, NULL) <=> item.type = "comment" /\ item.value = NULL
<1> DEFINE item == t[b].items[n]
<1>1. item.type \in {"comment", "value", "block"} /\ item \in ItemRecords
  BY WritableItem
<1> HIDE DEF item
<1>2. CASE item.type = "comment"
  BY <1>2 DEF AgainItem, Item, item
<1>3. CASE item.type = "value"
  BY <1>3 DEF AgainItem, Item, item
<1>4. CASE item.type = "block"
  <2>1. item = Item("block", item.key, item.value)
    BY <1>1, <1>4 DEF ItemRecords, Item
  <2>2. AgainItem(item) = item
    BY <1>4 DEF AgainItem
  <2> QED
    BY <1>4, <2>1, <2>2 DEF Item, item
<1> QED
  BY <1>1, <1>2, <1>3, <1>4 DEF item

(* The items that are read are those that were written, from the first or, *)
(* where an empty line at the top is dropped, from the second.             *)
LEMMA AgainItemsAre ==
    ASSUME NEW t, Writable(t), NEW b \in DOMAIN t
    PROVE  /\ Dropped(t, b) \in {0, 1} /\ (b # 1 => Dropped(t, b) = 0)
           /\ AgainItems(b, t) \in Seq({AgainItem(t[b].items[n]) : n \in DOMAIN t[b].items})
           /\ Len(AgainItems(b, t)) = Len(t[b].items) - Dropped(t, b)
           /\ Len(AgainItems(b, t)) \in Nat
           /\ Dropped(t, b) = 1 =>
                  1 \in DOMAIN t[b].items /\ t[b].items[1].type = "comment" /\ t[b].items[1].value = NULL
           /\ b = 1 /\ t[1].items # <<>> /\ t[1].items[1].type = "comment" /\ t[1].items[1].value = NULL =>
                  Dropped(t, b) = 1
           /\ \A n \in 1 .. Len(AgainItems(b, t)) :
                  /\ n + Dropped(t, b) \in DOMAIN t[b].items
                  /\ AgainItems(b, t)[n] = AgainItem(t[b].items[n + Dropped(t, b)])
<1> DEFINE L == Len(t[b].items)
           all == [n \in DOMAIN t[b].items |-> AgainItem(t[b].items[n])]
           R == {AgainItem(t[b].items[n]) : n \in DOMAIN t[b].items}
           top == b = 1 /\ all # <<>> /\ all[1] = Item("comment", NULL, NULL)
<1>1. L \in Nat /\ DOMAIN t[b].items = 1 .. L /\ t[b].items \in Seq(ItemRecords)
  BY WritableBlock
<1>2. all \in Seq(R) /\ Len(all) = L /\ \A n \in 1 .. L : all[n] = AgainItem(t[b].items[n])
  <2> DEFINE e(n) == AgainItem(t[b].items[n])
  <2>1. \A n \in 1 .. L : e(n) \in R
    BY <1>1
  <2>2. all = [n \in 1 .. L |-> e(n)]
    BY <1>1
  <2> HIDE DEF e, R, L
  <2>3. [n \in 1 .. L |-> e(n)] \in Seq(R) /\ Len([n \in 1 .. L |-> e(n)]) = L
    BY <1>1, <2>1 DEF L
  <2>4. \A n \in 1 .. L : [i \in 1 .. L |-> e(i)][n] = e(n)
    OBVIOUS
  <2> HIDE DEF all
  <2> QED
    BY <2>2, <2>3, <2>4 DEF e
<1>3. AgainItems(b, t) = IF top THEN Tail(all) ELSE all
  BY DEF AgainItems
<1>4. top <=> Dropped(t, b) = 1
  <2>1. all # <<>> <=> L # 0
    <3> HIDE DEF all, R, L
    <3> QED
      BY <1>1, <1>2
  <2>2. t[b].items # <<>> <=> L # 0
    BY <1>1
  <2>3. L # 0 => 1 \in DOMAIN t[b].items /\ 1 \in 1 .. L
    BY <1>1
  <2>4. L # 0 => (all[1] = Item("comment", NULL, NULL) <=>
                      t[b].items[1].type = "comment" /\ t[b].items[1].value = NULL)
    <3>1. SUFFICES ASSUME L # 0
                   PROVE all[1] = Item("comment", NULL, NULL) <=>
                             t[b].items[1].type = "comment" /\ t[b].items[1].value = NULL
      OBVIOUS
    <3>2. 1 \in DOMAIN t[b].items /\ 1 \in 1 .. L
      BY <2>3, <3>1
    <3>3. AgainItem(t[b].items[1]) = Item("comment", NULL, NULL) <=>
              t[b].items[1].type = "comment" /\ t[b].items[1].value = NULL
      BY <3>2, AgainItemIs
    <3>4. all[1] = AgainItem(t[b].items[1])
      BY <3>2
    <3> QED
      BY <3>3, <3>4
  <2> HIDE DEF all, L
  <2>5. Dropped(t, b) = 1 <=> b = 1 /\ L # 0 /\ t[b].items[1].type = "comment" /\ t[b].items[1].value = NULL
    BY <2>2 DEF Dropped, EmptyTop
  <2> QED
    BY <2>1, <2>4, <2>5
<1>5. Dropped(t, b) \in {0, 1} /\ (b # 1 => Dropped(t, b) = 0)
  BY DEF Dropped
<1>6. Dropped(t, b) = 1 =>
          1 \in DOMAIN t[b].items /\ t[b].items[1].type = "comment" /\ t[b].items[1].value = NULL
  <2>1. t[b].items # <<>> => 1 \in DOMAIN t[b].items
    BY <1>1
  <2> QED
    BY <2>1 DEF Dropped, EmptyTop
<1>7. b = 1 /\ t[1].items # <<>> /\ t[1].items[1].type = "comment" /\ t[1].items[1].value = NULL =>
          Dropped(t, b) = 1
  BY DEF Dropped, EmptyTop
<1> HIDE DEF top
<1>8. CASE Dropped(t, b) = 1
  <2>1. AgainItems(b, t) = Tail(all)
    BY <1>3, <1>4, <1>8
  <2>2. L # 0
    BY <1>1, <1>6, <1>8
  <2> HIDE DEF all, R, L
  <2>3. all # <<>>
    BY <1>1, <1>2, <2>2
  <2>4. /\ Tail(all) \in Seq(R) /\ Len(Tail(all)) = L - 1
        /\ \A n \in 1 .. L - 1 : Tail(all)[n] = all[n + 1]
    BY <1>1, <1>2, <2>3, HeadTailProperties
  <2>5. \A n \in 1 .. L - 1 : n + 1 \in 1 .. L
    BY <1>1
  <2>6. L - 1 \in Nat
    BY <1>1, <2>2
  <2> QED
    BY <1>1, <1>2, <1>5, <1>6, <1>7, <1>8, <2>1, <2>4, <2>5, <2>6 DEF R, L
<1>9. CASE Dropped(t, b) = 0
  <2>1. AgainItems(b, t) = all
    BY <1>3, <1>4, <1>9
  <2> HIDE DEF all, R, L
  <2>2. \A n \in 1 .. L : n + 0 = n
    BY <1>1
  <2> QED
    BY <1>1, <1>2, <1>5, <1>6, <1>7, <1>9, <2>1, <2>2 DEF R, L
<1> QED
  BY <1>5, <1>8, <1>9

-----------------------------------------------------------------------------
(* Where the second parse is, in terms of the tree that was written.       *)
Rebuilt(S) ==
    /\ Writable(source) /\ ParserInv /\ TreeShape
    /\ ~error /\ ~wild
    /\ Opens(S) /\ Part(S)

(* What the later lemmas use of Rebuilt().                                 *)
LEMMA HereIs ==
    ASSUME NEW S, Rebuilt(S)
    PROVE  /\ DOMAIN tree = 1 .. Len(tree) /\ Len(tree) \in Nat /\ tree \in Seq(Blocks)
           /\ DOMAIN source = 1 .. Len(source) /\ Len(source) \in Nat /\ Len(tree) <= Len(source)
           /\ DOMAIN tree \subseteq DOMAIN source
           /\ block \in DOMAIN tree /\ block \in DOMAIN source
           /\ last_item = Len(tree[block].items) /\ last_item \in Nat
           /\ last_item <= Len(AgainItems(block, source))
           /\ NextItem \in 1 .. Len(source[block].items) + 1 /\ NextItem \in Nat
           /\ last_item = Len(AgainItems(block, source)) <=> NextItem = Len(source[block].items) + 1
<1>1. /\ tree \in Seq(Blocks) /\ Writable(source) /\ Len(tree) <= Len(source)
      /\ block \in DOMAIN tree
      /\ last_item = Len(tree[block].items)
      /\ Len(tree[block].items) <= Len(AgainItems(block, source))
  BY HereIsBlock DEF Rebuilt, Part, ParserInv
<1>2. source \in Seq(Blocks)
  BY <1>1 DEF Writable
<1>3. DOMAIN tree = 1 .. Len(tree) /\ Len(tree) \in Nat /\ DOMAIN source = 1 .. Len(source) /\ Len(source) \in Nat
  BY <1>1, <1>2
<1>4. DOMAIN tree \subseteq DOMAIN source
  BY <1>1, <1>3
<1>5. block \in DOMAIN source
  BY <1>1, <1>4
<1>6. last_item \in Nat
  BY <1>1, BlockTypes DEF Rebuilt
<1>7. /\ Dropped(source, block) \in {0, 1}
      /\ Len(AgainItems(block, source)) = Len(source[block].items) - Dropped(source, block)
      /\ Len(AgainItems(block, source)) \in Nat
  BY <1>1, <1>5, AgainItemsAre
<1>8. Len(source[block].items) \in Nat
  BY <1>1, <1>5, WritableBlock
<1>9. /\ NextItem \in 1 .. Len(source[block].items) + 1 /\ NextItem \in Nat
      /\ last_item = Len(AgainItems(block, source)) <=> NextItem = Len(source[block].items) + 1
  BY <1>1, <1>6, <1>7, <1>8, SMTT(30) DEF NextItem
<1> QED
  BY <1>1, <1>3, <1>4, <1>5, <1>6, <1>9

(* An item of the tree is what has become of the item of the source.       *)
LEMMA ItemsMatch ==
    ASSUME NEW S, Rebuilt(S), NEW b \in DOMAIN tree, NEW n \in DOMAIN tree[b].items
    PROVE  /\ b \in DOMAIN source
           /\ n \in Nat /\ n >= 1 /\ n <= Len(tree[b].items) /\ n \in 1 .. Len(AgainItems(b, source))
           /\ n + Dropped(source, b) \in DOMAIN source[b].items
           /\ AgainItems(b, source)[n] = AgainItem(source[b].items[n + Dropped(source, b)])
           /\ state # "value" => tree[b].items[n] = AgainItem(source[b].items[n + Dropped(source, b)])
<1>1. b \in DOMAIN source /\ Writable(source) /\ ParserInv
  BY HereIs DEF Rebuilt
<1>2. Len(tree[b].items) \in Nat /\ DOMAIN tree[b].items = 1 .. Len(tree[b].items)
  BY <1>1, BlockTypes
<1>3. Len(tree[b].items) <= Len(AgainItems(b, source))
  BY DEF Rebuilt, Part
<1>4. Len(AgainItems(b, source)) \in Nat
  BY <1>1, AgainItemsAre
<1>5. n \in Nat /\ n >= 1 /\ n <= Len(tree[b].items) /\ n \in 1 .. Len(AgainItems(b, source))
  BY <1>2, <1>3, <1>4
<1>6. /\ n + Dropped(source, b) \in DOMAIN source[b].items
      /\ AgainItems(b, source)[n] = AgainItem(source[b].items[n + Dropped(source, b)])
  BY <1>1, <1>5, AgainItemsAre
<1>7. state # "value" => tree[b].items[n] = AgainItems(b, source)[n]
  BY DEF Rebuilt, Part
<1> QED
  BY <1>1, <1>5, <1>6, <1>7

(* The block that the file opens next is the first one that is not there:  *)
(* its place is behind the last item of an open block.                     *)
LEMMA NextBlock ==
    ASSUME NEW S, Rebuilt(S), state # "value", Len(tree) < Len(source),
           NEW x, x = Len(tree) + 1
    PROVE  /\ x \in DOMAIN source /\ x # 1 /\ source[x].parent \in S /\ source[x].parent \in DOMAIN tree
           /\ Place(source, x) > Len(tree[source[x].parent].items) + Dropped(source, source[x].parent)
<1> DEFINE p == source[x].parent
           k == Place(source, x)
           D == Dropped(source, p)
<1>0. Writable(source) /\ ParserInv /\ TreeShape /\ Part(S)
  BY DEF Rebuilt
<1>1. x \in DOMAIN source /\ x # 1 /\ x \in Nat /\ x >= 1
  <2>1. /\ DOMAIN source = 1 .. Len(source) /\ Len(tree) \in Nat /\ Len(source) \in Nat
        /\ block \in DOMAIN tree /\ DOMAIN tree = 1 .. Len(tree)
    BY HereIs
  <2> QED
    BY <2>1
<1>2. p \in 1 .. x - 1
  BY <1>0, <1>1, WritableBlock
<1>3. p \in DOMAIN tree
  <2>1. DOMAIN tree = 1 .. Len(tree) /\ Len(tree) \in Nat
    BY HereIs
  <2> QED
    BY <1>1, <1>2, <2>1
<1>4. p \in DOMAIN source
  BY <1>3, HereIs
<1>5. k \in DOMAIN source[p].items /\ source[p].items[k].type = "block" /\ source[p].items[k].value = x
  BY <1>0, <1>1, PlaceIs
<1> HIDE DEF p, k
<1>6. k \in Nat /\ k >= 1 /\ k <= Len(source[p].items)
  BY <1>0, <1>4, <1>5, WritableItem
<1>7. D \in {0, 1} /\ (D = 1 => k # 1)
      /\ Len(AgainItems(p, source)) = Len(source[p].items) - D
  <2>1. /\ D \in {0, 1} /\ (D = 1 => source[p].items[1].type = "comment")
        /\ Len(AgainItems(p, source)) = Len(source[p].items) - D
    BY <1>0, <1>4, AgainItemsAre
  <2> HIDE DEF D
  <2> QED
    BY <1>5, <2>1
<1>a. Len(source[p].items) \in Nat /\ Len(tree[p].items) \in Nat
      /\ DOMAIN tree[p].items = 1 .. Len(tree[p].items)
  BY <1>0, <1>3, <1>4, WritableBlock, BlockTypes
<1>8. k > Len(tree[p].items) + D
  <2> SUFFICES ASSUME k <= Len(tree[p].items) + D PROVE FALSE
    <3> HIDE DEF D
    <3> QED
      BY <1>6, <1>7, <1>a
  <2> DEFINE n == k - D
  <2>1. n \in DOMAIN tree[p].items /\ n + D = k
    <3> HIDE DEF D
    <3> QED
      BY <1>6, <1>7, <1>a
  <2> HIDE DEF n
  <2>2. tree[p].items[n] = AgainItem(source[p].items[k])
    BY <1>3, <2>1, ItemsMatch
  <2>3. AgainItem(source[p].items[k]) = source[p].items[k]
    BY <1>0, <1>4, <1>5, AgainItemIs
  <2>4. tree[p].items[n].value \in 2 .. Len(tree)
    BY <1>0, <1>3, <1>5, <2>1, <2>2, <2>3 DEF TreeShape
  <2>5. x \in 2 .. Len(tree) /\ Len(tree) \in Nat
    BY <1>5, <2>2, <2>3, <2>4, HereIs
  <2> QED
    BY <2>5
<1>9. p \in S
  <2> SUFFICES ASSUME p \notin S PROVE FALSE
    OBVIOUS
  <2>1. Len(tree[p].items) = Len(AgainItems(p, source))
    BY <1>0, <1>3 DEF Part
  <2> HIDE DEF D
  <2> QED
    BY <1>6, <1>7, <1>8, <1>a, <2>1
<1> QED
  BY <1>1, <1>3, <1>8, <1>9 DEF p, k

-----------------------------------------------------------------------------
(* Opens() and Part() from one state to the next.                          *)
LEMMA HangsStill ==
    ASSUME NEW S, Rebuilt(S), source' = source,
           \A p \in DOMAIN tree : p # block => tree'[p] = tree[p],
           NEW b \in S, b # 1
    PROVE  /\ LastHangs(b)'
           /\ source[b].parent \in S /\ source[b].parent < block
<1> DEFINE p == source[b].parent
<1>1. b \in DOMAIN tree /\ b <= block /\ p \in S /\ LastHangs(b) /\ p \in DOMAIN tree
  BY DEF Rebuilt, Opens
<1>2. b \in DOMAIN source /\ Writable(source) /\ block \in DOMAIN tree
  BY <1>1, HereIs DEF Rebuilt
<1>3. p \in 1 .. b - 1 /\ b \in Nat
  BY <1>2, WritableBlock
<1>4. p < block
  <2>1. block \in Nat
    BY HereIs
  <2> HIDE DEF p
  <2> QED
    BY <1>1, <1>3, <2>1
<1>5. tree'[p] = tree[p]
  <2>1. p # block
    <3> HIDE DEF p
    <3> QED
      BY <1>3, <1>4
  <2> QED
    BY <1>1, <2>1
<1> QED
  BY <1>1, <1>4, <1>5 DEF LastHangs

(* A step that leaves the tree alone, and ends no option but one that is   *)
(* read to its end.                                                        *)
LEMMA SameTree ==
    ASSUME NEW S, Rebuilt(S), UNCHANGED <<tree, block, last_item, source>>,
           \/ state = "value" => state' = "value"
           \/ tree[block].items[last_item] = AgainItems(block, source)[last_item]
    PROVE  Opens(S)' /\ Part(S)'
<1>1. Opens(S)'
  BY DEF Rebuilt, Opens, LastHangs
<1>2. Part(S)'
  BY DEF Rebuilt, Part
<1> QED
  BY <1>1, <1>2

(* A comment or an option is added: it is the next of the source.          *)
LEMMA LinkedMatches ==
    ASSUME NEW S, Rebuilt(S), state # "value", NEW item, Linked(item),
           block' = block, last_item' = last_item + 1, source' = source,
           NextItem \in DOMAIN source[block].items,
           item = AgainItem(ItemHere(NextItem)) \/ state' = "value"
    PROVE  Opens(S)' /\ Part(S)'
<1>0. /\ ParserInv /\ Writable(source) /\ Opens(S) /\ Part(S)
      /\ block \in DOMAIN tree /\ block \in DOMAIN source
      /\ last_item = Len(tree[block].items) /\ last_item \in Nat
      /\ DOMAIN tree = 1 .. Len(tree) /\ Len(tree) \in Nat
  BY HereIs DEF Rebuilt
<1>1. /\ tree' \in Seq(Blocks) /\ Len(tree') = Len(tree)
      /\ \A b \in DOMAIN tree :
             /\ tree'[b].parent = tree[b].parent /\ tree'[b].name = tree[b].name
             /\ b # block => tree'[b] = tree[b]
      /\ tree'[block].items = Append(tree[block].items, item)
  BY <1>0, AfterLinked
<1>2. DOMAIN tree' = DOMAIN tree
  BY <1>0, <1>1
<1>3. Opens(S)'
  <2>1. ASSUME NEW b \in S
        PROVE  b <= block /\ (b # 1 => source[b].parent \in S /\ LastHangs(b)')
    BY <1>0, <1>1, HangsStill DEF Opens
  <2> QED
    BY <1>0, <1>2, <2>1 DEF Opens
<1>4. /\ NextItem # Len(source[block].items) + 1
      /\ last_item + 1 <= Len(AgainItems(block, source))
      /\ last_item + 1 + Dropped(source, block) = NextItem
  <2>1. NextItem # Len(source[block].items) + 1
    <3>1. NextItem \in 1 .. Len(source[block].items) /\ Len(source[block].items) \in Nat
      BY <1>0, WritableBlock
    <3> QED
      BY <3>1
  <2>2. last_item # Len(AgainItems(block, source)) /\ last_item <= Len(AgainItems(block, source))
    BY <2>1, HereIs
  <2>3. Len(AgainItems(block, source)) \in Nat /\ Dropped(source, block) \in {0, 1}
    BY <1>0, AgainItemsAre
  <2> QED
    BY <1>0, <2>1, <2>2, <2>3 DEF NextItem
<1>5. /\ Len(tree'[block].items) = last_item + 1
      /\ \A n \in DOMAIN tree'[block].items :
             \/ n = last_item + 1 /\ tree'[block].items[n] = item
             \/ n \in DOMAIN tree[block].items /\ tree'[block].items[n] = tree[block].items[n]
  <2>1. tree[block].items \in Seq(ItemRecords) /\ item \in ItemRecords
    BY <1>0, BlockTypes DEF Linked
  <2> DEFINE items == tree[block].items
  <2>2. /\ Len(Append(items, item)) = Len(items) + 1
        /\ DOMAIN Append(items, item) = 1 .. Len(items) + 1
        /\ DOMAIN items = 1 .. Len(items)
        /\ \A i \in 1 .. Len(items) : Append(items, item)[i] = items[i]
        /\ Append(items, item)[Len(items) + 1] = item
    BY <2>1, AppendProperties
  <2> QED
    BY <1>0, <1>1, <2>2
<1>6. AgainItems(block, source)[last_item + 1] = AgainItem(ItemHere(NextItem))
  <2>1. last_item + 1 \in 1 .. Len(AgainItems(block, source))
    <3>1. Len(AgainItems(block, source)) \in Nat
      BY <1>0, AgainItemsAre
    <3> QED
      BY <1>0, <1>4, <3>1
  <2>2. AgainItems(block, source)[last_item + 1] =
            AgainItem(source[block].items[last_item + 1 + Dropped(source, block)])
    BY <1>0, <2>1, AgainItemsAre
  <2> QED
    BY <1>4, <2>2 DEF ItemHere
<1>7. ASSUME NEW b \in DOMAIN tree
      PROVE  /\ Len(tree'[b].items) <= Len(AgainItems(b, source))
             /\ b \notin S => Len(tree'[b].items) = Len(AgainItems(b, source))
             /\ \A n \in DOMAIN tree'[b].items :
                 \/ tree'[b].items[n] = AgainItems(b, source)[n]
                 \/ b = block /\ n = last_item + 1 /\ state' = "value"
  <2>1. CASE b # block
    BY <1>0, <1>1, <1>7, <2>1 DEF Part
  <2>2. CASE b = block
    <3>1. block \in S
      BY <1>0 DEF Opens
    <3>2. \A n \in DOMAIN tree[block].items : tree[block].items[n] = AgainItems(block, source)[n]
      BY <1>0 DEF Part
    <3> QED
      BY <1>4, <1>5, <1>6, <2>2, <3>1, <3>2
  <2> QED
    BY <2>1, <2>2
<1>8. Part(S)'
  <2>1. /\ Len(tree') <= Len(source)
        /\ \A b \in DOMAIN tree : tree'[b].parent = source[b].parent /\ tree'[b].name = AgainName(source[b].name)
    BY <1>0, <1>1 DEF Part
  <2> QED
    BY <1>2, <1>7, <2>1 DEF Part
<1> QED
  BY <1>3, <1>8

(* A value is added to the option that is being read.                      *)
LEMMA ValuedMatches ==
    ASSUME NEW S, Rebuilt(S), NEW s, Valued(block, last_item, s), state' = "value",
           block' = block, last_item' = last_item, source' = source
    PROVE  Opens(S)' /\ Part(S)'
<1>0. /\ ParserInv /\ Writable(source) /\ Opens(S) /\ Part(S)
      /\ block \in DOMAIN tree
      /\ last_item = Len(tree[block].items) /\ last_item \in Nat
      /\ DOMAIN tree = 1 .. Len(tree) /\ Len(tree) \in Nat
  BY HereIs DEF Rebuilt
<1>1. /\ tree' \in Seq(Blocks) /\ Len(tree') = Len(tree)
      /\ \A b \in DOMAIN tree :
             /\ tree'[b].parent = tree[b].parent /\ tree'[b].name = tree[b].name
             /\ b # block => tree'[b] = tree[b]
      /\ Len(tree'[block].items) = Len(tree[block].items)
      /\ \A m \in DOMAIN tree[block].items :
             m # last_item => tree'[block].items[m] = tree[block].items[m]
  BY <1>0, AfterValued
<1>2. DOMAIN tree' = DOMAIN tree
  BY <1>0, <1>1
<1>3. Opens(S)'
  <2>1. ASSUME NEW b \in S
        PROVE  b <= block /\ (b # 1 => source[b].parent \in S /\ LastHangs(b)')
    BY <1>0, <1>1, HangsStill DEF Opens
  <2> QED
    BY <1>0, <1>2, <2>1 DEF Opens
<1>4. DOMAIN tree'[block].items = DOMAIN tree[block].items
  <2>1. tree'[block].items \in Seq(ItemRecords)
    <3>1. tree'[block] \in Blocks
      BY <1>0, <1>1, <1>2
    <3> QED
      BY <3>1 DEF Blocks
  <2>2. tree[block].items \in Seq(ItemRecords)
    BY <1>0, BlockTypes
  <2>3. DOMAIN tree'[block].items = 1 .. Len(tree'[block].items)
    BY <2>1
  <2>4. DOMAIN tree[block].items = 1 .. Len(tree[block].items)
    BY <2>2
  <2> QED
    BY <1>1, <2>3, <2>4
<1>5. ASSUME NEW b \in DOMAIN tree
      PROVE  /\ Len(tree'[b].items) <= Len(AgainItems(b, source))
             /\ b \notin S => Len(tree'[b].items) = Len(AgainItems(b, source))
             /\ \A n \in DOMAIN tree'[b].items :
                 \/ tree'[b].items[n] = AgainItems(b, source)[n]
                 \/ b = block /\ n = last_item
  <2>1. CASE b # block
    BY <1>0, <1>1, <1>5, <2>1 DEF Part
  <2>2. CASE b = block
    BY <1>0, <1>1, <1>4, <2>2 DEF Part
  <2> QED
    BY <2>1, <2>2
<1>6. Part(S)'
  <2>1. /\ Len(tree') <= Len(source)
        /\ \A b \in DOMAIN tree : tree'[b].parent = source[b].parent /\ tree'[b].name = AgainName(source[b].name)
    BY <1>0, <1>1 DEF Part
  <2> QED
    BY <1>2, <1>5, <2>1 DEF Part
<1> QED
  BY <1>3, <1>6
(* A block that is opened is the one that comes next in the source.        *)
LEMMA OpensTheNext ==
    ASSUME NEW S, Rebuilt(S), state # "value",
           NextItem \in DOMAIN source[block].items, ItemHere(NextItem).type = "block",
           NEW c, c = ItemHere(NextItem).value
    PROVE  c = Len(tree) + 1 /\ Len(tree) < Len(source)
<1>0. /\ Writable(source) /\ ParserInv /\ TreeShape /\ Part(S) /\ Opens(S)
      /\ block \in DOMAIN tree /\ block \in DOMAIN source
      /\ DOMAIN tree = 1 .. Len(tree) /\ Len(tree) \in Nat
      /\ DOMAIN source = 1 .. Len(source) /\ Len(source) \in Nat
      /\ last_item = Len(tree[block].items) /\ last_item \in Nat /\ NextItem \in Nat
  BY HereIs DEF Rebuilt
<1>a. source[block].items[NextItem].type = "block" /\ source[block].items[NextItem].value = c
  BY DEF ItemHere
<1>1. c \in DOMAIN source /\ c # 1 /\ source[c].parent = block /\ c \in block + 1 .. Len(source)
  BY <1>0, <1>a, WritableItem
<1>2. Place(source, c) = NextItem
  BY <1>0, <1>a, PlaceIsOne
<1>b. Dropped(source, block) \in {0, 1}
  BY <1>0, AgainItemsAre
<1>3. c \notin DOMAIN tree
  <2> SUFFICES ASSUME c \in DOMAIN tree PROVE FALSE
    OBVIOUS
  <2>1. c \in 2 .. Len(tree)
    BY <1>0, <1>1
  <2>2. tree[c].parent = block
    BY <1>0, <1>1 DEF Part
  <2>3. PICK n \in DOMAIN tree[block].items :
            \A q \in DOMAIN tree : \A m \in DOMAIN tree[q].items :
                Hangs(c, q, m) <=> q = block /\ m = n
    BY <1>0, <2>1, <2>2 DEF TreeShape
  <2>4. tree[block].items[n].type = "block" /\ tree[block].items[n].value = c
    BY <1>0, <2>3 DEF Hangs
  <2> DEFINE m == n + Dropped(source, block)
  <2>5. /\ m \in DOMAIN source[block].items /\ n \in Nat /\ n <= last_item
        /\ tree[block].items[n] = AgainItem(source[block].items[m])
    BY <1>0, ItemsMatch
  <2>6. source[block].items[m].type = "block" /\ source[block].items[m].value = c
    <3> HIDE DEF m
    <3>1. source[block].items[m].type = "block"
      BY <1>0, <2>4, <2>5, AgainItemIs
    <3>2. AgainItem(source[block].items[m]) = source[block].items[m]
      BY <1>0, <2>5, <3>1, AgainItemIs
    <3> QED
      BY <2>4, <2>5, <3>1, <3>2
  <2>7. Place(source, c) = m
    <3> HIDE DEF m
    <3> QED
      BY <1>0, <2>5, <2>6, PlaceIsOne
  <2> QED
    BY <1>0, <1>2, <1>b, <2>5, <2>7 DEF NextItem
<1>4. c \in Nat /\ c > Len(tree) /\ Len(tree) < Len(source)
  BY <1>0, <1>1, <1>3
<1> DEFINE x == Len(tree) + 1
<1>5. x = c
  <2> SUFFICES ASSUME x < c PROVE FALSE
    BY <1>0, <1>4
  <2>1. /\ x \in DOMAIN source /\ x # 1 /\ source[x].parent \in S
        /\ Place(source, x) > Len(tree[source[x].parent].items) + Dropped(source, source[x].parent)
    BY <1>4, NextBlock
  <2>2. source[x].parent >= block
    <3>1. source[c].parent < x
      BY <1>0, <1>1
    <3> QED
      BY <1>0, <1>1, <1>4, <2>1, <3>1 DEF Writable
  <2>3. source[x].parent = block
    <3>1. source[x].parent <= block
      BY <1>0, <2>1 DEF Opens
    <3>2. source[x].parent \in Nat /\ block \in Nat
      BY <1>0, <2>1, WritableBlock
    <3> QED
      BY <2>2, <3>1, <3>2
  <2> DEFINE k == Place(source, x)
  <2>4. k \in DOMAIN source[block].items /\ source[block].items[k].type = "block" /\ source[block].items[k].value = x
    BY <1>0, <2>1, <2>3, PlaceIs
  <2>5. k > last_item + Dropped(source, block)
    BY <1>0, <2>1, <2>3
  <2> HIDE DEF k
  <2>6. k \in Nat
    BY <1>0, <2>4, WritableItem
  <2>7. k >= NextItem
    BY <1>0, <1>b, <2>5, <2>6 DEF NextItem
  <2>8. k = NextItem \/ NextItem < k
    BY <1>0, <2>6, <2>7
  <2>9. k # NextItem
    BY <1>0, <1>a, <1>4, <2>4
  <2>10. source[block].items[NextItem].value < source[block].items[k].value
    BY <1>0, <1>a, <2>4, <2>8, <2>9 DEF Writable
  <2> QED
    BY <1>0, <1>4, <1>a, <2>4, <2>10
<1> QED
  BY <1>4, <1>5

(* So the tree with it is part of the source, and it is open.              *)
LEMMA OpenedMatches ==
    ASSUME NEW S, Rebuilt(S), state # "value", state' # "value",
           NextItem \in DOMAIN source[block].items, ItemHere(NextItem).type = "block",
           key = ItemHere(NextItem).key,
           NEW c, c = ItemHere(NextItem).value,
           NEW names, Opened(names), names = AgainName(source[c].name),
           block' = c, last_item' = 0, source' = source
    PROVE  Opens(S \cup {c})' /\ Part(S \cup {c})'
<1>0. /\ Writable(source) /\ ParserInv /\ Part(S) /\ Opens(S)
      /\ block \in DOMAIN tree /\ block \in DOMAIN source /\ block \in Nat
      /\ DOMAIN tree = 1 .. Len(tree) /\ Len(tree) \in Nat
      /\ DOMAIN source = 1 .. Len(source) /\ Len(source) \in Nat
      /\ last_item = Len(tree[block].items) /\ last_item \in Nat
  BY HereIs DEF Rebuilt
<1>1. c = Len(tree) + 1 /\ Len(tree) < Len(source)
  BY OpensTheNext
<1>a. source[block].items[NextItem].type = "block" /\ source[block].items[NextItem].value = c
      /\ source[block].items[NextItem].key = key
  BY DEF ItemHere
<1>2. c \in DOMAIN source /\ c # 1 /\ source[c].parent = block /\ c \in Nat /\ c > block
  <2>1. c \in DOMAIN source /\ c # 1 /\ source[c].parent = block
    BY <1>0, <1>a, WritableItem, SMTT(30)
  <2> QED
    BY <1>0, <1>1, <2>1
<1> DEFINE item == Item("block", key, c)
<1>3. /\ tree' \in Seq(Blocks) /\ Len(tree') = c
      /\ \A b \in DOMAIN tree :
             /\ tree'[b].parent = tree[b].parent /\ tree'[b].name = tree[b].name
             /\ b # block => tree'[b] = tree[b]
      /\ tree'[block].items = Append(tree[block].items, item)
      /\ tree'[c] = Block(block, names)
  BY <1>0, <1>1, AfterOpened
<1>4. item = AgainItem(ItemHere(NextItem)) /\ item.type = "block" /\ item.value = c
  <2>1. AgainItem(source[block].items[NextItem]) = source[block].items[NextItem]
        /\ source[block].items[NextItem] = Item("block", key, c)
    BY <1>0, <1>a, AgainItemIs
  <2> QED
    BY <2>1 DEF ItemHere, Item
<1>b. item \in ItemRecords
  <2>1. source[block].items[NextItem] \in ItemRecords /\ AgainItem(source[block].items[NextItem]) = source[block].items[NextItem]
    BY <1>0, <1>a, WritableItem, AgainItemIs
  <2> HIDE DEF item
  <2> QED
    BY <1>4, <2>1 DEF ItemHere
<1> HIDE DEF item
<1>5. DOMAIN tree' = DOMAIN tree \cup {c}
  <2>1. DOMAIN tree' = 1 .. c
    BY <1>3
  <2> QED
    BY <1>0, <1>1, <2>1
<1>6. /\ last_item + 1 <= Len(AgainItems(block, source))
      /\ last_item + 1 + Dropped(source, block) = NextItem
      /\ last_item + 1 \in 1 .. Len(AgainItems(block, source))
  <2>1. NextItem # Len(source[block].items) + 1
    <3>1. NextItem \in 1 .. Len(source[block].items) /\ Len(source[block].items) \in Nat
      BY <1>0, WritableBlock
    <3> QED
      BY <3>1
  <2>2. last_item # Len(AgainItems(block, source)) /\ last_item <= Len(AgainItems(block, source))
    BY <2>1, HereIs
  <2>3. Len(AgainItems(block, source)) \in Nat /\ Dropped(source, block) \in {0, 1}
    BY <1>0, AgainItemsAre
  <2> QED
    BY <1>0, <2>1, <2>2, <2>3 DEF NextItem
<1>7. AgainItems(block, source)[last_item + 1] = item
  <2>1. AgainItems(block, source)[last_item + 1] =
            AgainItem(source[block].items[last_item + 1 + Dropped(source, block)])
    BY <1>0, <1>6, AgainItemsAre
  <2> QED
    BY <1>4, <1>6, <2>1 DEF ItemHere
<1>8. /\ Len(tree'[block].items) = last_item + 1
      /\ tree'[block].items # <<>>
      /\ tree'[block].items[last_item + 1] = item
      /\ \A n \in DOMAIN tree'[block].items :
             \/ n = last_item + 1
             \/ n \in DOMAIN tree[block].items /\ tree'[block].items[n] = tree[block].items[n]
  <2>1. tree[block].items \in Seq(ItemRecords)
    BY <1>0, BlockTypes
  <2> DEFINE items == tree[block].items
  <2>2. /\ Len(Append(items, item)) = Len(items) + 1
        /\ DOMAIN Append(items, item) = 1 .. Len(items) + 1
        /\ DOMAIN items = 1 .. Len(items)
        /\ \A i \in 1 .. Len(items) : Append(items, item)[i] = items[i]
        /\ Append(items, item)[Len(items) + 1] = item
        /\ Append(items, item) # <<>>
    BY <1>b, <2>1, AppendProperties
  <2> QED
    BY <1>0, <1>3, <2>2
<1>9. LastHangs(c)'
  BY <1>2, <1>4, <1>8 DEF LastHangs
<1>10. Opens(S \cup {c})'
  <2>1. ASSUME NEW b \in S
        PROVE  b <= block /\ (b # 1 => source[b].parent \in S /\ LastHangs(b)')
    BY <1>0, <1>3, HangsStill DEF Opens
  <2>2. \A a \in S : a \in Nat
    BY <1>0 DEF Opens
  <2>3. ASSUME NEW b \in S \cup {c}
        PROVE  b <= c /\ (b # 1 => source[b].parent \in S \cup {c} /\ LastHangs(b)')
    <3>1. CASE b = c
      BY <1>0, <1>2, <1>9, <3>1 DEF Opens
    <3>2. CASE b \in S
      BY <1>0, <1>2, <2>1, <2>2, <3>2
    <3> QED
      BY <3>1, <3>2
  <2>4. ASSUME NEW a \in S \cup {c}, NEW b \in S \cup {c}, a < b
        PROVE  a <= source[b].parent
    <3>1. CASE b = c
      <4>1. a \in S
        BY <1>2, <2>4, <3>1
      <4> QED
        BY <1>2, <2>1, <3>1, <4>1
    <3>2. CASE b \in S
      <4>1. a # c
        BY <1>0, <1>2, <2>1, <2>2, <2>4, <3>2
      <4>2. a \in S
        BY <4>1
      <4> QED
        BY <1>0, <2>4, <3>2, <4>2 DEF Opens
    <3> QED
      BY <3>1, <3>2
  <2>5. S \cup {c} \subseteq DOMAIN tree'
    BY <1>0, <1>5 DEF Opens
  <2> QED
    BY <2>3, <2>4, <2>5 DEF Opens
<1>11. ASSUME NEW b \in DOMAIN tree
       PROVE  /\ Len(tree'[b].items) <= Len(AgainItems(b, source))
              /\ b \notin S => Len(tree'[b].items) = Len(AgainItems(b, source))
              /\ \A n \in DOMAIN tree'[b].items : tree'[b].items[n] = AgainItems(b, source)[n]
  <2>1. CASE b # block
    BY <1>0, <1>3, <1>11, <2>1 DEF Part
  <2>2. CASE b = block
    <3>1. block \in S
      BY <1>0 DEF Opens
    <3>2. \A n \in DOMAIN tree[block].items : tree[block].items[n] = AgainItems(block, source)[n]
      BY <1>0 DEF Part
    <3> QED
      BY <1>6, <1>7, <1>8, <2>2, <3>1, <3>2
  <2> QED
    BY <2>1, <2>2
<1>12. /\ tree'[c].parent = source[c].parent /\ tree'[c].name = AgainName(source[c].name)
       /\ Len(tree'[c].items) <= Len(AgainItems(c, source))
       /\ DOMAIN tree'[c].items = {}
  <2>1. tree'[c].parent = block /\ tree'[c].name = names /\ tree'[c].items = <<>>
    BY <1>3 DEF Block
  <2>2. Len(AgainItems(c, source)) \in Nat
    BY <1>0, <1>2, AgainItemsAre
  <2> QED
    BY <1>2, <2>1, <2>2
<1>13. Part(S \cup {c})'
  <2>1. Len(tree') <= Len(source)
    BY <1>0, <1>1, <1>3
  <2>2. \A b \in DOMAIN tree : tree'[b].parent = source[b].parent /\ tree'[b].name = AgainName(source[b].name)
    BY <1>0, <1>3 DEF Part
  <2> QED
    BY <1>5, <1>11, <1>12, <2>1, <2>2 DEF Part
<1> QED
  BY <1>10, <1>13

(* A block is closed when all its items have been read.                    *)
LEMMA ClosedMatches ==
    ASSUME NEW S, Rebuilt(S), state # "value", block # 1,
           NextItem = Len(source[block].items) + 1,
           NEW T, T = S \ {block},
           tree' = tree, block' = tree[block].parent, source' = source
    PROVE  Opens(T)' /\ Part(T)'
<1>0. /\ Writable(source) /\ ParserInv /\ Part(S) /\ Opens(S)
      /\ block \in DOMAIN tree /\ block \in Nat
      /\ last_item = Len(tree[block].items)
      /\ last_item = Len(AgainItems(block, source))
  BY HereIs DEF Rebuilt
<1> DEFINE p == source[block].parent
<1>1. tree[block].parent = p /\ p \in S /\ p < block
  <2>1. block \in S
    BY <1>0 DEF Opens
  <2>2. p \in S /\ p < block
    BY <2>1, HangsStill
  <2> QED
    BY <1>0, <2>2 DEF Part
<1>a. p \in Nat /\ block' = p
  BY <1>0, <1>1, BlockTypes
<1> HIDE DEF p
<1>2. Opens(T)'
  <2>1. \A a \in S : a \in Nat
    BY <1>0, BlockTypes DEF Opens
  <2>2. ASSUME NEW a \in T
        PROVE  a <= p
    <3>1. a < block
      BY <1>0, <2>1, <2>2 DEF Opens
    <3>2. block \in S
      BY <1>0 DEF Opens
    <3> QED
      BY <1>0, <3>1, <3>2 DEF Opens, p
  <2>3. ASSUME NEW b \in T, b # 1
        PROVE  source[b].parent \in T /\ LastHangs(b)'
    <3>1. source[b].parent \in S /\ source[b].parent < block /\ LastHangs(b)'
      BY <2>3, HangsStill
    <3> QED
      BY <1>0, <3>1
  <2>4. p \in T
    BY <1>0, <1>1
  <2>5. T \subseteq DOMAIN tree /\ \A a, b \in T : a < b => a <= source[b].parent
    BY <1>0 DEF Opens
  <2> QED
    BY <1>a, <2>2, <2>3, <2>4, <2>5 DEF Opens
<1>3. Part(T)'
  <2>1. ASSUME NEW b \in DOMAIN tree
        PROVE  /\ tree[b].parent = source[b].parent /\ tree[b].name = AgainName(source[b].name)
               /\ Len(tree[b].items) <= Len(AgainItems(b, source))
               /\ b \notin T => Len(tree[b].items) = Len(AgainItems(b, source))
               /\ \A n \in DOMAIN tree[b].items : tree[b].items[n] = AgainItems(b, source)[n]
    BY <1>0 DEF Part
  <2>2. Len(tree) <= Len(source)
    BY <1>0 DEF Part
  <2> QED
    BY <2>1, <2>2 DEF Part
<1> QED
  BY <1>2, <1>3


-----------------------------------------------------------------------------
(* A step of the second parse, from one position to the next.              *)
GoesOn ==
    /\ ~error' /\ ~wild'
    /\ Position'
    /\ \E S : Opens(S)' /\ Part(S)'

(* The tokens that are in a written file.                                  *)
LEMMA TokensAre ==
    /\ LineEnd \in Tokens /\ Remark(Hash) \in Tokens
    /\ Mark("{") \in Tokens /\ Mark("}") \in Tokens /\ Mark(",") \in Tokens
    /\ Mark("=") \in Tokens /\ Mark(";") \in Tokens
    /\ \A w \in Text \ {<<>>} : Word(w) \in Tokens
<1>1. Hash \in Text \ {<<>>}
  BY MarksAreText DEF Hash
<1>2. \A c \in {"{", "}", ",", "=", ";"} : c \in Punctuation
  BY DEF Punctuation
<1> QED
  BY <1>1, <1>2 DEF Tokens

(* ReadAgain is the action of the parser that the next token asks for,     *)
LEMMA NextInFile ==
    ASSUME ReadAgain, NEW x \in Tokens, NEW rest \in Seq(Tokens), file = <<x>> \o rest
    PROVE  /\ file' = rest /\ source' = source
           /\ x = LineEnd => Newline \/ EmptyLine
           /\ \A w : x = Remark(w) => Comment
           /\ \A w : x = Word(w) => TakeString(Unquoted(w))
           /\ x = Mark("{") => OpenBlock \/ OpenNothing
           /\ x = Mark("}") => CloseBlock \/ CloseNothing
           /\ x = Mark(",") => Comma
           /\ x = Mark("=") => AssignAgain \/ AssignNew \/ AssignFollowsNull \/ AssignNothing
           /\ x = Mark(";") => Semicolon
<1>1. Head(file) = x /\ Tail(file) = rest
  BY InFront
<1>2. /\ x.type = "newline" => Newline \/ EmptyLine
      /\ x.type = "comment" => Comment
      /\ x.type = "string" => TakeString(Unquoted(x.string))
      /\ x.type = "punct" => TakePunct(x.string[1])
      /\ file' = rest /\ source' = source
  BY <1>1 DEF ReadAgain
<1>3. \A c : x = Mark(c) => TakePunct(c)
  <2> SUFFICES ASSUME NEW c, x = Mark(c) PROVE TakePunct(c)
    OBVIOUS
  <2>1. x.type = "punct" /\ x.string = <<c>>
    BY DEF Mark
  <2> QED
    BY <1>2, <2>1
<1>4. \A w : x = Word(w) => TakeString(Unquoted(w))
  BY <1>2 DEF Word
<1>5. (x = LineEnd => Newline \/ EmptyLine) /\ \A w : x = Remark(w) => Comment
  BY <1>2 DEF LineEnd, Remark
<1>6. /\ TakePunct("{") => OpenBlock \/ OpenNothing
      /\ TakePunct("}") => CloseBlock \/ CloseNothing
      /\ TakePunct(",") => Comma
      /\ TakePunct("=") => AssignAgain \/ AssignNew \/ AssignFollowsNull \/ AssignNothing
      /\ TakePunct(";") => Semicolon
  BY DEF TakePunct
<1> QED
  BY <1>2, <1>3, <1>4, <1>5, <1>6

(* so a step of the parser.                                                *)
LEMMA TakeStringIsNext ==
    ASSUME NEW s \in Strings, TakeString(s)
    PROVE  Next
BY DEF TakeString, Next, NextToken

LEMMA NextInFileIsNext ==
    ASSUME ReadAgain, NEW x \in Tokens, NEW rest \in Seq(Tokens), file = <<x>> \o rest
    PROVE  Next
<1>1. \/ \E w \in Text \ {<<>>} : x = Word(w)
      \/ \E c \in Punctuation : x = Mark(c)
      \/ x = LineEnd \/ \E w : x = Remark(w)
  BY DEF Tokens
<1>2. ASSUME NEW w \in Text \ {<<>>}, x = Word(w) PROVE Next
  <2>1. Unquoted(w) \in Strings
    BY UnquotedTyped
  <2>2. TakeString(Unquoted(w))
    BY <1>2, NextInFile
  <2> QED
    BY <2>1, <2>2, TakeStringIsNext
<1>3. ASSUME NEW c \in Punctuation, x = Mark(c) PROVE Next
  <2>1. c \in {"{", "}", ",", "=", ";"}
    BY DEF Punctuation
  <2> QED
    BY <1>3, <2>1, NextInFile DEF Next, NextToken
<1>4. ASSUME x = LineEnd \/ \E w : x = Remark(w) PROVE Next
  BY <1>4, NextInFile DEF Next, NextToken
<1> QED
  BY <1>1, <1>2, <1>3, <1>4

(* From the empty line at the top of the file, which the parser drops.     *)
LEMMA FromTop ==
    ASSUME NEW S, Rebuilt(S), AtTop, ReadAgain
    PROVE  Next /\ GoesOn
<1>1. Writable(source) /\ block = 1 /\ 1 \in DOMAIN source /\ last_item = 0
  BY HereIs DEF Rebuilt, AtTop
<1>2. 1 \in DOMAIN source[1].items /\ source[1].items[1].type = "comment" /\ source[1].items[1].value = NULL
      /\ Dropped(source, 1) = 1
  <2>1. Dropped(source, 1) = 1
    BY DEF AtTop, Dropped
  <2> QED
    BY <1>1, <2>1, AgainItemsAre
<1>3. RestScan(source, 1, 2) \in Seq(Tokens) /\ file = <<LineEnd>> \o RestScan(source, 1, 2)
  <2>1. RestScan(source, 1, 1) = <<LineEnd>> \o RestScan(source, 1, 1 + 1)
    BY <1>1, <1>2, CommentGoesOn
  <2>2. 2 \in 1 .. Len(source[1].items) + 1
    <3>1. Len(source[1].items) \in Nat /\ 1 \in 1 .. Len(source[1].items)
      BY <1>1, <1>2, WritableBlock
    <3> QED
      BY <3>1
  <2>3. RestScan(source, 1, 2) \in Seq(Tokens)
    BY <1>1, <2>2, RestScanTyped
  <2>4. file = RestScan(source, 1, 1)
    BY DEF AtTop
  <2> QED
    BY <2>1, <2>3, <2>4
<1>4. Newline \/ EmptyLine
  BY <1>3, NextInFile, TokensAre
<1>5. Newline
  BY <1>4 DEF EmptyLine, AtTop
<1>6. Next
  BY <1>5 DEF Next, NextToken
<1>7. file' = RestScan(source, 1, 2) /\ source' = source
  BY <1>3, NextInFile, TokensAre
<1>8. /\ UNCHANGED <<tree, block, last_item, state, error, wild>>
      /\ last_token' = "newline"
  BY <1>5 DEF Newline, Token, reading
<1>9. NextItem' = 2
  BY <1>1, <1>2, <1>7, <1>8 DEF NextItem
<1>10. AtItem'
  BY <1>1, <1>7, <1>8, <1>9 DEF AtItem, AtTop
<1>11. Opens(S)' /\ Part(S)'
  BY <1>7, <1>8, SameTree
<1> QED
  BY <1>6, <1>8, <1>10, <1>11 DEF GoesOn, Position, Rebuilt

(* From the line end behind an item, a head or a foot.                     *)
LEMMA FromLineEnd ==
    ASSUME NEW S, Rebuilt(S), AtLineEnd, ReadAgain
    PROVE  Next /\ GoesOn
<1>1. Writable(source) /\ block \in DOMAIN source /\ NextItem \in 1 .. Len(source[block].items) + 1
  BY HereIs DEF Rebuilt
<1> DEFINE rest == RestScan(source, block, NextItem)
<1>2. rest \in Seq(Tokens) /\ file = <<LineEnd>> \o rest
  BY <1>1, RestScanTyped DEF AtLineEnd
<1> HIDE DEF rest
<1>3. (Newline \/ EmptyLine) /\ file' = rest /\ source' = source
  BY <1>2, NextInFile, TokensAre
<1>4. Newline
  BY <1>3 DEF EmptyLine, AtLineEnd
<1>5. Next
  BY <1>4 DEF Next, NextToken
<1>6. UNCHANGED <<tree, block, last_item, state, error, wild>> /\ last_token' = "newline"
  BY <1>4 DEF Newline, Token, reading
<1>7. NextItem' = NextItem
  BY <1>3, <1>6 DEF NextItem
<1>8. AtItem'
  <2>1. file' = RestScan(source, block, NextItem)
    BY <1>3 DEF rest
  <2> QED
    BY <1>3, <1>6, <1>7, <2>1 DEF AtItem, AtLineEnd
<1>9. Opens(S)' /\ Part(S)'
  BY <1>3, <1>6, SameTree
<1> QED
  BY <1>5, <1>6, <1>8, <1>9 DEF GoesOn, Position, Rebuilt

(* A comment or an empty line is the next item of the source.              *)
LEMMA CommentMatches ==
    ASSUME NEW S, Rebuilt(S), state = "none", source' = source,
           NEW text \in {NULL, "text"}, AddComment(text),
           NextItem \in DOMAIN source[block].items, ItemHere(NextItem).type = "comment",
           ItemHere(NextItem).value = text
    PROVE  /\ Opens(S)' /\ Part(S)'
           /\ UNCHANGED <<block, state, error, wild>> /\ NextItem' = NextItem + 1
<1>0. ParserInv /\ Writable(source) /\ block \in DOMAIN source /\ last_item \in Nat
  BY HereIs DEF Rebuilt
<1>1. key = NULL
  BY <1>0 DEF ParserInv, TypeOK
<1> DEFINE item == Item("comment", key, text)
<1>2. item \in ItemRecords /\ item.type = "comment"
  BY <1>1 DEF Item, ItemRecords
<1>3. Linked(item)
  BY <1>0, <1>2, HereIsBlock DEF AddComment, NewItem, Linked
<1>4. item = AgainItem(ItemHere(NextItem))
  BY <1>0, <1>1, AgainItemIs DEF ItemHere
<1> HIDE DEF item
<1>5. UNCHANGED <<block, state, error, wild>> /\ last_item' = last_item + 1
  BY DEF AddComment, NewItem
<1>6. Opens(S)' /\ Part(S)'
  BY <1>3, <1>4, <1>5, LinkedMatches
<1>7. NextItem' = NextItem + 1
  <2>1. Dropped(source, block) \in {0, 1}
    BY <1>0, AgainItemsAre
  <2>2. NextItem' = last_item + 1 + Dropped(source, block) + 1
    BY <1>5 DEF NextItem
  <2> QED
    BY <1>0, <2>1, <2>2 DEF NextItem
<1> QED
  BY <1>5, <1>6, <1>7

(* From a place where a comment or an empty line stands.                   *)
LEMMA FromComment ==
    ASSUME NEW S, Rebuilt(S), AtItem, ReadAgain,
           NextItem \in DOMAIN source[block].items, ItemHere(NextItem).type = "comment"
    PROVE  Next /\ GoesOn
<1>0. Writable(source) /\ block \in DOMAIN source /\ last_item \in Nat /\ state = "none"
  BY HereIs DEF Rebuilt, AtItem
<1> DEFINE rest == RestScan(source, block, NextItem + 1)
           item == ItemHere(NextItem)
<1>1. /\ rest \in Seq(Tokens)
      /\ item.value = NULL => file = <<LineEnd>> \o rest
      /\ item.value # NULL => file = <<Remark(Hash)>> \o (<<LineEnd>> \o rest)
      /\ item.value \in {NULL, "text"}
  <2>1. item = source[block].items[NextItem]
    BY DEF ItemHere
  <2> HIDE DEF item
  <2>2. item.type = "comment" /\ file = RestScan(source, block, NextItem)
    BY DEF AtItem, item
  <2>3. item.value \in {NULL, "text"}
    BY <1>0, <2>1, <2>2, WritableItem, SMTT(30)
  <2>4. rest \in Seq(Tokens)
    <3>1. NextItem + 1 \in 1 .. Len(source[block].items) + 1
      BY <1>0, WritableItem
    <3> QED
      BY <1>0, <3>1, RestScanTyped
  <2>5. /\ item.value = NULL => RestScan(source, block, NextItem) = <<LineEnd>> \o rest
        /\ item.value # NULL =>
             RestScan(source, block, NextItem) = <<Remark(Hash)>> \o (<<LineEnd>> \o rest)
    BY <1>0, <2>1, <2>2, CommentGoesOn
  <2> QED
    BY <2>2, <2>3, <2>4, <2>5
<1>a. LineEnd \in Tokens /\ Remark(Hash) \in Tokens
  BY TokensAre
<1> HIDE DEF rest, item
<1>2. <<LineEnd>> \o rest \in Seq(Tokens)
  BY <1>1, <1>a, InFront
<1>3. CASE item.value = NULL
  <2>1. file = <<LineEnd>> \o rest
    BY <1>1, <1>3
  <2>2. (Newline \/ EmptyLine) /\ file' = rest /\ source' = source
    BY <1>1, <1>a, <2>1, NextInFile
  <2>3. last_token = "newline"
    <3>1. SUFFICES ASSUME block = 1 /\ NextItem = 1 PROVE FALSE
      BY DEF AtItem
    <3>2. 1 \in DOMAIN source[1].items /\ source[1].items[1].type = "comment" /\ source[1].items[1].value = NULL
      BY <1>3, <3>1 DEF ItemHere, item
    <3>3. Dropped(source, 1) = 1
      <4>1. source[1].items # <<>>
        BY <3>2
      <4> QED
        BY <3>2, <4>1 DEF Dropped, EmptyTop
    <3> QED
      BY <1>0, <3>1, <3>3 DEF NextItem
  <2>4. EmptyLine
    BY <2>2, <2>3 DEF Newline
  <2>5. Next
    BY <2>4 DEF Next, NextToken
  <2>6. /\ Opens(S)' /\ Part(S)'
        /\ UNCHANGED <<block, state, error, wild>> /\ NextItem' = NextItem + 1
    BY <1>0, <1>3, <2>2, <2>4, CommentMatches DEF EmptyLine, item
  <2>7. last_token' = "newline"
    BY <2>4 DEF EmptyLine, Token
  <2>8. AtItem'
    BY <1>0, <2>2, <2>6, <2>7 DEF AtItem, rest
  <2> QED
    BY <2>5, <2>6, <2>8 DEF GoesOn, Position, Rebuilt
<1>4. CASE item.value # NULL
  <2>1. file = <<Remark(Hash)>> \o (<<LineEnd>> \o rest)
    BY <1>1, <1>4
  <2>2. Comment /\ file' = <<LineEnd>> \o rest /\ source' = source
    BY <1>2, <1>a, <2>1, NextInFile
  <2>3. Next
    BY <2>2 DEF Next, NextToken
  <2>4. /\ Opens(S)' /\ Part(S)'
        /\ UNCHANGED <<block, state, error, wild>> /\ NextItem' = NextItem + 1
    BY <1>0, <1>1, <1>4, <2>2, CommentMatches DEF Comment, item
  <2>5. last_token' = "comment"
    BY <2>2 DEF Comment, Token
  <2>6. AtLineEnd'
    BY <1>0, <2>2, <2>4, <2>5 DEF AtLineEnd, rest
  <2> QED
    BY <2>3, <2>4, <2>6 DEF GoesOn, Position, Rebuilt
<1> QED
  BY <1>3, <1>4

(* From a place where the key of an option or a block stands.              *)
LEMMA FromKey ==
    ASSUME NEW S, Rebuilt(S), AtItem, ReadAgain,
           NextItem \in DOMAIN source[block].items, ItemHere(NextItem).type # "comment"
    PROVE  Next /\ GoesOn
<1>0. Writable(source) /\ block \in DOMAIN source /\ state = "none" /\ name = <<>>
  BY HereIs DEF Rebuilt, AtItem, ParserInv, TypeOK
<1> DEFINE item == source[block].items[NextItem]
           names == source[item.value].name
           list == nfcconf_list_get_string(names)
           option == <<Mark("=")>> \o Scan(nfcconf_list_get_string(item.value)
                                          \o (ListEnd \o Rest(source, block, NextItem + 1)))
           head == Scan(list \o (HeadEnd \o Rest(source, item.value, 1)))
<1>1. /\ item.type \in {"value", "block"} /\ item.key \in Text \ {<<>>} /\ Plain(item.key)
      /\ item.type = "value" => item.value \in Seq(Strings)
      /\ item.type = "block" => item.value \in DOMAIN source
      /\ ItemHere(NextItem) = item /\ file = RestScan(source, block, NextItem)
  <2>1. ItemHere(NextItem) = item /\ item.type # "comment" /\ file = RestScan(source, block, NextItem)
    BY DEF ItemHere, AtItem
  <2>2. item.key \in Text /\ Plain(item.key)
    BY <1>0, <2>1, WritableItem, StringsAreText
  <2>3. item.key # <<>>
    BY <2>2 DEF Plain
  <2> QED
    BY <1>0, <2>1, <2>2, <2>3, WritableItem
<1>2. (names \in Seq(Strings) /\ list \in Text) \/ item.type # "block"
  <2> SUFFICES ASSUME item.type = "block" PROVE names \in Seq(Strings) /\ list \in Text
    OBVIOUS
  <2>1. names \in Seq(Strings)
    <3> HIDE DEF item
    <3> QED
      BY <1>0, <1>1, WritableBlock
  <2> HIDE DEF names
  <2> QED
    BY <2>1, NotEmptyTyped
<1>6. PICK more \in Seq(Tokens) : KeyThen(source, block, NextItem, more)
  <2>1. source[block].items[NextItem].type # "comment"
    BY <1>1, Zenon
  <2> QED
    BY <1>0, <2>1, KeyGoesOn
<1>7. /\ file = <<Word(item.key)>> \o more
      /\ item.type = "value" => more = option
      /\ item.type = "block" => more = head
  BY <1>1, <1>6 DEF KeyThen
<1>3. Word(item.key) \in Tokens /\ Unquoted(item.key) = item.key
  BY <1>1, TokensAre, UnquotedPlain
<1>8. TakeString(item.key) /\ file' = more /\ source' = source /\ Next
  <2> HIDE DEF item, option, list, head
  <2>1. TakeString(Unquoted(item.key)) /\ file' = more /\ source' = source
    BY <1>3, <1>7, NextInFile
  <2>2. Next
    BY <1>3, <1>7, NextInFileIsNext
  <2> QED
    BY <1>3, <2>1, <2>2
<1>9. ReadKey(item.key)
  BY <1>0, <1>8 DEF TakeString, ReadName, ReadValue, ReadValueIntoComment, SecondName
<1>10. /\ UNCHANGED <<tree, block, last_item, error, wild>>
       /\ state' = "name" /\ key' = item.key /\ name' = <<>> /\ set' = FALSE
  BY <1>0, <1>9 DEF ReadKey
<1>11. /\ NextItem' = NextItem /\ source'[block'].items[NextItem'] = item
       /\ NextItem' \in DOMAIN source'[block'].items
  BY <1>8, <1>10 DEF NextItem
<1>12. Opens(S)' /\ Part(S)'
  BY <1>0, <1>8, <1>10, SameTree
<1>13. CASE item.type = "value"
  <2>1. AtOption'
    BY <1>1, <1>7, <1>8, <1>10, <1>11, <1>13 DEF AtOption, ItemHere
  <2> QED
    BY <1>8, <1>10, <1>12, <2>1, SMTT(30) DEF GoesOn, Position, Rebuilt
<1>14. CASE item.type = "block"
  <2>1. ListLeft(names, <<>>, FALSE, list)
    <3> HIDE DEF names
    <3> QED
      BY <1>2, <1>14, ListStart
  <2>2. PICK left \in Text : left = list
    <3> HIDE DEF list
    <3> QED
      BY <1>2, <1>14
  <2>3. ListLeft(source[item.value].name, <<>>, FALSE, left)
    BY <2>1, <2>2
  <2>4. file' = Scan(left \o (HeadEnd \o Rest(source, item.value, 1)))
    BY <1>7, <1>8, <1>14, <2>2
  <2> HIDE DEF list
  <2>5. ItemHere(NextItem)' = item
    BY <1>11 DEF ItemHere
  <2>6. AtHead(left)'
    <3> HIDE DEF item
    <3> QED
      BY <1>8, <1>10, <1>11, <1>14, <2>3, <2>4, <2>5 DEF AtHead
  <2>7. Position'
    BY <2>6 DEF Position
  <2> QED
    BY <1>8, <1>10, <1>12, <2>7 DEF GoesOn, Rebuilt
<1> QED
  BY <1>1, <1>13, <1>14

(* From the end of a block, where its foot stands.                         *)
LEMMA FromEnd ==
    ASSUME NEW S, Rebuilt(S), AtItem, ReadAgain,
           NextItem = Len(source[block].items) + 1
    PROVE  Next /\ GoesOn
<1>0. /\ Writable(source) /\ ParserInv /\ Opens(S) /\ Part(S)
      /\ block \in DOMAIN source /\ block \in DOMAIN tree /\ block \in Nat /\ state = "none"
  BY HereIs DEF Rebuilt, AtItem
<1>1. block # 1
  <2> SUFFICES ASSUME block = 1 PROVE FALSE
    OBVIOUS
  <2>1. file = <<>>
    BY <1>0, FootGoesOn DEF AtItem
  <2> QED
    BY <2>1 DEF ReadAgain
<1> DEFINE p == source[block].parent
           k == Place(source, block)
           rest == RestScan(source, p, k + 1)
<1>2. rest \in Seq(Tokens) /\ file = <<Mark("}")>> \o (<<LineEnd>> \o rest)
  <2>1. Rest(source, p, k + 1) \in Text
    BY <1>0, <1>1, RestEnds
  <2>2. rest \in Seq(Tokens)
    BY <2>1, ScanTyped DEF RestScan
  <2> QED
    BY <1>0, <1>1, <2>2, FootGoesOn DEF AtItem
<1>3. p \in 1 .. block - 1 /\ tree[block].parent = p /\ p \in Nat /\ p # 0
  BY <1>0, <1>1, WritableBlock DEF Part
<1>4. /\ (CloseBlock \/ CloseNothing) /\ file' = <<LineEnd>> \o rest /\ source' = source /\ Next
  <2>1. LineEnd \in Tokens /\ Mark("}") \in Tokens
    BY TokensAre
  <2> HIDE DEF rest
  <2>2. <<LineEnd>> \o rest \in Seq(Tokens)
    BY <1>2, <2>1, InFront
  <2> QED
    BY <1>2, <2>1, <2>2, NextInFile, NextInFileIsNext
<1> HIDE DEF p
<1>5. MayClose
  BY <1>0, <1>3 DEF MayClose, StartsStatement
<1>6. CloseBlock
  BY <1>4, <1>5 DEF CloseNothing
<1>7. /\ UNCHANGED <<tree, state, error, wild>> /\ last_token' = "punct"
      /\ block' = tree[block].parent /\ block' = p /\ last_item' = Len(tree[p].items)
  BY <1>0, <1>3, <1>6 DEF CloseBlock, Token, reading
<1>8. PICK T : T = S \ {block}
  OBVIOUS
<1>9. Opens(T)' /\ Part(T)'
  BY <1>0, <1>1, <1>4, <1>7, <1>8, ClosedMatches
<1>10. NextItem' = k + 1
  <2> DEFINE n == Len(tree[p].items)
             m == n + Dropped(source, p)
  <2>1. block \in S /\ p \in DOMAIN tree
    <3>1. block \in S /\ p \in S
      BY <1>0, <1>1 DEF Opens, p
    <3> QED
      BY <1>0, <3>1 DEF Opens
  <2>2. LastHangs(block)
    BY <1>0, <1>1, <2>1 DEF Opens
  <2>3. tree[p].items # <<>> /\ tree[p].items[n].type = "block" /\ tree[p].items[n].value = block
    BY <2>2 DEF LastHangs, p
  <2>4. n \in DOMAIN tree[p].items
    <3>1. tree[p].items \in Seq(ItemRecords)
      BY <1>0, <2>1, BlockTypes
    <3> QED
      BY <2>3, <3>1
  <2> HIDE DEF n
  <2>5. /\ p \in DOMAIN source /\ m \in DOMAIN source[p].items
        /\ tree[p].items[n] = AgainItem(source[p].items[m])
    BY <1>0, <2>1, <2>4, ItemsMatch
  <2>6. source[p].items[m].type = "block" /\ source[p].items[m].value = block
    <3> HIDE DEF m
    <3>1. source[p].items[m].type = "block"
      BY <1>0, <2>3, <2>5, AgainItemIs
    <3>2. AgainItem(source[p].items[m]) = source[p].items[m]
      BY <1>0, <2>5, <3>1, AgainItemIs
    <3> QED
      BY <2>3, <2>5, <3>1, <3>2
  <2>7. k = m
    <3> HIDE DEF m
    <3> QED
      BY <1>0, <2>5, <2>6, PlaceIsOne
  <2>8. NextItem' = n + Dropped(source, p) + 1
    BY <1>4, <1>7 DEF NextItem, n
  <2> QED
    BY <2>7, <2>8
<1>11. AtLineEnd'
  BY <1>0, <1>4, <1>7, <1>10 DEF AtLineEnd
<1>12. Position'
  BY <1>11 DEF Position
<1> QED
  BY <1>4, <1>7, <1>9, <1>12 DEF GoesOn, Rebuilt

(* From the = of an option: the parser finds no option of that key, since  *)
(* the source has only one, and makes one.                                 *)
LEMMA FromOption ==
    ASSUME NEW S, Rebuilt(S), AtOption, ReadAgain
    PROVE  Next /\ GoesOn
<1>0. /\ Writable(source) /\ ParserInv /\ Opens(S) /\ Part(S) /\ state = "name"
      /\ block \in DOMAIN source /\ block \in DOMAIN tree
      /\ last_item = Len(tree[block].items) /\ last_item \in Nat /\ NextItem \in Nat
  BY HereIs DEF Rebuilt, AtOption
<1> DEFINE rest == Rest(source, block, NextItem + 1)
           item == source[block].items[NextItem]
           list == nfcconf_list_get_string(item.value)
           tail == ListEnd \o rest
<1>a. NextItem \in DOMAIN source[block].items /\ item.type = "value" /\ key = item.key
  BY DEF AtOption, ItemHere
<1>1. item.key \in Strings /\ item.value \in Seq(Strings) /\ rest \in Text
  BY <1>0, <1>a, WritableItem, RestGoesOn
<1>2. file = <<Mark("=")>> \o Scan(list \o tail)
  BY DEF AtOption, ItemHere
<1>3. Scan(list \o tail) \in Seq(Tokens) /\ list \in Text
  <2>1. list \in Text
    BY <1>1, NotEmptyTyped
  <2> HIDE DEF rest
  <2>2. tail \in Text
    BY <1>1, MarksEnd
  <2> HIDE DEF list, tail
  <2>3. list \o tail \in Text
    BY <2>1, <2>2, TextIs
  <2> QED
    BY <2>1, <2>3, ScanTyped
<1>4. /\ AssignAgain \/ AssignNew \/ AssignFollowsNull \/ AssignNothing
      /\ file' = Scan(list \o tail) /\ source' = source /\ Next
  <2>1. Mark("=") \in Tokens
    BY TokensAre
  <2> HIDE DEF list, tail
  <2> QED
    BY <1>2, <1>3, <2>1, NextInFile, NextInFileIsNext
<1>5. ASSUME NEW n \in DOMAIN Items, Items[n].type = "value"
      PROVE  Items[n].key \in Strings /\ Items[n].key # key
  <2> DEFINE m == n + Dropped(source, block)
  <2>1. /\ m \in DOMAIN source[block].items
        /\ n \in Nat /\ n <= last_item
        /\ tree[block].items[n] = AgainItem(source[block].items[m])
    BY <1>0, <1>5, ItemsMatch DEF Items
  <2>2. m < NextItem
    <3>1. Dropped(source, block) \in {0, 1}
      BY <1>0, AgainItemsAre
    <3> QED
      BY <1>0, <2>1, <3>1 DEF NextItem
  <2> HIDE DEF m
  <2>3. source[block].items[m].type = "value" /\ tree[block].items[n].key = source[block].items[m].key
    BY <1>0, <1>5, <2>1, AgainItemIs DEF Items
  <2>4. source[block].items[m].key \in Strings
    BY <1>0, <2>1, <2>3, WritableItem
  <2>5. source[block].items[m].key # item.key
    <3>1. source[block].items[NextItem].type = "value" /\ NextItem \in DOMAIN source[block].items
      BY <1>a
    <3>2. source[block].items[m].key # source[block].items[NextItem].key
      BY <1>0, <2>1, <2>2, <2>3, <3>1, WritableKeysDiffer
    <3> QED
      BY <3>2
  <2> QED
    BY <1>a, <2>3, <2>4, <2>5 DEF Items
<1>6. Found = {} /\ ~FindIsWild
  <2>1. NULL \notin Strings
    BY StringsAssumption
  <2> QED
    BY <1>1, <1>5, <1>a, <2>1 DEF Found, FindIsWild
<1>7. AssignNew
  BY <1>0, <1>4, <1>6 DEF AssignAgain, AssignFollowsNull, AssignNothing
<1> DEFINE new == Item("value", key, <<>>)
<1>8. /\ new \in ItemRecords /\ new.type = "value" /\ new.value = <<>>
  <2>1. <<>> \in Seq(Strings)
    OBVIOUS
  <2> QED
    BY <1>1, <1>a, <2>1 DEF Item, ItemRecords
<1>9. Linked(new) /\ current_item' = <<block, last_item + 1>> /\ last_item' = last_item + 1
      /\ UNCHANGED <<block, error, wild>> /\ state' = "value" /\ set' = FALSE
  BY <1>0, <1>7, <1>8, HereIsBlock DEF AssignNew, AssignStarts, NewItem, Linked
<1> HIDE DEF new
<1>10. Opens(S)' /\ Part(S)'
  BY <1>0, <1>4, <1>9, <1>a, LinkedMatches
<1>11. NextItem' = NextItem + 1 /\ NextItem' - 1 = NextItem
  <2>1. Dropped(source, block) \in {0, 1}
    BY <1>0, AgainItemsAre
  <2>2. NextItem' = last_item + 1 + Dropped(source, block) + 1
    BY <1>4, <1>9 DEF NextItem
  <2> QED
    BY <1>0, <2>1, <2>2 DEF NextItem
<1>12. tree'[block].items[last_item + 1] = Item("value", item.key, <<>>)
  <2>1. tree'[block].items = Append(tree[block].items, new)
    BY <1>0, <1>9, AfterLinked
  <2>2. tree[block].items \in Seq(ItemRecords)
    BY <1>0, BlockTypes
  <2>3. Append(tree[block].items, new)[Len(tree[block].items) + 1] = new
    BY <1>8, <2>2, AppendProperties
  <2> QED
    BY <1>0, <1>a, <2>1, <2>3 DEF new
<1>13. PICK left \in Text : left = list
  BY <1>3
<1>14. PICK got \in Seq(Strings) : got = <<>>
  <2>1. <<>> \in Seq(Strings)
    OBVIOUS
  <2> QED
    BY <2>1
<1>15. ListLeft(item.value, got, FALSE, left)
  BY <1>1, <1>13, <1>14, ListStart
<1>16. file' = Scan(left \o (ListEnd \o Rest(source, block, NextItem + 1)))
  BY <1>4, <1>13
<1>17. ItemHere(NextItem - 1)' = item
  BY <1>4, <1>9, <1>11 DEF ItemHere
<1> HIDE DEF item, rest, tail, list
<1>18. AtValue(got, left)'
  <2>1. state' = "value" /\ last_item' # 0 /\ current_item' = <<block', last_item'>>
    BY <1>0, <1>9
  <2>2. ItemHere(NextItem - 1)'.type = "value"
    BY <1>17, <1>a
  <2>3. tree'[block'].items[last_item'] = Item("value", ItemHere(NextItem - 1)'.key, got)
    BY <1>9, <1>12, <1>14, <1>17
  <2>4. ListLeft(ItemHere(NextItem - 1)'.value, got, set', left)
    BY <1>9, <1>15, <1>17
  <2>5. file' = Scan(left \o (ListEnd \o Rest(source', block', NextItem')))
    BY <1>4, <1>9, <1>11, <1>16
  <2> QED
    BY <2>1, <2>2, <2>3, <2>4, <2>5 DEF AtValue
<1>19. Position'
  BY <1>18 DEF Position
<1> QED
  BY <1>4, <1>9, <1>10, <1>19 DEF GoesOn, Rebuilt

(* A string that is next in a list is one token, and the string again      *)
(* without its quotes.                                                     *)
LEMMA StringInList ==
    ASSUME NEW s \in Strings, Legal(s), NEW more \in Text, CommaNext(more),
           NEW tail \in Text, tail # <<>>, tail[1] \in Ends.unquoted
    PROVE  /\ more \o tail \in Text
           /\ (Written(s) \o more) \o tail = Written(s) \o (more \o tail)
           /\ Scan((Written(s) \o more) \o tail) = <<Word(Written(s))>> \o Scan(more \o tail)
           /\ Written(s) \in Text \ {<<>>}
           /\ Word(Written(s)) \in Tokens /\ Unquoted(Written(s)) = s
<1>1. /\ ~Blank(s) /\ \A n \in DOMAIN s : s[n] \notin Ends.quoted
  BY DEF Legal
<1>2. Written(s) \in Text
  BY WrittenIs
<1> DEFINE w == Written(s)
           r == more \o tail
<1>3. r \in Text /\ (w \o more) \o tail = w \o r
  <2> HIDE DEF w
  <2>1. (w \o more) \o tail = w \o (more \o tail) /\ more \o tail \in Text
    BY <1>2, TextIs DEF w
  <2> QED
    BY <2>1 DEF w
<1>4. r # <<>> /\ r[1] \in Ends.unquoted
  <2>1. CASE more = <<>>
    <3>1. r = tail
      BY <2>1, TextIs
    <3> QED
      BY <3>1
  <2>2. CASE more # <<>>
    <3>1. PICK u \in Text : more = Between \o u
      BY <2>2 DEF CommaNext
    <3>2. u \o tail \in Text /\ r = Between \o (u \o tail)
      BY <3>1, BetweenJoins
    <3> QED
      BY <3>2, MarksEnd
  <2> QED
    BY <2>1, <2>2
<1>5. Scan(w \o r) = <<Word(w)>> \o Scan(r) /\ w \in Text \ {<<>>}
  <2> HIDE DEF r
  <2> QED
    BY <1>1, <1>3, <1>4, ScanWritten
<1>6. Word(w) \in Tokens
  <2> HIDE DEF w
  <2> QED
    BY <1>5, TokensAre
<1>7. Unquoted(w) = s
  BY <1>1, UnquotedIs
<1> QED
  BY <1>3, <1>5, <1>6, <1>7

(* From the head of a block: a name, a comma between names, or the {.      *)
LEMMA FromHead ==
    ASSUME NEW S, Rebuilt(S), NEW left \in Text, AtHead(left), ReadAgain
    PROVE  Next /\ GoesOn
<1> DEFINE item == source[block].items[NextItem]
           c == item.value
           names == source[c].name
           rest == Rest(source, c, 1)
           tail == HeadEnd \o rest
<1>0. /\ Writable(source) /\ ParserInv /\ state = "name"
      /\ block \in DOMAIN source
      /\ name \in Seq(Strings) /\ set \in BOOLEAN
      /\ NextItem \in DOMAIN source[block].items /\ item.type = "block" /\ key = item.key
      /\ ListLeft(names, name, set, left) /\ file = Scan(left \o tail)
  <2>1. /\ Writable(source) /\ ParserInv /\ block \in DOMAIN source
    BY HereIs DEF Rebuilt
  <2>2. /\ state = "name"
        /\ NextItem \in DOMAIN source[block].items /\ item.type = "block" /\ key = item.key
        /\ ListLeft(names, name, set, left) /\ file = Scan(left \o tail)
    BY DEF AtHead, ItemHere
  <2>3. name \in Seq(Strings) /\ set \in BOOLEAN
    BY <2>1 DEF ParserInv, TypeOK
  <2> QED
    BY <2>1, <2>2, <2>3
<1>1. c \in DOMAIN source /\ c # 1
  <2>1. /\ Writable(source) /\ block \in DOMAIN source /\ NextItem \in DOMAIN source[block].items
        /\ source[block].items[NextItem].type = "block"
    BY <1>0
  <2> QED
    BY <2>1, WritableItem
<1>2. names \in Seq(Strings) /\ names # <<>> /\ Readable(names)
  <2> HIDE DEF c
  <2> QED
    BY <1>0, <1>1, WritableBlock
<1>3. rest \in Text
  BY <1>0, RestGoesOn
<1>a. /\ LineEnd \in Tokens /\ Mark("{") \in Tokens /\ Mark(",") \in Tokens
      /\ \A w \in Text \ {<<>>} : Word(w) \in Tokens
  BY TokensAre
<1>4. /\ <<LineEnd>> \o Scan(rest) \in Seq(Tokens) /\ tail \in Text
      /\ tail # <<>> /\ tail[1] \in Ends.unquoted
      /\ Scan(tail) = <<Mark("{")>> \o (<<LineEnd>> \o Scan(rest))
  <2> HIDE DEF rest
  <2>1. Scan(rest) \in Seq(Tokens)
    BY <1>3, ScanTyped
  <2>2. <<LineEnd>> \o Scan(rest) \in Seq(Tokens)
    BY <1>a, <2>1, InFront
  <2>3. tail \in Text /\ tail # <<>> /\ tail[1] \in Ends.unquoted
    BY <1>3, MarksEnd
  <2>4. Scan(HeadEnd \o rest) = <<Mark("{")>> \o (<<LineEnd>> \o Scan(rest))
    BY <1>3, ScanMarks
  <2> QED
    BY <2>2, <2>3, <2>4
<1>5. ListGoesOn(names, name, set, left)
  <2> HIDE DEF names
  <2> QED
    BY <1>0, <1>2, ListNext
<1>b. ItemHere(NextItem) = item
  BY DEF ItemHere
<1>6. CASE left = <<>> /\ name = NotEmpty(names)
  <2>1. file = <<Mark("{")>> \o (<<LineEnd>> \o Scan(rest))
    <3> HIDE DEF tail
    <3>1. left \o tail = tail
      BY <1>4, <1>6, TextIs
    <3> QED
      BY <1>0, <1>4, <3>1
  <2>2. (OpenBlock \/ OpenNothing) /\ file' = <<LineEnd>> \o Scan(rest) /\ source' = source /\ Next
    <3> HIDE DEF rest
    <3> QED
      BY <1>4, <1>a, <2>1, NextInFile, NextInFileIsNext
  <2>3. OpenBlock
    BY <1>0, <2>2 DEF OpenNothing
  <2> DEFINE called == IF name = <<>> THEN <<EmptyString>> ELSE name
  <2>4. called = AgainName(names)
    BY <1>2, <1>6 DEF AgainName
  <2>5. called \in Seq(Strings \cup {EmptyString})
    <3>1. EmptyString \in Strings
      BY StringsAreText
    <3>2. <<EmptyString>> \in Seq(Strings)
      BY <3>1, SmallSeqs
    <3> QED
      BY <1>0, <3>2, StringsAre
  <2>6. Opened(called)
    BY <1>0, <2>3, <2>5, HereIsBlock DEF OpenBlock, Opened
  <2>7. /\ block' = Len(tree) + 1 /\ last_item' = 0 /\ last_token' = "punct" /\ state' = "none"
        /\ UNCHANGED <<error, wild>>
    BY <2>3 DEF OpenBlock, Token, ResetState
  <2>8. c = Len(tree) + 1
    <3>1. state # "value" /\ ItemHere(NextItem).type = "block" /\ c = ItemHere(NextItem).value
      BY <1>0, <1>b
    <3> HIDE DEF c
    <3> QED
      BY <1>0, <3>1, OpensTheNext
  <2>c. PICK d : d = c
    OBVIOUS
  <2>9. PICK T : T = S \cup {d}
    OBVIOUS
  <2>10. Opens(T)' /\ Part(T)'
    <3> HIDE DEF called, c
    <3>1. c = item.value
      BY DEF c
    <3>2. source[d].name = names
      BY <2>c
    <3> HIDE DEF item, names
    <3>3. Opens(S \cup {d})' /\ Part(S \cup {d})'
      BY <1>0, <1>b, <2>2, <2>4, <2>6, <2>7, <2>8, <2>c, <3>1, <3>2, OpenedMatches
    <3> QED
      BY <2>9, <3>3
  <2>11. block' = d /\ NextItem' = 1
    <3>1. Dropped(source, d) = 0
      BY <1>1, <2>c DEF Dropped
    <3> QED
      BY <2>2, <2>7, <2>8, <2>c, <3>1 DEF NextItem
  <2>12. AtLineEnd'
    <3>1. file' = <<LineEnd>> \o RestScan(source, d, 1)
      BY <2>2, <2>c DEF RestScan
    <3> QED
      BY <2>2, <2>7, <2>11, <3>1 DEF AtLineEnd
  <2>13. Position'
    BY <2>12 DEF Position
  <2> QED
    BY <2>2, <2>7, <2>10, <2>13 DEF GoesOn, Rebuilt
<1>7. ASSUME NEW more \in Text, left = Between \o more, ListLeft(names, name, FALSE, more)
      PROVE  Next /\ GoesOn
  <2>1. file = <<Mark(",")>> \o Scan(more \o tail) /\ Scan(more \o tail) \in Seq(Tokens)
    <3> HIDE DEF tail
    <3>1. more \o tail \in Text /\ left \o tail = Between \o (more \o tail)
      BY <1>4, <1>7, BetweenJoins
    <3>2. Scan(Between \o (more \o tail)) = <<Mark(",")>> \o Scan(more \o tail)
      BY <3>1, ScanMarks
    <3> QED
      BY <1>0, <3>1, <3>2, ScanTyped
  <2>2. Comma /\ file' = Scan(more \o tail) /\ source' = source /\ Next
    <3> HIDE DEF tail
    <3> QED
      BY <1>a, <2>1, NextInFile, NextInFileIsNext
  <2>3. /\ UNCHANGED <<tree, block, last_item, key, name, state, wild>> /\ ~error' /\ set' = FALSE
    BY <1>0, <2>2 DEF Comma
  <2>4. NextItem' = NextItem /\ ItemHere(NextItem)' = item
    BY <2>2, <2>3 DEF NextItem, ItemHere
  <2>5. AtHead(more)'
    BY <1>0, <1>7, <2>2, <2>3, <2>4 DEF AtHead
  <2>6. Opens(S)' /\ Part(S)'
    BY <1>0, <2>2, <2>3, SameTree
  <2>7. Position'
    BY <2>5 DEF Position
  <2> QED
    BY <2>2, <2>3, <2>6, <2>7 DEF GoesOn, Rebuilt
<1>8. ASSUME NEW s \in Strings, NEW more \in Text, ~set, Legal(s),
             left = Written(s) \o more, CommaNext(more), ListLeft(names, Append(name, s), TRUE, more)
      PROVE  Next /\ GoesOn
  <2>0. /\ more \o tail \in Text
        /\ Scan(left \o tail) = <<Word(Written(s))>> \o Scan(more \o tail)
        /\ Word(Written(s)) \in Tokens /\ Unquoted(Written(s)) = s
    <3> HIDE DEF tail
    <3>1. left = Written(s) \o more /\ Legal(s) /\ CommaNext(more)
      BY <1>8
    <3>2. /\ more \o tail \in Text
          /\ Scan((Written(s) \o more) \o tail) = <<Word(Written(s))>> \o Scan(more \o tail)
          /\ Word(Written(s)) \in Tokens /\ Unquoted(Written(s)) = s
      BY <1>4, <3>1, StringInList
    <3> QED
      BY <3>1, <3>2
  <2>1. file = <<Word(Written(s))>> \o Scan(more \o tail) /\ Scan(more \o tail) \in Seq(Tokens)
    <3> HIDE DEF tail
    <3> QED
      BY <1>0, <2>0, ScanTyped
  <2>2. TakeString(s) /\ file' = Scan(more \o tail) /\ source' = source /\ Next
    <3> HIDE DEF tail
    <3>1. TakeString(Unquoted(Written(s))) /\ file' = Scan(more \o tail) /\ source' = source
      BY <2>0, <2>1, NextInFile
    <3>2. Next
      BY <2>0, <2>1, NextInFileIsNext
    <3> QED
      BY <2>0, <3>1, <3>2
  <2>3. ReadName(s)
    BY <1>0, <1>8, <2>2 DEF TakeString, ReadKey, StartsStatement, ReadValue, ReadValueIntoComment, SecondName
  <2>4. /\ UNCHANGED <<tree, block, last_item, key, state, error, wild>>
        /\ name' = Append(name, s) /\ set' = TRUE
    BY <2>3 DEF ReadName
  <2>5. NextItem' = NextItem /\ ItemHere(NextItem)' = item
    BY <2>2, <2>4 DEF NextItem, ItemHere
  <2>6. AtHead(more)'
    BY <1>0, <1>8, <2>2, <2>4, <2>5 DEF AtHead
  <2>7. Opens(S)' /\ Part(S)'
    BY <1>0, <2>2, <2>4, SameTree
  <2>8. Position'
    BY <2>6 DEF Position
  <2> QED
    BY <2>2, <2>4, <2>7, <2>8 DEF GoesOn, Rebuilt
<1> QED
  BY <1>5, <1>6, <1>7, <1>8 DEF ListGoesOn

(* What an option is when a value has been added to it.                    *)
LEMMA ValuedItem ==
    ASSUME ParserInv, NEW b, NEW n, NEW s, Valued(b, n, s),
           NEW k, NEW got, tree[b].items[n] = Item("value", k, got)
    PROVE  tree'[b].items[n] = Item("value", k, Append(got, s))
<1>1. Item("value", k, got).type = "value" /\ Item("value", k, got).key = k /\ Item("value", k, got).value = got
  BY DEF Item
<1>2. b \in DOMAIN tree /\ n \in DOMAIN tree[b].items
  BY DEF Valued
<1>3. /\ tree' \in Seq(Blocks) /\ Len(tree') = Len(tree)
      /\ Len(tree'[b].items) = Len(tree[b].items)
      /\ tree'[b].items[n].type = "value" /\ tree'[b].items[n].key = k
      /\ tree'[b].items[n].value = Append(got, s)
  <2>1. /\ tree' \in Seq(Blocks) /\ Len(tree') = Len(tree)
        /\ Len(tree'[b].items) = Len(tree[b].items)
        /\ tree'[b].items[n].type = tree[b].items[n].type
        /\ tree'[b].items[n].key = tree[b].items[n].key
        /\ tree'[b].items[n].value = Append(tree[b].items[n].value, s)
    BY <1>2, AfterValued
  <2> QED
    BY <1>1, <2>1
<1>4. tree'[b].items[n] \in ItemRecords
  <2>1. b \in 1 .. Len(tree) /\ n \in 1 .. Len(tree[b].items)
    BY <1>2, BlockTypes
  <2>2. tree'[b] \in Blocks
    BY <1>3, <2>1
  <2>3. tree'[b].items \in Seq(ItemRecords)
    BY <2>2 DEF Blocks
  <2> QED
    BY <1>3, <2>1, <2>3
<1> QED
  BY <1>3, <1>4 DEF ItemRecords, Item

(* From the values of an option: a value, a comma between values, or the ; *)
(* at their end.                                                           *)
LEMMA FromValue ==
    ASSUME NEW S, Rebuilt(S), NEW got \in Seq(Strings), NEW left \in Text, AtValue(got, left), ReadAgain
    PROVE  Next /\ GoesOn
<1> DEFINE m == NextItem - 1
           item == source[block].items[m]
           rest == Rest(source, block, NextItem)
           tail == ListEnd \o rest
<1>0. /\ Writable(source) /\ ParserInv /\ Part(S)
      /\ block \in DOMAIN source /\ block \in DOMAIN tree /\ block \in Nat
      /\ last_item = Len(tree[block].items) /\ last_item \in Nat /\ NextItem \in Nat
      /\ NextItem \in 1 .. Len(source[block].items) + 1
      /\ set \in BOOLEAN
  BY HereIs DEF Rebuilt, ParserInv, TypeOK
<1>1. /\ state = "value" /\ last_item # 0 /\ item.type = "value"
      /\ current_item = <<block, last_item>>
      /\ tree[block].items[last_item] = Item("value", item.key, got)
      /\ ListLeft(item.value, got, set, left)
      /\ file = Scan(left \o tail)
      /\ ItemHere(NextItem - 1) = item
  BY DEF AtValue, ItemHere
<1>2. last_item \in DOMAIN tree[block].items
  <2>1. DOMAIN tree[block].items = 1 .. Len(tree[block].items)
    BY <1>0, BlockTypes
  <2>2. last_item = Len(tree[block].items) /\ last_item \in Nat /\ last_item # 0
    BY <1>0, <1>1
  <2> QED
    BY <2>1, <2>2
<1>3. m \in DOMAIN source[block].items /\ AgainItems(block, source)[last_item] = AgainItem(item)
  <2>1. m = last_item + Dropped(source, block)
    <3>1. Dropped(source, block) \in {0, 1}
      BY <1>0, AgainItemsAre
    <3> QED
      BY <1>0, <3>1 DEF NextItem
  <2> QED
    BY <1>0, <1>2, <2>1, ItemsMatch
<1> HIDE DEF m
<1>4. item.value \in Seq(Strings) /\ Readable(item.value) /\ AgainItem(item) = Item("value", item.key, NotEmpty(item.value))
  <2>1. source[block].items[m].type = "value"
    BY <1>1
  <2> QED
    BY <1>0, <1>3, <2>1, WritableItem, AgainItemIs
<1>5. rest \in Text
  BY <1>0, RestTyped
<1>a. /\ LineEnd \in Tokens /\ Mark(";") \in Tokens /\ Mark(",") \in Tokens
      /\ \A w \in Text \ {<<>>} : Word(w) \in Tokens
  BY TokensAre
<1>6. /\ <<LineEnd>> \o Scan(rest) \in Seq(Tokens) /\ tail \in Text
      /\ tail # <<>> /\ tail[1] \in Ends.unquoted
      /\ Scan(tail) = <<Mark(";")>> \o (<<LineEnd>> \o Scan(rest))
  <2> HIDE DEF rest
  <2>1. Scan(rest) \in Seq(Tokens)
    BY <1>5, ScanTyped
  <2>2. <<LineEnd>> \o Scan(rest) \in Seq(Tokens)
    BY <1>a, <2>1, InFront
  <2>3. tail \in Text /\ tail # <<>> /\ tail[1] \in Ends.unquoted
    BY <1>5, MarksEnd
  <2>4. Scan(ListEnd \o rest) = <<Mark(";")>> \o (<<LineEnd>> \o Scan(rest))
    BY <1>5, ScanMarks
  <2> QED
    BY <2>2, <2>3, <2>4
<1>7. ListGoesOn(item.value, got, set, left)
  <2> HIDE DEF item
  <2> QED
    BY <1>0, <1>1, <1>4, ListNext
<1> HIDE DEF item
<1>8. CASE left = <<>> /\ got = NotEmpty(item.value)
  <2>1. file = <<Mark(";")>> \o (<<LineEnd>> \o Scan(rest))
    <3> HIDE DEF tail
    <3>1. left \o tail = tail
      BY <1>6, <1>8, TextIs
    <3> QED
      BY <1>1, <1>6, <3>1
  <2>2. Semicolon /\ file' = <<LineEnd>> \o Scan(rest) /\ source' = source /\ Next
    <3> HIDE DEF rest
    <3> QED
      BY <1>6, <1>a, <2>1, NextInFile, NextInFileIsNext
  <2>3. /\ UNCHANGED <<tree, block, last_item, error, wild>>
        /\ last_token' = "punct" /\ state' = "none"
    BY <2>2 DEF Semicolon, Token, ResetState
  <2>4. NextItem' = NextItem
    BY <2>2, <2>3 DEF NextItem
  <2>5. AtLineEnd'
    BY <2>2, <2>3, <2>4 DEF AtLineEnd, RestScan
  <2>6. tree[block].items[last_item] = AgainItems(block, source)[last_item]
    BY <1>1, <1>3, <1>4, <1>8
  <2>7. Opens(S)' /\ Part(S)'
    BY <2>2, <2>3, <2>6, SameTree
  <2>8. Position'
    BY <2>5 DEF Position
  <2> QED
    BY <2>2, <2>3, <2>7, <2>8 DEF GoesOn, Rebuilt
<1>9. ASSUME NEW more \in Text, left = Between \o more, ListLeft(item.value, got, FALSE, more)
      PROVE  Next /\ GoesOn
  <2>1. file = <<Mark(",")>> \o Scan(more \o tail) /\ Scan(more \o tail) \in Seq(Tokens)
    <3> HIDE DEF tail
    <3>1. more \o tail \in Text /\ left \o tail = Between \o (more \o tail)
      BY <1>6, <1>9, BetweenJoins
    <3>2. Scan(Between \o (more \o tail)) = <<Mark(",")>> \o Scan(more \o tail)
      BY <3>1, ScanMarks
    <3> QED
      BY <1>1, <3>1, <3>2, ScanTyped
  <2>2. Comma /\ file' = Scan(more \o tail) /\ source' = source /\ Next
    <3> HIDE DEF tail
    <3> QED
      BY <1>a, <2>1, NextInFile, NextInFileIsNext
  <2>3. /\ UNCHANGED <<tree, block, last_item, current_item, state, wild>> /\ ~error' /\ set' = FALSE
    BY <1>1, <2>2 DEF Comma
  <2>4. NextItem' = NextItem /\ ItemHere(NextItem - 1)' = item
    BY <1>1, <2>2, <2>3 DEF NextItem, ItemHere
  <2>5. AtValue(got, more)'
    <3>1. state' = "value" /\ last_item' # 0 /\ current_item' = <<block', last_item'>>
      BY <1>1, <2>3
    <3>2. tree'[block'].items[last_item'] = Item("value", ItemHere(NextItem - 1)'.key, got)
      BY <1>1, <2>3, <2>4
    <3>3. ListLeft(ItemHere(NextItem - 1)'.value, got, set', more) /\ ItemHere(NextItem - 1)'.type = "value"
      BY <1>1, <1>9, <2>3, <2>4
    <3>4. file' = Scan(more \o (ListEnd \o Rest(source', block', NextItem')))
      BY <2>2, <2>3, <2>4
    <3> QED
      BY <3>1, <3>2, <3>3, <3>4 DEF AtValue
  <2>6. Opens(S)' /\ Part(S)'
    BY <1>1, <2>2, <2>3, SameTree
  <2>7. Position'
    BY <2>5 DEF Position
  <2> QED
    BY <2>2, <2>3, <2>6, <2>7 DEF GoesOn, Rebuilt
<1>10. ASSUME NEW s \in Strings, NEW more \in Text, ~set, Legal(s),
              left = Written(s) \o more, CommaNext(more), ListLeft(item.value, Append(got, s), TRUE, more)
       PROVE  Next /\ GoesOn
  <2>0. /\ more \o tail \in Text
        /\ Scan(left \o tail) = <<Word(Written(s))>> \o Scan(more \o tail)
        /\ Word(Written(s)) \in Tokens /\ Unquoted(Written(s)) = s
    <3> HIDE DEF tail
    <3>1. left = Written(s) \o more /\ Legal(s) /\ CommaNext(more)
      BY <1>10
    <3>2. /\ more \o tail \in Text
          /\ Scan((Written(s) \o more) \o tail) = <<Word(Written(s))>> \o Scan(more \o tail)
          /\ Word(Written(s)) \in Tokens /\ Unquoted(Written(s)) = s
      BY <1>6, <3>1, StringInList
    <3> QED
      BY <3>1, <3>2
  <2>1. file = <<Word(Written(s))>> \o Scan(more \o tail) /\ Scan(more \o tail) \in Seq(Tokens)
    <3> HIDE DEF tail
    <3> QED
      BY <1>1, <2>0, ScanTyped
  <2>2. TakeString(s) /\ file' = Scan(more \o tail) /\ source' = source /\ Next
    <3> HIDE DEF tail
    <3>1. TakeString(Unquoted(Written(s))) /\ file' = Scan(more \o tail) /\ source' = source
      BY <2>0, <2>1, NextInFile
    <3>2. Next
      BY <2>0, <2>1, NextInFileIsNext
    <3> QED
      BY <2>0, <3>1, <3>2
  <2>3. Current = tree[block].items[last_item] /\ Current.type = "value"
    <3>1. Current = tree[block].items[last_item]
      BY <1>1 DEF Current
    <3>2. Item("value", item.key, got).type = "value"
      BY DEF Item
    <3> QED
      BY <1>1, <3>1, <3>2
  <2>4. ReadValue(s)
    BY <1>1, <1>10, <2>2, <2>3
       DEF TakeString, ReadKey, StartsStatement, ReadName, ReadValueIntoComment, SecondName
  <2>5. /\ UNCHANGED <<block, last_item, current_item, state, error, wild>> /\ set' = TRUE
    BY <2>4 DEF ReadValue
  <2>6. Valued(block, last_item, s)
    <3>1. tree' = [tree EXCEPT ![block].items[last_item].value = Append(@, s)]
      BY <1>1, <2>4 DEF ReadValue
    <3> QED
      BY <1>0, <1>2, <2>3, <3>1 DEF Valued
  <2>7. tree'[block].items[last_item] = Item("value", item.key, Append(got, s))
    <3>1. tree[block].items[last_item] = Item("value", item.key, got) /\ ParserInv
      BY <1>0, <1>1
    <3> QED
      BY <2>6, <3>1, ValuedItem
  <2>8. NextItem' = NextItem /\ ItemHere(NextItem - 1)' = item
    BY <1>1, <2>2, <2>5 DEF NextItem, ItemHere
  <2>9. PICK new \in Seq(Strings) : new = Append(got, s)
    <3>1. Append(got, s) \in Seq(Strings)
      OBVIOUS
    <3> QED
      BY <3>1
  <2>10. AtValue(new, more)'
    <3>1. state' = "value" /\ last_item' # 0 /\ current_item' = <<block', last_item'>>
      BY <1>1, <2>5
    <3>2. tree'[block'].items[last_item'] = Item("value", ItemHere(NextItem - 1)'.key, new)
      BY <2>5, <2>7, <2>8, <2>9
    <3>3. ListLeft(ItemHere(NextItem - 1)'.value, new, set', more) /\ ItemHere(NextItem - 1)'.type = "value"
      BY <1>1, <1>10, <2>5, <2>8, <2>9
    <3>4. file' = Scan(more \o (ListEnd \o Rest(source', block', NextItem')))
      BY <2>2, <2>5, <2>8
    <3> QED
      BY <3>1, <3>2, <3>3, <3>4 DEF AtValue
  <2>11. Opens(S)' /\ Part(S)'
    BY <1>1, <2>2, <2>5, <2>6, ValuedMatches
  <2>12. Position'
    BY <2>10 DEF Position
  <2> QED
    BY <2>2, <2>5, <2>11, <2>12 DEF GoesOn, Rebuilt
<1> QED
  BY <1>7, <1>8, <1>9, <1>10 DEF ListGoesOn

(* From wherever the second parse is, one token takes it to the next       *)
(* place, without an error.                                                *)
LEMMA StepOfReadAgain ==
    ASSUME NEW S, Rebuilt(S), Position, ReadAgain
    PROVE  Next /\ GoesOn
<1>1. CASE AtTop
  BY <1>1, FromTop
<1>2. CASE AtLineEnd
  BY <1>2, FromLineEnd
<1>3. CASE AtOption
  BY <1>3, FromOption
<1>4. ASSUME NEW left \in Text, AtHead(left) PROVE Next /\ GoesOn
  BY <1>4, FromHead
<1>5. ASSUME NEW got \in Seq(Strings), NEW left \in Text, AtValue(got, left) PROVE Next /\ GoesOn
  BY <1>5, FromValue
<1>6. CASE AtItem
  <2>1. /\ NextItem \in 1 .. Len(source[block].items) + 1
        /\ DOMAIN source[block].items = 1 .. Len(source[block].items)
        /\ Len(source[block].items) \in Nat
    BY HereIs, WritableBlock DEF Rebuilt
  <2>2. NextItem \in DOMAIN source[block].items \/ NextItem = Len(source[block].items) + 1
    BY <2>1
  <2>3. CASE NextItem = Len(source[block].items) + 1
    BY <1>6, <2>3, FromEnd
  <2>4. CASE NextItem \in DOMAIN source[block].items
    BY <1>6, <2>4, FromComment, FromKey
  <2> QED
    BY <2>2, <2>3, <2>4
<1> QED
  BY <1>1, <1>2, <1>3, <1>4, <1>5, <1>6 DEF Position

-----------------------------------------------------------------------------
(* The beginning of the second parse.                                      *)
LEMMA InitIsWhole ==
    Init => ParserInv /\ TreeShape /\ OneItemPerKey /\ Numbered
<1> SUFFICES ASSUME Init PROVE TreeShape /\ OneItemPerKey
  BY InitIsTyped, InitIsNumbered
<1>1. Len(tree) = 1 /\ DOMAIN tree = {1} /\ DOMAIN tree[1].items = {}
  BY DEF Init, Root, Block
<1> QED
  BY <1>1 DEF TreeShape, OneItemPerKey

(* Nothing is left of an empty list.                                       *)
LEMMA NothingKept ==
    ASSUME NEW list \in Seq(Strings), list = <<>>
    PROVE  NotEmpty(list) = <<>>
<1>1. Len(list) = 0
  OBVIOUS
<1>2. KeptTexts(list) \in Seq(Seq(Strings)) /\ Len(KeptTexts(list)) = 0
  BY <1>1, ListTextsAre
<1>3. 1 \in 1 .. Len(KeptTexts(list)) + 1 /\ 1 = Len(KeptTexts(list)) + 1
  BY <1>2
<1>4. Suffix(KeptTexts(list), 1) = <<>> /\ Suffix(KeptTexts(list), 1) = FlattenSeq(KeptTexts(list))
  BY <1>2, <1>3, SuffixIs
<1> QED
  BY <1>4, NotEmptyTyped

(* What the writer writes is what is left of the file at the first item of *)
(* the root.                                                               *)
LEMMA WriterStarts ==
    ASSUME NEW t, Writable(t)
    PROVE  /\ nfcconf_write_items(t) = Rest(t, 1, 1) /\ 1 \in DOMAIN t
           /\ AgainName(t[1].name) = <<>> /\ t[1].parent = 0
           /\ Len(AgainItems(1, t)) \in Nat /\ Len(t) >= 1
<1>1. 1 \in DOMAIN t /\ Len(t) >= 1
  <2>1. t \in Seq(Blocks) /\ t # <<>>
    BY DEF Writable
  <2> QED
    BY <2>1
<1>2. Len(AgainItems(1, t)) \in Nat
  BY <1>1, AgainItemsAre
<1>3. t[1].parent = 0 /\ AgainName(t[1].name) = <<>>
  <2>1. t[1].name = <<>> /\ t[1].parent = 0
    BY DEF Writable
  <2>2. NotEmpty(t[1].name) = <<>>
    <3>1. t[1].name \in Seq(Strings)
      BY <1>1, WritableBlock
    <3> QED
      BY <2>1, <3>1, NothingKept
  <2> QED
    BY <2>1, <2>2 DEF AgainName
<1>4. 1 \in 1 .. Len(t[1].items) + 1
  <2>1. Len(t[1].items) \in Nat
    BY <1>1, WritableBlock
  <2> QED
    BY <2>1
<1>5. Rest(t, 1, 1) = Inside(t)[1] \o After(t)[1] /\ After(t)[1] = <<>>
  BY <1>1, <1>4, RestTyped, AfterIs
<1>6. Inside(t)[1] \in Text
  BY <1>1, WritableIsShaped, InsideIs
<1>7. Inside(t)[1] \o <<>> = Inside(t)[1]
  BY <1>6, TextIs
<1> QED
  BY <1>1, <1>2, <1>3, <1>5, <1>7, WritableIsShaped, WriterWrites

(* nfcconf_write() takes the second parse to the top of the file.          *)
LEMMA WritingStarts ==
    ASSUME ParserInv, TreeShape, OneItemPerKey, Numbered, nfcconf_write, Legible(tree)
    PROVE  Position' /\ \E S : Rebuilt(S)'
<1>1. Writable(tree)
  BY TreeIsWritable DEF nfcconf_write
<1>2. /\ file' = RestScan(tree, 1, 1) /\ 1 \in DOMAIN tree /\ source' = tree
      /\ AgainName(tree[1].name) = <<>> /\ tree[1].parent = 0
      /\ Len(AgainItems(1, tree)) \in Nat /\ Len(tree) >= 1
  BY <1>1, WriterStarts DEF nfcconf_write, RestScan, Scan
<1>3. Init'
  BY DEF nfcconf_write, Init, ResetState
<1>4. ParserInv' /\ TreeShape'
  BY <1>3, InitIsWhole, PTL
<1>5. /\ tree' = <<Root>> /\ block' = 1 /\ last_item' = 0 /\ state' = "none" /\ ~error' /\ ~wild'
      /\ last_token' = "comment"
  BY DEF nfcconf_write, ResetState
<1>6. /\ Len(tree') = 1 /\ DOMAIN tree' = {1}
      /\ tree'[1].parent = 0 /\ tree'[1].name = <<>>
      /\ Len(tree'[1].items) = 0 /\ DOMAIN tree'[1].items = {}
  BY <1>5 DEF Root, Block
<1>7. PICK S : S = {1}
  OBVIOUS
<1>8. Opens(S)'
  BY <1>5, <1>6, <1>7 DEF Opens
<1>9. Part(S)'
  BY <1>2, <1>6, <1>7 DEF Part
<1>10. Position'
  <2>1. CASE EmptyTop(tree)
    <3>1. AtTop'
      BY <1>2, <1>5, <1>6, <2>1 DEF AtTop
    <3> QED
      BY <3>1 DEF Position
  <2>2. CASE ~EmptyTop(tree)
    <3>1. NextItem' = 1
      BY <1>2, <1>5, <2>2 DEF NextItem, Dropped
    <3>2. AtItem'
      BY <1>2, <1>5, <3>1 DEF AtItem
    <3> QED
      BY <3>2 DEF Position
  <2> QED
    BY <2>1, <2>2
<1>11. Rebuilt(S)'
  BY <1>1, <1>2, <1>4, <1>5, <1>8, <1>9 DEF Rebuilt
<1> QED
  BY <1>10, <1>11

-----------------------------------------------------------------------------
(* What is proved of the parser for files of any tokens holds through      *)
(* reading, writing and reading again, whatever the keys are.              *)
BothParses ==
    /\ ParserInv /\ TreeShape /\ OneItemPerKey /\ Numbered
    /\ file \in Seq(Tokens)

(* What nfcconf_write() writes is text, so the scanner makes tokens of it. *)
LEMMA WrittenIsTokens ==
    ASSUME ParserInv, TreeShape, HasKeys(tree)
    PROVE  Scan(nfcconf_write_items(tree)) \in Seq(Tokens)
<1>1. /\ tree \in Seq(Blocks) /\ DOMAIN tree = 1 .. Len(tree) /\ Len(tree) \in Nat
      /\ block \in DOMAIN tree
  BY HereIsBlock, BlockTypes DEF ParserInv
<1>2. tree # <<>> /\ 1 \in DOMAIN tree
  BY <1>1
<1>3. ASSUME NEW b \in DOMAIN tree, NEW n \in DOMAIN tree[b].items
      PROVE  /\ tree[b].items[n].type # "comment" => tree[b].items[n].key \in Strings
             /\ tree[b].items[n].type = "value" => tree[b].items[n].value \in Seq(Strings)
             /\ tree[b].items[n].type = "block" => tree[b].items[n].value \in b + 1 .. Len(tree)
  <2>1. tree[b].items[n] \in ItemRecords
    BY <1>3, BlockTypes
  <2>2. tree[b].items[n].key \in Strings \cup {NULL}
    BY <2>1 DEF ItemRecords
  <2>3. tree[b].items[n].type # "comment" => tree[b].items[n].key \in Strings
    BY <1>3, <2>2 DEF HasKeys
  <2>4. tree[b].items[n].type = "value" => tree[b].items[n].value \in Seq(Strings)
    BY <1>3 DEF ParserInv
  <2>5. ASSUME tree[b].items[n].type = "block" PROVE tree[b].items[n].value \in b + 1 .. Len(tree)
    <3> DEFINE c == tree[b].items[n].value
    <3>1. c \in 2 .. Len(tree)
      BY <1>3, <2>5 DEF TreeShape
    <3>2. Hangs(c, b, n)
      BY <2>5 DEF Hangs
    <3> HIDE DEF c
    <3>3. tree[c].parent = b
      BY <1>3, <3>1, <3>2 DEF TreeShape
    <3>4. c \in DOMAIN tree /\ tree[c].parent \in 0 .. c - 1
      BY <1>1, <3>1 DEF ParserInv, TypeOK
    <3>5. b \in Nat /\ c \in Nat
      BY <1>1, <1>3, <3>1
    <3>6. c \in b + 1 .. Len(tree)
      BY <1>1, <3>1, <3>3, <3>4, <3>5
    <3> QED
      BY <3>6 DEF c
  <2> QED
    BY <2>3, <2>4, <2>5
<1>4. Shaped(tree)
  BY <1>1, <1>2, <1>3 DEF Shaped
<1>5. nfcconf_write_items(tree) \in Text
  BY <1>2, <1>4, InsideIs, WriterWrites
<1> QED
  BY <1>5, ScanTyped

(* Whatever token comes, reading it is a step of the parser,               *)
LEMMA FirstToken ==
    ASSUME file \in Seq(Tokens), file # <<>>
    PROVE  \E x \in Tokens, rest \in Seq(Tokens) : file = <<x>> \o rest /\ Head(file) = x
<1>1. Head(file) \in Tokens /\ Tail(file) \in Seq(Tokens) /\ file = <<Head(file)>> \o Tail(file)
  OBVIOUS
<1> QED
  BY <1>1

LEMMA ReadAgainIsNext ==
    ASSUME BothParses, ReadAgain
    PROVE  Next /\ file' \in Seq(Tokens)
<1>1. file \in Seq(Tokens) /\ file # <<>>
  BY DEF BothParses, ReadAgain
<1>2. PICK x \in Tokens, rest \in Seq(Tokens) : file = <<x>> \o rest
  BY <1>1, FirstToken
<1> QED
  BY <1>2, NextInFile, NextInFileIsNext

(* and so is reading the string that is left of one that was cut off.      *)
LEMMA ReadCutIsNext ==
    ASSUME BothParses, ReadCut
    PROVE  Next /\ file' \in Seq(Tokens)
<1>1. file \in Seq(Tokens) /\ file # <<>> /\ Head(file).type = "string" /\ file' = <<>>
  BY DEF BothParses, ReadCut
<1>2. Head(file) \in Tokens
  BY <1>1, FirstToken
<1>3. PICK w \in Text \ {<<>>} : Head(file) = Word(w)
  <2>1. /\ \A c : Mark(c).type # "string"
        /\ \A w : Remark(w).type # "string"
        /\ LineEnd.type # "string"
    BY DEF Mark, Remark, LineEnd
  <2> QED
    BY <1>1, <1>2, <2>1 DEF Tokens
<1>4. Head(file).string = w
  BY <1>3 DEF Word
<1>5. PICK n \in 1 .. Len(w) - 1 : TakeString(Unquoted(LongToken(SubSeq(w, 1, n), 1).string))
  BY <1>4 DEF ReadCut
<1>6. Unquoted(LongToken(SubSeq(w, 1, n), 1).string) \in Strings
  BY CutTyped
<1>7. Next
  BY <1>5, <1>6, TakeStringIsNext
<1> QED
  BY <1>1, <1>7

(* A token of the first file is one of the parser's.                       *)
LEMMA ReadIsNext ==
    ASSUME Read
    PROVE  Next
BY FirstStringsAssumption DEF Read, Next, NextToken

LEMMA StepKeepsBothParses ==
    ASSUME BothParses, [WriteNext]_writevars
    PROVE  BothParses'
<1>0. ParserInv /\ TreeShape /\ OneItemPerKey /\ Numbered /\ file \in Seq(Tokens)
  BY DEF BothParses
<1>1. ASSUME [Next]_vars, file' \in Seq(Tokens) PROVE BothParses'
  BY <1>0, <1>1, StepKeepsTypes, StepKeepsShape, StepKeepsKeys, StepKeepsNumbers DEF BothParses
<1>2. CASE Read
  BY <1>0, <1>1, <1>2, ReadIsNext DEF Read, wvars
<1>3. CASE nfcconf_write
  <2>1. Init' /\ file' = Scan(nfcconf_write_items(tree)) /\ HasKeys(tree)
    BY <1>3 DEF nfcconf_write, Init, ResetState, Scan
  <2>2. ParserInv' /\ TreeShape' /\ OneItemPerKey' /\ Numbered'
    BY <2>1, InitIsWhole, PTL
  <2>3. file' \in Seq(Tokens)
    BY <1>0, <2>1, WrittenIsTokens
  <2> QED
    BY <2>2, <2>3 DEF BothParses
<1>4. CASE WriteFollowsNull
  <2>1. /\ UNCHANGED <<tree, block, last_item, current_item, key, name, state, set, last_token, error,
                       tokens, result, file>>
        /\ wild' = TRUE
    BY <1>4 DEF WriteFollowsNull, reading, wvars
  <2>2. TypeOK'
    <3>1. TypeOK
      BY <1>0 DEF ParserInv
    <3> QED
      BY <2>1, <3>1 DEF TypeOK, Items
  <2>3. ParserInv'
    BY <1>0, <2>1, <2>2 DEF ParserInv
  <2>4. TreeShape' /\ OneItemPerKey' /\ Numbered'
    BY <1>0, <2>1 DEF TreeShape, Hangs, OneItemPerKey, Numbered, Named, InOrder, Nested
  <2> QED
    BY <1>0, <2>1, <2>3, <2>4 DEF BothParses
<1>5. CASE WriteFails
  BY <1>0, <1>1, <1>5 DEF WriteFails
<1>6. CASE ReadAgain
  <2>1. Next /\ file' \in Seq(Tokens)
    BY <1>6, ReadAgainIsNext
  <2> QED
    BY <1>1, <2>1
<1>9. CASE ReadCut
  <2>1. Next /\ file' \in Seq(Tokens)
    BY <1>9, ReadCutIsNext
  <2> QED
    BY <1>1, <2>1
<1>7. CASE ReadAgainEnds
  BY <1>0, <1>1, <1>7 DEF ReadAgainEnds, Next, NextToken, wvars
<1>8. CASE UNCHANGED writevars
  BY <1>0, <1>1, <1>8 DEF writevars, wvars
<1> QED
  BY <1>2, <1>3, <1>4, <1>5, <1>6, <1>7, <1>8, <1>9 DEF WriteNext

THEOREM BothParsesInv ==
    WriteSpec => []BothParses
<1>1. WriteInit => BothParses
  <2>1. WriteInit => Init /\ file \in Seq(Tokens)
    BY DEF WriteInit
  <2> QED
    BY <2>1, InitIsWhole DEF BothParses
<1>2. BothParses /\ [WriteNext]_writevars => BothParses'
  BY StepKeepsBothParses
<1> QED
  BY <1>1, <1>2, PTL DEF WriteSpec

(* Through both parses the tree has the shape that the writer and all      *)
(* readers of it rely on: pointers that lead into it, one place for each   *)
(* block, and one option for each key.                                     *)
THEOREM BothParsesHold ==
    WriteSpec => [](TypeOK /\ TreeShape /\ OneItemPerKey)
<1>1. BothParses => TypeOK /\ TreeShape /\ OneItemPerKey
  BY DEF BothParses, ParserInv
<1> QED
  BY <1>1, BothParsesInv, PTL

(* And no token of either file takes an item away.                         *)
THEOREM NothingIsCutTwice ==
    WriteSpec => ItemsSurvive
<1>1. ASSUME BothParses, [WriteNext]_writevars PROVE [Survive]_vars
  <2>0. ParserInv /\ tokens \in Nat
    <3>1. ParserInv /\ tokens \in 0 .. MaxTokens
      BY <1>1 DEF BothParses, ParserInv, TypeOK
    <3> QED
      BY <3>1, MaxTokensAssumption
  <2>1. [Next]_vars => Survive
    BY <2>0, StepKeepsItems
  <2>2. tokens' = tokens \/ tokens' = 0 => Survive
    BY <2>0 DEF Survive
  <2>3. CASE ReadAgain
    <3>1. Next
      BY <1>1, <2>3, ReadAgainIsNext
    <3> QED
      BY <2>1, <3>1
  <2>6. CASE ReadCut
    <3>1. Next
      BY <1>1, <2>6, ReadCutIsNext
    <3> QED
      BY <2>1, <3>1
  <2>4. CASE Read \/ ReadAgainEnds
    BY <2>1, <2>4, ReadIsNext DEF ReadAgainEnds, Next, NextToken
  <2>5. CASE nfcconf_write \/ WriteFollowsNull \/ WriteFails \/ UNCHANGED writevars
    BY <2>2, <2>5 DEF nfcconf_write, WriteFollowsNull, WriteFails, writevars, vars
  <2> QED
    BY <1>1, <2>3, <2>4, <2>5, <2>6 DEF WriteNext
<1>2. WriteSpec => [][Survive]_vars
  BY <1>1, BothParsesInv, PTL DEF WriteSpec
<1> QED
  BY <1>2 DEF ItemsSurvive, Survive

-----------------------------------------------------------------------------
(* The option at hand, while its values are read.                          *)
LEMMA AtValueIs ==
    ASSUME NEW S, Rebuilt(S), NEW got \in Seq(Strings), NEW left \in Text, AtValue(got, left)
    PROVE  LET item == ItemHere(NextItem - 1)
               list == item.value
           IN  /\ list \in Seq(Strings) /\ Readable(list)
               /\ last_item \in DOMAIN tree[block].items /\ last_item = Len(tree[block].items)
               /\ tree[block].items[last_item] = Item("value", item.key, got)
               /\ AgainItems(block, source)[last_item] = Item("value", item.key, NotEmpty(list))
<1> DEFINE m == NextItem - 1
           item == source[block].items[m]
<1>0. /\ Writable(source) /\ ParserInv
      /\ block \in DOMAIN source /\ block \in DOMAIN tree
      /\ last_item = Len(tree[block].items) /\ last_item \in Nat /\ NextItem \in Nat
  BY HereIs DEF Rebuilt
<1>1. /\ last_item # 0 /\ item.type = "value"
      /\ tree[block].items[last_item] = Item("value", item.key, got)
      /\ ItemHere(NextItem - 1) = item
  BY DEF AtValue, ItemHere
<1>2. last_item \in DOMAIN tree[block].items
  <2>1. DOMAIN tree[block].items = 1 .. Len(tree[block].items)
    BY <1>0, BlockTypes
  <2>2. last_item = Len(tree[block].items) /\ last_item \in Nat /\ last_item # 0
    BY <1>0, <1>1
  <2> QED
    BY <2>1, <2>2
<1>3. m \in DOMAIN source[block].items /\ AgainItems(block, source)[last_item] = AgainItem(item)
  <2>1. m = last_item + Dropped(source, block)
    <3>1. Dropped(source, block) \in {0, 1}
      BY <1>0, AgainItemsAre
    <3> QED
      BY <1>0, <3>1 DEF NextItem
  <2> QED
    BY <1>0, <1>2, <2>1, ItemsMatch
<1> HIDE DEF m
<1>4. /\ item.value \in Seq(Strings) /\ Readable(item.value)
      /\ AgainItem(item) = Item("value", item.key, NotEmpty(item.value))
  <2>1. source[block].items[m].type = "value"
    BY <1>1
  <2> QED
    BY <1>0, <1>3, <2>1, WritableItem, AgainItemIs
<1> HIDE DEF item
<1> QED
  BY <1>0, <1>1, <1>2, <1>3, <1>4

-----------------------------------------------------------------------------
(* What is next in the head of a block and in a list of values: a mark, or *)
(* a string of the list.                                                   *)
NextIn(f, list, got, isset) ==
    /\ f # <<>>
    /\ \/ Head(f).type = "punct"
       \/ \E s \in Strings, more \in Text :
            /\ ~isset /\ Legal(s)
            /\ Head(f) = Word(Written(s))
            /\ ListLeft(list, Append(got, s), TRUE, more)

NextInList(list, got) == NextIn(file, list, got, set)

LEMMA ListIsNext ==
    ASSUME NEW left \in Text, NEW tail \in Text, NEW x \in Tokens, NEW r \in Seq(Tokens),
           Scan(tail) = <<x>> \o r, x.type = "punct",
           NEW list \in Seq(Strings), Readable(list), NEW got \in Seq(Strings),
           NEW isset \in BOOLEAN, ListLeft(list, got, isset, left),
           tail # <<>>, tail[1] \in Ends.unquoted
    PROVE  NextIn(Scan(left \o tail), list, got, isset)
<1>1. ListGoesOn(list, got, isset, left)
  BY ListNext
<1>2. CASE left = <<>>
  <2>1. left \o tail = tail
    BY <1>2, TextIs
  <2>2. <<x>> \o r # <<>> /\ Head(<<x>> \o r) = x
    BY InFront
  <2>3. Scan(left \o tail) # <<>> /\ Head(Scan(left \o tail)) = x
    BY <2>1, <2>2
  <2> QED
    BY <2>3, Zenon DEF NextIn
<1>3. ASSUME NEW more \in Text, left = Between \o more
      PROVE  Scan(left \o tail) # <<>> /\ Head(Scan(left \o tail)) = Mark(",")
  <2>1. more \o tail \in Text /\ left \o tail = Between \o (more \o tail)
    BY <1>3, BetweenJoins
  <2>2. Scan(left \o tail) = <<Mark(",")>> \o Scan(more \o tail)
    BY <2>1, ScanMarks
  <2>3. Scan(more \o tail) \in Seq(Tokens) /\ Mark(",") \in Tokens
    BY <2>1, ScanTyped, TokensAre
  <2> DEFINE q == Mark(",")
             u == Scan(more \o tail)
  <2>a. q \in Tokens /\ u \in Seq(Tokens)
    BY <2>3
  <2>b. Scan(left \o tail) = <<q>> \o u
    BY <2>2
  <2> HIDE DEF q, u
  <2>4. <<q>> \o u # <<>> /\ Head(<<q>> \o u) = q
    BY <2>a, InFront
  <2> QED
    BY <2>b, <2>4, Zenon DEF q
<1>4. ASSUME NEW s \in Strings, NEW more \in Text, Legal(s), left = Written(s) \o more, CommaNext(more)
      PROVE  Scan(left \o tail) # <<>> /\ Head(Scan(left \o tail)) = Word(Written(s))
  <2>1. /\ more \o tail \in Text
        /\ Scan((Written(s) \o more) \o tail) = <<Word(Written(s))>> \o Scan(more \o tail)
        /\ Word(Written(s)) \in Tokens
    BY <1>4, StringInList
  <2>2. Scan(left \o tail) = <<Word(Written(s))>> \o Scan(more \o tail)
    BY <1>4, <2>1
  <2>3. Scan(more \o tail) \in Seq(Tokens)
    BY <2>1, ScanTyped
  <2> QED
    BY <2>1, <2>2, <2>3, InFront
<1>5. Mark(",").type = "punct"
  BY DEF Mark
<1>6. ASSUME NEW more \in Text, left = Between \o more PROVE NextIn(Scan(left \o tail), list, got, isset)
  BY <1>3, <1>5, <1>6, Zenon DEF NextIn
<1>7. ASSUME NEW s \in Strings, NEW more \in Text, ~isset, Legal(s), left = Written(s) \o more,
             CommaNext(more), ListLeft(list, Append(got, s), TRUE, more)
      PROVE  NextIn(Scan(left \o tail), list, got, isset)
  BY <1>4, <1>7, Zenon DEF NextIn
<1> QED
  BY <1>1, <1>2, <1>6, <1>7, Zenon DEF ListGoesOn

LEMMA NextAtHead ==
    ASSUME NEW S, Rebuilt(S), NEW left \in Text, AtHead(left)
    PROVE  NextInList(source[ItemHere(NextItem).value].name, name)
<1> DEFINE c == ItemHere(NextItem).value
           names == source[c].name
           rest == Rest(source, c, 1)
           tail == HeadEnd \o rest
<1>1. /\ Writable(source) /\ block \in DOMAIN source /\ NextItem \in DOMAIN source[block].items
      /\ source[block].items[NextItem].type = "block" /\ source[block].items[NextItem].value = c
  BY HereIs DEF AtHead, ItemHere, Rebuilt
<1>2. c \in DOMAIN source
  <2> HIDE DEF c
  <2> QED
    BY <1>1, WritableItem
<1>3. names \in Seq(Strings) /\ Readable(names) /\ rest \in Text
  <2> HIDE DEF c
  <2>1. 1 \in 1 .. Len(source[c].items) + 1
    <3>1. Len(source[c].items) \in Nat
      BY <1>1, <1>2, WritableBlock
    <3> QED
      BY <3>1
  <2> QED
    BY <1>1, <1>2, <2>1, WritableBlock, RestTyped
<1>4. name \in Seq(Strings) /\ set \in BOOLEAN
  BY DEF Rebuilt, ParserInv, TypeOK
<1>5. ListLeft(names, name, set, left) /\ file = Scan(left \o tail)
  BY DEF AtHead
<1>6. tail \in Text /\ tail # <<>> /\ tail[1] \in Ends.unquoted
      /\ Scan(tail) = <<Mark("{")>> \o (<<LineEnd>> \o Scan(rest))
  <2> HIDE DEF rest
  <2> QED
    BY <1>3, MarksEnd, ScanMarks
<1>7. Mark("{") \in Tokens /\ <<LineEnd>> \o Scan(rest) \in Seq(Tokens)
  BY <1>3, TokensAre, ScanTyped, InFront
<1>8. Mark("{").type = "punct" /\ Mark(",").type = "punct"
  BY DEF Mark
<1> DEFINE r == <<LineEnd>> \o Scan(rest)
           x == Mark("{")
<1>a. x \in Tokens /\ r \in Seq(Tokens) /\ Scan(tail) = <<x>> \o r
  BY <1>6, <1>7
<1> HIDE DEF names, tail, rest, r
<1>9. NextInList(names, name)
  <2>1. x.type = "punct"
    BY <1>8 DEF x
  <2>2. tail \in Text /\ tail # <<>> /\ tail[1] \in Ends.unquoted
    BY <1>6
  <2> HIDE DEF x
  <2>3. NextIn(Scan(left \o tail), names, name, set)
    BY <1>3, <1>4, <1>5, <1>a, <2>1, <2>2, ListIsNext
  <2> QED
    BY <1>5, <2>3 DEF NextInList
<1> QED
  BY <1>9 DEF names

LEMMA NextAtValue ==
    ASSUME NEW S, Rebuilt(S), NEW got \in Seq(Strings), NEW left \in Text, AtValue(got, left)
    PROVE  NextInList(ItemHere(NextItem - 1).value, got)
<1> DEFINE list == ItemHere(NextItem - 1).value
           rest == Rest(source, block, NextItem)
           tail == ListEnd \o rest
<1>1. Writable(source) /\ block \in DOMAIN source /\ NextItem \in 1 .. Len(source[block].items) + 1
  BY HereIs DEF Rebuilt
<1>2. list \in Seq(Strings) /\ Readable(list)
  BY AtValueIs
<1>3. rest \in Text
  BY <1>1, RestTyped
<1>4. set \in BOOLEAN
  BY DEF Rebuilt, ParserInv, TypeOK
<1>5. ListLeft(list, got, set, left) /\ file = Scan(left \o tail)
  BY DEF AtValue
<1>6. tail \in Text /\ tail # <<>> /\ tail[1] \in Ends.unquoted
      /\ Scan(tail) = <<Mark(";")>> \o (<<LineEnd>> \o Scan(rest))
  <2> HIDE DEF rest
  <2> QED
    BY <1>3, MarksEnd, ScanMarks
<1>7. Mark(";") \in Tokens /\ <<LineEnd>> \o Scan(rest) \in Seq(Tokens)
  BY <1>3, TokensAre, ScanTyped, InFront
<1>8. Mark(";").type = "punct" /\ Mark(",").type = "punct"
  BY DEF Mark
<1> DEFINE r == <<LineEnd>> \o Scan(rest)
           x == Mark(";")
<1>a. x \in Tokens /\ r \in Seq(Tokens) /\ Scan(tail) = <<x>> \o r
  BY <1>6, <1>7
<1> HIDE DEF list, tail, rest, r
<1>9. NextInList(list, got)
  <2>1. x.type = "punct"
    BY <1>8 DEF x
  <2>2. tail \in Text /\ tail # <<>> /\ tail[1] \in Ends.unquoted
    BY <1>6
  <2> HIDE DEF x
  <2>3. NextIn(Scan(left \o tail), list, got, set)
    BY <1>2, <1>4, <1>5, <1>a, <2>1, <2>2, ListIsNext
  <2> QED
    BY <1>5, <2>3 DEF NextInList
<1> QED
  BY <1>9 DEF list

-----------------------------------------------------------------------------
(* When the whole file has been read: nothing is left of the file only at  *)
(* the end of the root,                                                    *)
LEMMA RestNotEmpty ==
    ASSUME NEW t, Writable(t), NEW b \in DOMAIN t, NEW n \in 1 .. Len(t[b].items) + 1,
           RestScan(t, b, n) = <<>>
    PROVE  b = 1 /\ n = Len(t[b].items) + 1
<1>a. /\ LineEnd \in Tokens /\ Remark(Hash) \in Tokens /\ Mark("}") \in Tokens
      /\ \A w \in Text \ {<<>>} : Word(w) \in Tokens
  BY TokensAre
<1>b. \A x \in Tokens, r \in Seq(Tokens) : <<x>> \o r \in Seq(Tokens) /\ <<x>> \o r # <<>>
  BY InFront
<1>1. n \notin DOMAIN t[b].items
  <2> SUFFICES ASSUME n \in DOMAIN t[b].items PROVE FALSE
    OBVIOUS
  <2> DEFINE item == t[b].items[n]
             rest == RestScan(t, b, n + 1)
  <2>1. rest \in Seq(Tokens)
    <3>1. n + 1 \in 1 .. Len(t[b].items) + 1
      BY WritableItem
    <3> QED
      BY <3>1, RestScanTyped
  <2>2. CASE item.type = "comment"
    <3>1. /\ item.value = NULL => RestScan(t, b, n) = <<LineEnd>> \o rest
          /\ item.value # NULL => RestScan(t, b, n) = <<Remark(Hash)>> \o (<<LineEnd>> \o rest)
      BY <2>2, CommentGoesOn
    <3> HIDE DEF rest, item
    <3>2. <<LineEnd>> \o rest \in Seq(Tokens) /\ <<LineEnd>> \o rest # <<>>
      BY <1>a, <1>b, <2>1
    <3>3. <<Remark(Hash)>> \o (<<LineEnd>> \o rest) # <<>>
      BY <1>a, <1>b, <3>2
    <3> QED
      BY <3>1, <3>2, <3>3, Zenon
  <2>3. CASE item.type # "comment"
    <3>1. item.key \in Text /\ item.key # <<>>
      <4>1. item.key \in Strings /\ Plain(item.key)
        BY <2>3, WritableItem
      <4> HIDE DEF item
      <4> QED
        BY <4>1, StringsAreText DEF Plain
    <3>2. PICK more \in Seq(Tokens) : KeyThen(t, b, n, more)
      BY <2>3, KeyGoesOn
    <3>3. RestScan(t, b, n) = <<Word(item.key)>> \o more
      BY <3>2 DEF KeyThen
    <3> HIDE DEF item
    <3>4. Word(item.key) \in Tokens
      BY <1>a, <3>1
    <3>5. <<Word(item.key)>> \o more # <<>>
      BY <1>b, <3>4
    <3> QED
      BY <3>3, <3>5, Zenon
  <2> QED
    BY <2>2, <2>3
<1>2. n = Len(t[b].items) + 1
  <2>1. DOMAIN t[b].items = 1 .. Len(t[b].items) /\ Len(t[b].items) \in Nat
    BY WritableBlock
  <2> QED
    BY <1>1, <2>1
<1>3. b = 1
  <2> SUFFICES ASSUME b # 1 PROVE FALSE
    OBVIOUS
  <2> DEFINE p == t[b].parent
             k == Place(t, b)
             rest == RestScan(t, p, k + 1)
  <2>1. RestScan(t, b, n) = <<Mark("}")>> \o (<<LineEnd>> \o rest)
    BY <1>2, FootGoesOn
  <2>2. rest \in Seq(Tokens)
    <3>1. Rest(t, p, k + 1) \in Text
      BY RestEnds
    <3> QED
      BY <3>1, ScanTyped DEF RestScan
  <2> HIDE DEF rest
  <2>3. <<LineEnd>> \o rest \in Seq(Tokens)
    BY <1>a, <1>b, <2>2
  <2>4. <<Mark("}")>> \o (<<LineEnd>> \o rest) # <<>>
    BY <1>a, <1>b, <2>3
  <2> QED
    BY <2>1, <2>4, Zenon
<1> QED
  BY <1>2, <1>3

(* so a parse that has read everything is there, between two items,        *)
LEMMA WholeWhenEmpty ==
    ASSUME NEW S, Rebuilt(S), Position, file = <<>>
    PROVE  state = "none" /\ block = 1 /\ NextItem = Len(source[1].items) + 1
<1>0. /\ Writable(source) /\ block \in DOMAIN source
      /\ NextItem \in 1 .. Len(source[block].items) + 1
  BY HereIs DEF Rebuilt
<1>a. /\ LineEnd \in Tokens /\ Mark("=") \in Tokens
      /\ \A x \in Tokens, r \in Seq(Tokens) : <<x>> \o r # <<>>
  BY TokensAre, InFront
<1>1. ~AtLineEnd
  <2>1. RestScan(source, block, NextItem) \in Seq(Tokens)
    BY <1>0, RestScanTyped
  <2> QED
    BY <1>a, <2>1, Zenon DEF AtLineEnd
<1>2. ~AtTop
  <2> SUFFICES ASSUME AtTop PROVE FALSE
    OBVIOUS
  <2>1. 1 \in 1 .. Len(source[1].items) + 1 /\ 1 \in DOMAIN source /\ Len(source[1].items) \in Nat
    BY <1>0, WritableBlock DEF AtTop
  <2>2. 1 = Len(source[1].items) + 1
    BY <1>0, <2>1, RestNotEmpty DEF AtTop
  <2>3. source[1].items = <<>>
    <3>1. source[1].items \in Seq(ItemRecords)
      BY <1>0, <2>1, WritableBlock
    <3> QED
      BY <2>1, <2>2, <3>1
  <2> QED
    BY <2>3 DEF AtTop, EmptyTop
<1>3. ASSUME NEW left \in Text, AtHead(left) PROVE FALSE
  BY <1>3, NextAtHead DEF NextInList, NextIn
<1>4. ASSUME NEW got \in Seq(Strings), NEW left \in Text, AtValue(got, left) PROVE FALSE
  BY <1>4, NextAtValue DEF NextInList, NextIn
<1>5. ~AtOption
  <2> SUFFICES ASSUME AtOption PROVE FALSE
    OBVIOUS
  <2> DEFINE rest == Rest(source, block, NextItem + 1)
             list == nfcconf_list_get_string(ItemHere(NextItem).value)
             tail == ListEnd \o rest
             r == Scan(list \o tail)
  <2>1. rest \in Text /\ ItemHere(NextItem).value \in Seq(Strings)
    BY <1>0, RestGoesOn, WritableItem DEF AtOption, ItemHere
  <2>2. file = <<Mark("=")>> \o r
    BY DEF AtOption
  <2>3. list \in Text
    BY <2>1, NotEmptyTyped
  <2>4. tail \in Text
    <3> HIDE DEF rest
    <3> QED
      BY <2>1, MarksEnd
  <2>5. r \in Seq(Tokens)
    <3> HIDE DEF list, tail
    <3>1. list \o tail \in Text
      BY <2>3, <2>4, TextIs
    <3> QED
      BY <3>1, ScanTyped
  <2> HIDE DEF r
  <2> QED
    BY <1>a, <2>2, <2>5, Zenon
<1>6. AtItem
  BY <1>1, <1>2, <1>3, <1>4, <1>5 DEF Position
<1> QED
  BY <1>0, <1>6, RestNotEmpty DEF AtItem

(* and then the tree has all blocks and all items of the source.           *)
LEMMA WholeIsAgain ==
    ASSUME NEW S, Rebuilt(S), state = "none", block = 1, NextItem = Len(source[1].items) + 1
    PROVE  tree = Again(source)
<1>0. /\ Writable(source) /\ ParserInv /\ Part(S) /\ Opens(S)
      /\ DOMAIN tree = 1 .. Len(tree) /\ Len(tree) \in Nat /\ tree \in Seq(Blocks)
      /\ DOMAIN source = 1 .. Len(source) /\ Len(source) \in Nat /\ Len(tree) <= Len(source)
      /\ last_item = Len(tree[1].items) /\ last_item \in Nat
      /\ last_item = Len(AgainItems(1, source))
      /\ 1 \in DOMAIN source
  BY HereIs DEF Rebuilt
<1>1. S \subseteq {1}
  <2>1. \A b \in S : b <= 1 /\ b \in DOMAIN tree
    BY <1>0 DEF Opens
  <2> QED
    BY <1>0, <2>1
<1>2. Len(tree) = Len(source)
  <2> SUFFICES ASSUME Len(tree) # Len(source) PROVE FALSE
    OBVIOUS
  <2>a. Len(tree) \in Nat /\ Len(source) \in Nat /\ Len(tree) <= Len(source)
    BY <1>0
  <2>b. Len(tree) < Len(source) /\ state # "value"
    BY <2>a
  <2>1. PICK x : x = Len(tree) + 1
    OBVIOUS
  <2>2. /\ x \in DOMAIN source /\ x # 1 /\ source[x].parent \in S
        /\ Place(source, x) > Len(tree[source[x].parent].items) + Dropped(source, source[x].parent)
    BY <2>1, <2>b, NextBlock
  <2>3. source[x].parent = 1
    BY <1>1, <2>2
  <2>4. Place(source, x) \in DOMAIN source[1].items
    BY <1>0, <2>2, <2>3, PlaceIs
  <2>5. Place(source, x) \in 1 .. Len(source[1].items) /\ Len(source[1].items) \in Nat
    BY <1>0, <2>4, WritableBlock
  <2>6. Dropped(source, 1) \in {0, 1} /\ Place(source, x) > last_item + Dropped(source, 1)
        /\ last_item + Dropped(source, 1) + 1 = Len(source[1].items) + 1
    BY <1>0, <2>2, <2>3, AgainItemsAre DEF NextItem
  <2>7. last_item \in Nat
    BY <1>0
  <2> QED
    BY <2>5, <2>6, <2>7
<1>3. ASSUME NEW b \in DOMAIN tree
      PROVE  /\ b \in DOMAIN source
             /\ tree[b] = [parent |-> source[b].parent, name |-> AgainName(source[b].name),
                           items |-> AgainItems(b, source)]
  <2>1. b \in DOMAIN source /\ tree[b] \in Blocks
    BY <1>0, <1>2
  <2>2. Len(tree[b].items) = Len(AgainItems(b, source))
    <3>1. CASE b = 1
      BY <1>0, <3>1
    <3>2. CASE b # 1
      BY <1>0, <1>1, <3>2 DEF Part
    <3> QED
      BY <3>1, <3>2
  <2>3. \A n \in DOMAIN tree[b].items : tree[b].items[n] = AgainItems(b, source)[n]
    BY <1>0 DEF Part
  <2>4. tree[b].items = AgainItems(b, source)
    <3> DEFINE R == {AgainItem(source[b].items[n]) : n \in DOMAIN source[b].items}
    <3>1. AgainItems(b, source) \in Seq(R)
      BY <1>0, <2>1, AgainItemsAre
    <3>2. tree[b].items \in Seq(ItemRecords)
      BY <2>1 DEF Blocks
    <3> HIDE DEF R
    <3>3. AgainItems(b, source) \in Seq(R \cup ItemRecords) /\ tree[b].items \in Seq(R \cup ItemRecords)
      BY <3>1, <3>2, SeqMonotonic
    <3>4. \A n \in 1 .. Len(tree[b].items) : tree[b].items[n] = AgainItems(b, source)[n]
      BY <2>3, <3>2
    <3> QED
      BY <2>2, <3>3, <3>4, SeqEqual
  <2>5. tree[b].parent = source[b].parent /\ tree[b].name = AgainName(source[b].name)
    BY <1>0 DEF Part
  <2> DEFINE items == AgainItems(b, source)
             names == AgainName(source[b].name)
             parent == source[b].parent
  <2>6. tree[b].parent = parent /\ tree[b].name = names /\ tree[b].items = items
    BY <2>4, <2>5
  <2> HIDE DEF items, names, parent
  <2>7. tree[b] = [parent |-> parent, name |-> names, items |-> items]
    BY <2>1, <2>6 DEF Blocks
  <2> QED
    BY <2>1, <2>7 DEF items, names, parent
<1> DEFINE e(b) == [parent |-> source[b].parent, name |-> AgainName(source[b].name),
                    items |-> AgainItems(b, source)]
<1>4. DOMAIN tree = DOMAIN source
  BY <1>0, <1>2
<1>5. Again(source) = [b \in DOMAIN source |-> e(b)]
  BY DEF Again
<1>6. \A b \in DOMAIN tree : tree[b] = e(b)
  BY <1>3
<1> HIDE DEF e
<1>7. tree = [b \in DOMAIN tree |-> tree[b]]
  BY <1>0
<1> QED
  BY <1>4, <1>5, <1>6, <1>7

-----------------------------------------------------------------------------
(* The tree is a part of the source, as CutIsPart has it.                  *)
BlockIsPart(b) ==
    /\ tree[b].parent = source[b].parent
    /\ b > 1 => tree[b].name = Again(source)[b].name

ItemIsPart(b, n) ==
    LET whole == Again(source)[b].items
        got == tree[b].items[n].value
        given == whole[n].value
    IN  /\ tree[b].items[n].type = whole[n].type
        /\ tree[b].items[n].key = whole[n].key
        /\ \/ got = given
           \/ /\ whole[n].type = "value"
              /\ <<b, n>> = current_item
              /\ n = Len(tree[b].items)
              /\ \/ IsPrefix(got, given)
                 \/ /\ phase = "cut"
                    /\ Len(got) \in 1 .. Len(given)
                    /\ IsPrefix(Front(got), given)
                    /\ Last(got) \in CutOff(given[Len(got)])

TreeIsPart ==
    \A b \in DOMAIN tree : BlockIsPart(b) /\ \A n \in DOMAIN tree[b].items : ItemIsPart(b, n)

LEMMA CutIsPartIs ==
    CutIsPart <=> (phase \in {"written", "cut"} /\ Legible(source) => TreeIsPart)
BY Zenon DEF CutIsPart, TreeIsPart, BlockIsPart, ItemIsPart

LEMMA PartStays ==
    ASSUME UNCHANGED <<tree, source, phase, current_item>>, TreeIsPart
    PROVE  TreeIsPart'
<1>1. ASSUME NEW b PROVE BlockIsPart(b) => BlockIsPart(b)'
  BY SMT DEF BlockIsPart
<1>2. ASSUME NEW b, NEW n PROVE ItemIsPart(b, n) => ItemIsPart(b, n)'
  BY SMT DEF ItemIsPart
<1> QED
  BY <1>1, <1>2, SMT DEF TreeIsPart

(* An item that is there is as it was, if it is not the one at hand.       *)
LEMMA SameIsPart ==
    ASSUME NEW S, Rebuilt(S), NEW b \in DOMAIN tree, NEW n \in DOMAIN tree[b].items
    PROVE  /\ BlockIsPart(b) /\ Again(source)[b].items = AgainItems(b, source)
           /\ Again(source)[b].name = AgainName(source[b].name)
           /\ tree[b].items[n] = AgainItems(b, source)[n] => ItemIsPart(b, n)
           /\ tree[b].items[n] # AgainItems(b, source)[n] =>
                  b = block /\ n = last_item /\ state = "value"
<1>1. Part(S) /\ b \in DOMAIN source
  BY HereIs DEF Rebuilt
<1>2. Again(source)[b].items = AgainItems(b, source) /\ Again(source)[b].name = AgainName(source[b].name)
  BY <1>1 DEF Again
<1>3. BlockIsPart(b)
  BY <1>1, <1>2 DEF Part, BlockIsPart
<1>4. tree[b].items[n] = AgainItems(b, source)[n] => ItemIsPart(b, n)
  BY <1>2, Zenon DEF ItemIsPart
<1> QED
  BY <1>1, <1>2, <1>3, <1>4 DEF Part

LEMMA ItemFields ==
    ASSUME NEW k, NEW v
    PROVE  /\ Item("value", k, v).type = "value" /\ Item("value", k, v).key = k
           /\ Item("value", k, v).value = v
BY DEF Item

(* While the file is read, the list of values at hand is a beginning.      *)
LEMMA PositionIsPart ==
    ASSUME NEW S, Rebuilt(S), Position
    PROVE  TreeIsPart
<1> SUFFICES ASSUME NEW b \in DOMAIN tree
             PROVE  BlockIsPart(b) /\ \A n \in DOMAIN tree[b].items : ItemIsPart(b, n)
  BY DEF TreeIsPart
<1>1. BlockIsPart(b)
  <2>1. Part(S) /\ b \in DOMAIN source
    BY HereIs DEF Rebuilt
  <2>2. Again(source)[b].name = AgainName(source[b].name)
    BY <2>1 DEF Again
  <2> QED
    BY <2>1, <2>2 DEF Part, BlockIsPart
<1>2. ASSUME NEW n \in DOMAIN tree[b].items, tree[b].items[n] # AgainItems(b, source)[n]
      PROVE  ItemIsPart(b, n)
  <2>1. /\ b = block /\ n = last_item /\ state = "value"
        /\ Again(source)[b].items = AgainItems(b, source)
    BY <1>2, SameIsPart
  <2>2. PICK got \in Seq(Strings), left \in Text : AtValue(got, left)
    BY <2>1 DEF Position, AtTop, AtItem, AtLineEnd, AtOption, AtHead
  <2> DEFINE item == ItemHere(NextItem - 1)
             list == item.value
  <2>3. /\ list \in Seq(Strings) /\ last_item = Len(tree[block].items)
        /\ tree[block].items[last_item] = Item("value", item.key, got)
        /\ AgainItems(block, source)[last_item] = Item("value", item.key, NotEmpty(list))
    BY <2>2, AtValueIs
  <2>4. current_item = <<block, last_item>> /\ ListLeft(list, got, set, left)
    BY <2>2 DEF AtValue
  <2> HIDE DEF item, list
  <2>5. IsPrefix(got, NotEmpty(list))
    BY <2>3, <2>4, ListPrefix
  <2>6. /\ tree[b].items[n] = Item("value", item.key, got) /\ n = Len(tree[b].items)
        /\ Again(source)[b].items[n] = Item("value", item.key, NotEmpty(list))
        /\ <<b, n>> = current_item
    BY <2>1, <2>3, <2>4
  <2>7. /\ tree[b].items[n].type = "value" /\ tree[b].items[n].key = item.key
        /\ tree[b].items[n].value = got
        /\ Again(source)[b].items[n].type = "value" /\ Again(source)[b].items[n].key = item.key
        /\ Again(source)[b].items[n].value = NotEmpty(list)
    BY <2>6, ItemFields
  <2> QED
    BY <2>5, <2>6, <2>7, Zenon DEF ItemIsPart
<1> QED
  BY <1>1, <1>2, SameIsPart

LEMMA PrefixIs ==
    ASSUME NEW T, NEW s \in Seq(T), NEW t \in Seq(T)
    PROVE  IsPrefix(s, t) <=> Len(s) <= Len(t) /\ \A i \in 1 .. Len(s) : s[i] = t[i]
<1>1. SubSeq(s, 1, Len(s)) = s /\ Len(s) \in Nat /\ Len(t) \in Nat
  BY SubSeqFull
<1> SUFFICES ASSUME Len(s) <= Len(t)
             PROVE  SubSeq(t, 1, Len(s)) = s <=> \A i \in 1 .. Len(s) : s[i] = t[i]
  BY <1>1 DEF IsPrefix
<1>2. CASE Len(s) = 0
  <2>1. SubSeq(t, 1, Len(s)) = <<>> /\ s = <<>> /\ 1 .. Len(s) = {}
    BY <1>1, <1>2, SubSeqEmpty
  <2> QED
    BY <2>1
<1>3. CASE Len(s) # 0
  <2> DEFINE k == Len(s)
             part == SubSeq(t, 1, k)
  <2>1. k \in 1 .. Len(t) /\ 1 \in 1 .. Len(t) /\ k - 1 + 1 = k
    BY <1>1, <1>3
  <2>2. /\ part \in Seq(T) /\ Len(part) = k
        /\ \A i \in 1 .. k : part[i] = t[1 + i - 1]
    <3> HIDE DEF k
    <3> QED
      BY <2>1, SubSeqProperties
  <2>3. \A i \in 1 .. k : 1 + i - 1 = i
    BY <2>1
  <2>4. \A i \in 1 .. k : part[i] = t[i]
    BY <2>2, <2>3
  <2> HIDE DEF part
  <2>5. (\A i \in 1 .. k : s[i] = t[i]) => part = s
    BY <2>2, <2>4, SeqEqual
  <2> QED
    BY <2>4, <2>5 DEF part
<1> QED
  BY <1>2, <1>3

LEMMA FrontOfAppend ==
    ASSUME NEW T, NEW s \in Seq(T), NEW x \in T
    PROVE  Front(Append(s, x)) = s
<1> DEFINE t == Append(s, x)
<1>1. /\ t \in Seq(T) /\ Len(s) \in Nat /\ Len(t) = Len(s) + 1 /\ Len(t) - 1 = Len(s)
      /\ \A i \in 1 .. Len(s) : t[i] = s[i]
  OBVIOUS
<1> HIDE DEF t
<1>2. IsPrefix(s, t)
  <2>1. Len(s) <= Len(t)
    BY <1>1
  <2> QED
    BY <1>1, <2>1, PrefixIs
<1>3. SubSeq(s, 1, Len(s)) = SubSeq(t, 1, Len(s)) /\ SubSeq(s, 1, Len(s)) = s
  BY <1>2, SubSeqFull DEF IsPrefix
<1> QED
  BY <1>1, <1>3 DEF Front, t

(* A list of values to which one was added that is left of the next one.   *)
LEMMA CutList ==
    ASSUME NEW given \in Seq(Strings), NEW got \in Seq(Strings), NEW s \in Strings,
           NEW v \in Strings, v \in CutOff(s), IsPrefix(Append(got, s), given)
    PROVE  LET new == Append(got, v)
           IN  /\ Len(new) \in 1 .. Len(given)
               /\ IsPrefix(Front(new), given)
               /\ Last(new) \in CutOff(given[Len(new)])
<1> DEFINE old == Append(got, s)
           new == Append(got, v)
           k == Len(got) + 1
<1>1. /\ Len(got) \in Nat /\ Len(given) \in Nat
      /\ old \in Seq(Strings) /\ Len(old) = k /\ old[k] = s
      /\ \A i \in 1 .. Len(got) : old[i] = got[i]
      /\ new \in Seq(Strings) /\ Len(new) = k /\ new[k] = v
      /\ \A i \in 1 .. Len(got) : new[i] = got[i]
  OBVIOUS
<1>2. k \in Nat /\ k - 1 = Len(got) /\ k >= 1 /\ k \in 1 .. k /\ \A i \in 1 .. Len(got) : i \in 1 .. k
  BY <1>1
<1> HIDE DEF old, new
<1>3. Len(old) <= Len(given) /\ \A i \in 1 .. Len(old) : old[i] = given[i]
  <2>1. IsPrefix(old, given)
    BY DEF old
  <2> QED
    BY <1>1, <2>1, PrefixIs
<1>4. Len(new) \in 1 .. Len(given)
  BY <1>1, <1>2, <1>3
<1>5. given[k] = s /\ Last(new) = v
  <2>1. Last(new) = v
    BY <1>1 DEF Last
  <2> QED
    BY <1>1, <1>2, <1>3, <2>1
<1>6. Front(new) = got
  BY <1>1, FrontOfAppend DEF new
<1>7. IsPrefix(got, given)
  <2>1. Len(got) <= Len(given) /\ \A i \in 1 .. Len(got) : got[i] = given[i]
    BY <1>1, <1>2, <1>3
  <2> QED
    BY <2>1, PrefixIs
<1> QED
  BY <1>1, <1>4, <1>5, <1>6, <1>7 DEF new

(* A new value changes only the option it belongs to.                      *)
LEMMA ValuedElsewhere ==
    ASSUME ParserInv, NEW c, NEW k, NEW s, Valued(c, k, s)
    PROVE  /\ DOMAIN tree' = DOMAIN tree
           /\ \A b \in DOMAIN tree :
                  /\ tree'[b].parent = tree[b].parent /\ tree'[b].name = tree[b].name
                  /\ DOMAIN tree'[b].items = DOMAIN tree[b].items
                  /\ Len(tree'[b].items) = Len(tree[b].items)
                  /\ \A m \in DOMAIN tree[b].items :
                       b # c \/ m # k => tree'[b].items[m] = tree[b].items[m]
<1>1. /\ tree' \in Seq(Blocks) /\ Len(tree') = Len(tree)
      /\ \A b \in DOMAIN tree :
             /\ tree'[b].parent = tree[b].parent /\ tree'[b].name = tree[b].name
             /\ b # c => tree'[b] = tree[b]
      /\ Len(tree'[c].items) = Len(tree[c].items)
      /\ \A m \in DOMAIN tree[c].items : m # k => tree'[c].items[m] = tree[c].items[m]
  BY AfterValued
<1>2. tree \in Seq(Blocks) /\ DOMAIN tree' = DOMAIN tree
  BY <1>1 DEF ParserInv, TypeOK
<1>3. ASSUME NEW b \in DOMAIN tree
      PROVE  /\ Len(tree'[b].items) = Len(tree[b].items)
             /\ DOMAIN tree'[b].items = DOMAIN tree[b].items
  <2>1. Len(tree'[b].items) = Len(tree[b].items)
    BY <1>1
  <2>2. tree[b] \in Blocks /\ tree'[b] \in Blocks
    BY <1>1, <1>2
  <2>3. tree[b].items \in Seq(ItemRecords) /\ tree'[b].items \in Seq(ItemRecords)
    BY <2>2 DEF Blocks
  <2> QED
    BY <2>1, <2>3
<1> QED
  BY <1>1, <1>2, <1>3

(* So is the tree when the file was cut off inside a string.               *)
LEMMA StepOfReadCut ==
    ASSUME NEW S, Rebuilt(S), Position, ReadCut
    PROVE  ~error' /\ ~wild' /\ TreeIsPart'
<1>0. ~error /\ ~wild /\ ParserInv /\ Writable(source)
  BY DEF Rebuilt
<1>1. PICK n \in 1 .. Len(Head(file).string) - 1 :
          TakeString(Unquoted(LongToken(SubSeq(Head(file).string, 1, n), 1).string))
  BY DEF ReadCut
<1>2. PICK v : v = Unquoted(LongToken(SubSeq(Head(file).string, 1, n), 1).string)
  OBVIOUS
<1>3. TakeString(v) /\ Head(file).type = "string" /\ source' = source /\ phase' = "cut"
  BY <1>1, <1>2 DEF ReadCut
<1>4. ASSUME UNCHANGED <<tree, error, wild>>, state # "value"
      PROVE  ~error' /\ ~wild' /\ TreeIsPart'
  <2> SUFFICES ASSUME NEW b \in DOMAIN tree
               PROVE  BlockIsPart(b)' /\ \A m \in DOMAIN tree[b].items : ItemIsPart(b, m)'
    BY <1>0, <1>4 DEF TreeIsPart
  <2>1. b \in DOMAIN source /\ Part(S)
    BY HereIs DEF Rebuilt
  <2>2. BlockIsPart(b)'
    <3>1. Again(source)[b].name = AgainName(source[b].name)
      BY <2>1 DEF Again
    <3>2. BlockIsPart(b)
      BY <2>1, <3>1 DEF Part, BlockIsPart
    <3> QED
      BY <1>3, <1>4, <3>2 DEF BlockIsPart
  <2>3. ASSUME NEW m \in DOMAIN tree[b].items PROVE ItemIsPart(b, m)'
    <3>1. tree[b].items[m] = Again(source)[b].items[m]
      BY <1>4, SameIsPart
    <3>2. tree'[b].items[m] = Again(source')[b].items[m]
      BY <1>3, <1>4, <3>1
    <3> QED
      BY <3>2, Zenon DEF ItemIsPart
  <2> QED
    BY <2>2, <2>3
<1>5. CASE state = "none"
  <2>1. ReadKey(v)
    BY <1>3, <1>5 DEF TakeString, ReadName, ReadValue, ReadValueIntoComment, SecondName
  <2> QED
    BY <1>4, <1>5, <2>1 DEF ReadKey
<1>6. CASE state = "name" /\ ~set
  <2>1. ReadName(v)
    BY <1>3, <1>6 DEF TakeString, ReadKey, StartsStatement, ReadValue, ReadValueIntoComment, SecondName
  <2> QED
    BY <1>4, <1>6, <2>1 DEF ReadName
<1>7. ASSUME NEW left \in Text, AtHead(left) PROVE state = "name" /\ ~set
  <2>1. NextInList(source[ItemHere(NextItem).value].name, name)
    BY <1>7, NextAtHead
  <2>2. state = "name"
    BY <1>7 DEF AtHead
  <2> QED
    BY <1>3, <2>1, <2>2 DEF NextInList, NextIn
<1>8. ASSUME NEW got \in Seq(Strings), NEW left \in Text, AtValue(got, left)
      PROVE  ~error' /\ ~wild' /\ TreeIsPart'
  <2> DEFINE item == ItemHere(NextItem - 1)
             list == item.value
             given == NotEmpty(list)
             new == Append(got, v)
  <2>1. /\ list \in Seq(Strings) /\ Readable(list)
        /\ last_item \in DOMAIN tree[block].items /\ last_item = Len(tree[block].items)
        /\ tree[block].items[last_item] = Item("value", item.key, got)
        /\ AgainItems(block, source)[last_item] = Item("value", item.key, given)
    BY <1>8, AtValueIs
  <2>2. state = "value" /\ current_item = <<block, last_item>>
    BY <1>8 DEF AtValue
  <2>3. PICK s \in Strings, more \in Text :
            /\ ~set /\ Legal(s) /\ Head(file) = Word(Written(s))
            /\ ListLeft(list, Append(got, s), TRUE, more)
    <3>1. NextInList(list, got)
      BY <1>8, NextAtValue
    <3> HIDE DEF list
    <3> QED
      BY <1>3, <3>1 DEF NextInList, NextIn
  <2>4. v \in CutOff(s) /\ v \in Strings
    <3>1. Head(file).string = Written(s)
      BY <2>3 DEF Word
    <3>2. Written(s) \in Text \ {<<>>} /\ ~Blank(s)
      BY <2>3, WrittenIs DEF Legal
    <3>3. n \in 1 .. Len(Written(s)) - 1 /\ v = Unquoted(LongToken(SubSeq(Written(s), 1, n), 1).string)
      BY <1>2, <3>1
    <3> QED
      BY <2>3, <3>2, <3>3, CutIs, CutTyped DEF Legal
  <2> HIDE DEF item, list
  <2>5. /\ given \in Seq(Strings)
        /\ Len(new) \in 1 .. Len(given)
        /\ IsPrefix(Front(new), given)
        /\ Last(new) \in CutOff(given[Len(new)])
    <3>1. given \in Seq(Strings) /\ Append(got, s) \in Seq(Strings)
      BY <2>1, NotEmptyTyped
    <3>2. IsPrefix(Append(got, s), given)
      BY <2>1, <2>3, <3>1, ListPrefix
    <3> HIDE DEF given
    <3> QED
      BY <2>4, <3>1, <3>2, CutList
  <2>6. Current = tree[block].items[last_item] /\ Current.type = "value"
    <3>1. Current = tree[block].items[last_item]
      BY <2>2 DEF Current
    <3> QED
      BY <2>1, <3>1, ItemFields
  <2>7. ReadValue(v)
    BY <1>3, <2>2, <2>3, <2>6
       DEF TakeString, ReadKey, StartsStatement, ReadName, ReadValueIntoComment, SecondName
  <2>8. UNCHANGED <<block, last_item, current_item, error, wild>>
    BY <2>7 DEF ReadValue
  <2>9. Valued(block, last_item, v) /\ block \in DOMAIN tree
    <3>1. tree' = [tree EXCEPT ![block].items[last_item].value = Append(@, v)]
      BY <2>2, <2>7 DEF ReadValue
    <3>2. block \in DOMAIN tree
      BY HereIs
    <3> QED
      BY <2>1, <2>4, <2>6, <3>1, <3>2 DEF Valued
  <2>10. tree'[block].items[last_item] = Item("value", item.key, new)
    BY <1>0, <2>1, <2>9, ValuedItem
  <2>11. /\ DOMAIN tree' = DOMAIN tree
         /\ \A b \in DOMAIN tree :
                /\ tree'[b].parent = tree[b].parent /\ tree'[b].name = tree[b].name
                /\ DOMAIN tree'[b].items = DOMAIN tree[b].items
                /\ Len(tree'[b].items) = Len(tree[b].items)
                /\ \A m \in DOMAIN tree[b].items :
                     b # block \/ m # last_item => tree'[b].items[m] = tree[b].items[m]
    BY <1>0, <2>9, ValuedElsewhere
  <2> SUFFICES ASSUME NEW b \in DOMAIN tree, NEW m \in DOMAIN tree[b].items
               PROVE  BlockIsPart(b)' /\ ItemIsPart(b, m)'
    <3>1. \A b \in DOMAIN tree : BlockIsPart(b)'
      <4> SUFFICES ASSUME NEW b \in DOMAIN tree PROVE BlockIsPart(b)'
        OBVIOUS
      <4>1. BlockIsPart(b)
        BY PositionIsPart DEF TreeIsPart
      <4> QED
        BY <1>3, <2>11, <4>1 DEF BlockIsPart
    <3> QED
      BY <1>0, <2>8, <2>11, <3>1 DEF TreeIsPart
  <2>12. BlockIsPart(b)'
    <3>1. BlockIsPart(b)
      BY PositionIsPart DEF TreeIsPart
    <3> QED
      BY <1>3, <2>11, <3>1 DEF BlockIsPart
  <2>13. CASE b # block \/ m # last_item
    <3>1. tree[b].items[m] = Again(source)[b].items[m]
      BY <2>13, SameIsPart
    <3>2. tree'[b].items[m] = Again(source')[b].items[m]
      BY <1>3, <2>11, <2>13, <3>1
    <3> QED
      BY <2>12, <3>2, Zenon DEF ItemIsPart
  <2>14. CASE b = block /\ m = last_item
    <3>1. Again(source)[b].items = AgainItems(b, source)
      BY SameIsPart
    <3>2. Again(source')[b].items[m] = Item("value", item.key, given)
      BY <1>3, <2>1, <2>14, <3>1
    <3>3. tree'[b].items[m] = Item("value", item.key, new)
      BY <2>10, <2>14
    <3>4. <<b, m>> = current_item' /\ m = Len(tree'[b].items)
      BY <2>1, <2>2, <2>8, <2>11, <2>14
    <3> HIDE DEF given, new
    <3>5. /\ tree'[b].items[m].type = "value" /\ tree'[b].items[m].key = item.key
          /\ tree'[b].items[m].value = new
          /\ Again(source')[b].items[m].type = "value" /\ Again(source')[b].items[m].key = item.key
          /\ Again(source')[b].items[m].value = given
      BY <3>2, <3>3, ItemFields
    <3>6. ItemIsPart(b, m)'
      BY <1>3, <2>5, <3>4, <3>5, Zenon DEF ItemIsPart
    <3> QED
      BY <2>12, <3>6
  <2> QED
    BY <2>13, <2>14
<1> QED
  BY <1>5, <1>6, <1>7, <1>8 DEF Position, AtTop, AtItem, AtLineEnd, AtOption


-----------------------------------------------------------------------------
(* The invariant of reading, writing and reading again.                    *)
WriterInv ==
    /\ phase \in {"read", "written", "cut", "failed"}
    /\ phase = "read" => ParserInv /\ TreeShape /\ OneItemPerKey /\ Numbered
    /\ phase = "written" /\ Legible(source) => Position /\ \E S : Rebuilt(S)
    /\ phase = "cut" /\ Legible(source) => ~error /\ ~wild /\ TreeIsPart

(* Each action keeps it: the first parse by the lemmas about ConfParser,   *)
(* the second by StepOfReadAgain.                                          *)
LEMMA StepKeepsWriterInv ==
    ASSUME WriterInv, [WriteNext]_writevars
    PROVE  WriterInv'
<1>1. CASE Read
  <2>1. phase = "read" /\ phase' = "read" /\ [Next]_vars
    BY <1>1, ReadIsNext DEF Read, wvars
  <2>2. ParserInv /\ TreeShape /\ OneItemPerKey /\ Numbered
    BY <2>1 DEF WriterInv
  <2>3. ParserInv' /\ TreeShape' /\ OneItemPerKey' /\ Numbered'
    BY <2>1, <2>2, StepKeepsTypes, StepKeepsShape, StepKeepsKeys, StepKeepsNumbers
  <2> QED
    BY <2>1, <2>3 DEF WriterInv
<1>2. CASE nfcconf_write
  <2>1. phase = "read" /\ phase' = "written" /\ source' = tree
    BY <1>2 DEF nfcconf_write
  <2>2. ParserInv /\ TreeShape /\ OneItemPerKey /\ Numbered
    BY <2>1 DEF WriterInv
  <2>3. Legible(tree) => Position' /\ \E S : Rebuilt(S)'
    BY <1>2, <2>2, WritingStarts
  <2>4. Legible(source)' => Legible(tree)
    BY <2>1
  <2> QED
    BY <2>1, <2>3, <2>4 DEF WriterInv
<1>3. CASE WriteFollowsNull
  <2>1. /\ phase = "read" /\ phase' = "read"
        /\ UNCHANGED <<tree, block, last_item, current_item, key, name, state, set, error, tokens, result>>
        /\ wild' = TRUE
    BY <1>3 DEF WriteFollowsNull, reading, wvars
  <2>2. ParserInv /\ TreeShape /\ OneItemPerKey /\ Numbered
    BY <2>1 DEF WriterInv
  <2>3. TypeOK'
    <3>1. TypeOK
      BY <2>2 DEF ParserInv
    <3> QED
      BY <2>1, <3>1 DEF TypeOK, Items
  <2>4. ParserInv'
    BY <2>1, <2>2, <2>3 DEF ParserInv
  <2>5. TreeShape' /\ OneItemPerKey' /\ Numbered'
    BY <2>1, <2>2 DEF TreeShape, Hangs, OneItemPerKey, Numbered, Named, InOrder, Nested
  <2> QED
    BY <2>1, <2>4, <2>5 DEF WriterInv
<1>4. CASE WriteFails
  BY <1>4 DEF WriteFails, WriterInv
<1>5. CASE ReadAgain
  <2>1. phase = "written" /\ phase' = "written" /\ source' = source
    BY <1>5 DEF ReadAgain
  <2>2. ASSUME Legible(source) PROVE Position' /\ \E S : Rebuilt(S)'
    <3>1. Position /\ \E S : Rebuilt(S)
      BY <2>1, <2>2 DEF WriterInv
    <3>2. PICK S : Rebuilt(S)
      BY <3>1
    <3>3. Next /\ GoesOn
      BY <1>5, <3>1, <3>2, StepOfReadAgain
    <3>4. PICK T : Opens(T)' /\ Part(T)'
      BY <3>3 DEF GoesOn
    <3>5. ParserInv' /\ TreeShape'
      BY <3>2, <3>3, StepKeepsTypes, StepKeepsShape DEF Rebuilt
    <3>6. Rebuilt(T)'
      BY <2>1, <3>2, <3>3, <3>4, <3>5 DEF Rebuilt, GoesOn
    <3> QED
      BY <3>3, <3>6 DEF GoesOn
  <2>3. Legible(source)' => Legible(source)
    BY <2>1
  <2> QED
    BY <2>1, <2>2, <2>3 DEF WriterInv
<1>6. CASE ReadAgainEnds
  <2>1. /\ phase \in {"written", "cut"} /\ UNCHANGED wvars /\ Next
        /\ UNCHANGED <<tree, block, last_item, current_item, reading, last_token, error, wild>>
    BY <1>6 DEF ReadAgainEnds, EndOfFile, Next, NextToken
  <2>2. UNCHANGED <<phase, source, file, key, name, state, set>>
    BY <2>1 DEF wvars, reading
  <2>3. ASSUME phase = "written", Legible(source) PROVE Position' /\ \E S : Rebuilt(S)'
    <3>1. Position /\ \E S : Rebuilt(S)
      BY <2>3 DEF WriterInv
    <3>2. PICK S : Rebuilt(S)
      BY <3>1
    <3>3. ParserInv' /\ TreeShape'
      BY <2>1, <3>2, StepKeepsTypes, StepKeepsShape DEF Rebuilt
    <3>4. Rebuilt(S)'
      BY <2>1, <2>2, <3>2, <3>3, Zenon DEF Rebuilt, Opens, LastHangs, Part
    <3>5. Position'
      BY <2>1, <2>2, <3>1
         DEF Position, AtTop, AtItem, AtLineEnd, AtOption, AtHead, AtValue, NextItem, ItemHere
    <3> QED
      BY <3>4, <3>5
  <2>5. ASSUME phase = "cut", Legible(source) PROVE ~error' /\ ~wild' /\ TreeIsPart'
    <3>1. ~error /\ ~wild /\ TreeIsPart
      BY <2>5 DEF WriterInv
    <3>3. UNCHANGED <<tree, source, phase, current_item>>
      BY <2>1, <2>2
    <3>2. TreeIsPart'
      BY <3>1, <3>3, PartStays
    <3> QED
      BY <2>1, <3>1, <3>2
  <2>4. Legible(source)' => Legible(source)
    BY <2>2
  <2> QED
    BY <2>1, <2>2, <2>3, <2>4, <2>5 DEF WriterInv
<1>9. CASE ReadCut
  <2>1. phase = "written" /\ phase' = "cut" /\ source' = source
    BY <1>9 DEF ReadCut
  <2>2. ASSUME Legible(source) PROVE ~error' /\ ~wild' /\ TreeIsPart'
    <3>1. Position /\ \E S : Rebuilt(S)
      BY <2>1, <2>2 DEF WriterInv
    <3> QED
      BY <1>9, <3>1, StepOfReadCut
  <2>3. Legible(source)' => Legible(source)
    BY <2>1
  <2> QED
    BY <2>1, <2>2, <2>3 DEF WriterInv
<1>7. CASE UNCHANGED writevars
  <2>1. UNCHANGED <<phase, source, file, tree, block, last_item, current_item, key, name, state, set,
                    last_token, error, wild, tokens, result>>
    BY <1>7 DEF writevars, wvars, vars, reading
  <2>2. ParserInv => ParserInv'
    BY <2>1 DEF ParserInv, TypeOK, Items
  <2>3. TreeShape => TreeShape'
    BY <2>1 DEF TreeShape, Hangs
  <2>4. OneItemPerKey /\ Numbered => OneItemPerKey' /\ Numbered'
    BY <2>1 DEF OneItemPerKey, Numbered, Named, InOrder, Nested
  <2>5. \A S : Rebuilt(S) => Rebuilt(S)'
    BY <2>1, <2>2, <2>3, Zenon DEF Rebuilt, Opens, LastHangs, Part
  <2>6. Position => Position'
    BY <2>1 DEF Position, AtTop, AtItem, AtLineEnd, AtOption, AtHead, AtValue, NextItem, ItemHere
  <2>7. Legible(source)' => Legible(source)
    BY <2>1
  <2>8. TreeIsPart => TreeIsPart'
    BY <2>1, PartStays
  <2> QED
    BY <2>1, <2>2, <2>3, <2>4, <2>5, <2>6, <2>7, <2>8 DEF WriterInv
<1> QED
  BY <1>1, <1>2, <1>3, <1>4, <1>5, <1>6, <1>7, <1>9 DEF WriteNext

(* At any time of the second parse it is at a place of the file that fits  *)
(* the tree it has built.                                                  *)
THEOREM WriterInvHolds ==
    WriteSpec => []WriterInv
<1>1. WriteInit => WriterInv
  BY InitIsWhole DEF WriteInit, WriterInv
<1>2. WriterInv /\ [WriteNext]_writevars => WriterInv'
  BY StepKeepsWriterInv
<1> QED
  BY <1>1, <1>2, PTL DEF WriteSpec

-----------------------------------------------------------------------------
(* When the whole file has been read.                                      *)

(* What nfcconf_write() has written is read without an error, and, when    *)
(* all of it is read, as the tree that was written, if the writer can      *)
(* write it legibly: keys without quotes, values between them.             *)
THEOREM WrittenReadsBack ==
    WriteSpec => []ReadsBack
<1>1. WriterInv => ReadsBack
  <2>1. ASSUME WriterInv, phase = "written", Legible(source)
        PROVE  ~error /\ ~wild /\ (file = <<>> => tree = Again(source))
    <3>1. Position /\ \E S : Rebuilt(S)
      BY <2>1 DEF WriterInv
    <3>2. PICK S : Rebuilt(S)
      BY <3>1
    <3>3. file = <<>> => tree = Again(source)
      BY <3>1, <3>2, WholeWhenEmpty, WholeIsAgain
    <3> QED
      BY <3>2, <3>3 DEF Rebuilt
  <2>2. ASSUME WriterInv, phase = "cut", Legible(source)
        PROVE  ~error /\ ~wild
    BY <2>2 DEF WriterInv
  <2> QED
    BY <2>1, <2>2 DEF ReadsBack
<1> QED
  BY <1>1, WriterInvHolds, PTL

(* A file that was cut off, between two tokens or inside one, is read as a *)
(* part of the tree that was written.                                      *)
THEOREM CutReadsAsPart ==
    WriteSpec => []CutIsPart
<1>1. WriterInv => CutIsPart
  <2>1. ASSUME WriterInv, phase = "written", Legible(source)
        PROVE  TreeIsPart
    <3>1. Position /\ \E S : Rebuilt(S)
      BY <2>1 DEF WriterInv
    <3> QED
      BY <3>1, PositionIsPart
  <2>2. ASSUME WriterInv, phase = "cut", Legible(source)
        PROVE  TreeIsPart
    BY <2>2 DEF WriterInv
  <2> QED
    BY <2>1, <2>2, CutIsPartIs
<1> QED
  BY <1>1, WriterInvHolds, PTL
=============================================================================

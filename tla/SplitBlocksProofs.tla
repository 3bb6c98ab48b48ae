--------------------------- MODULE SplitBlocksProofs ---------------------------
(***************************************************************************)
(* Encrypting, decrypting, signing and verifying in blocks, for every set   *)
(* of bytes, every block size and texts of any length.  The invariant says  *)
(* of each loop how far it has come, as a number of blocks, so that what    *)
(* the loops compute is known place by place and needs no induction.        *)
(***************************************************************************)
EXTENDS SplitBlocks, TLAPS

\* The first blocks of s, as many as out has.
Pieces(out, s) == \A j \in 1..Len(out) : out[j] = Piece(s, j - 1)

\* A loop that writes the blocks of s has written full ones; rest is left.
Cutting(out, s, rest) ==
    /\ Pieces(out, s)
    /\ At(Len(out)) <= Len(s)
    /\ rest = Drop(s, At(Len(out)))

\* It has come to the end: the last block, which may be a short one, is there.
CutUp(out, s) ==
    /\ Pieces(out, s)
    /\ Len(s) <= At(Len(out))
    /\ out # <<>> => At(Len(out) - 1) < Len(s)

\* A loop that reads the blocks has read the first n, and rest is left.
Reading(out, rest, n) ==
    /\ n \in 0..Len(out)
    /\ Len(rest) = Len(out) - n
    /\ rest = Drop(out, n)

Encrypts ==
    phase = "encrypt" => /\ back = <<>> /\ sign_data = <<>>
                         /\ Cutting(enc_data, text, src)

Decrypts ==
    phase = "decrypt" =>
        /\ src = text /\ sign_data = <<>>
        /\ CutUp(enc_data, text)
        /\ \E n \in Nat : Reading(enc_data, blocks, n) /\ back = Take(text, At(n))

Signs == phase = "sign" => Cutting(sign_data, text, src)

Receives ==
    phase = "receive" => CutUp(sign_data, text) /\ src = claim

\* The first n blocks have verified, and it goes on because something of the
\* signature follows, or there never was anything.
Matched(n) ==
    /\ Reading(signature.blocks, blocks, n)
    /\ At(n) <= Len(claim) /\ src = Drop(claim, At(n))
    /\ \A j \in 1..n : signature.blocks[j] = Piece(claim, j - 1)
    /\ blocks = <<>> => signature.blocks = <<>> \/ signature.tail
    /\ Genuine => Take(claim, At(n)) = Take(text, At(n))

Verifies ==
    phase = "verify" => CutUp(sign_data, text) /\ \E n \in Nat : Matched(n)

IInv ==
    /\ TypeOK
    /\ Encrypts /\ Decrypts /\ Signs /\ Receives /\ Verifies
    /\ RoundTrip /\ WellMadeNeverThrows /\ SignatureBinds

USE SplitAssumption

-----------------------------------------------------------------------------
\* Places: multiples of the block size.

\* The next place is one block further.
LEMMA NextPlace ==
    ASSUME NEW k \in Nat
    PROVE  At(k) \in Nat /\ At(k + 1) = At(k) + limit_size /\ At(0) = 0
  BY DEF At

\* Places keep the order of the blocks, at least one block apart.
LEMMA PlacesApart ==
    ASSUME NEW j \in Nat, NEW k \in Nat, j < k
    PROVE  At(j) + limit_size <= At(k)
<1>1. PICK d \in Nat : k = j + 1 + d
  <2>. k - j - 1 \in Nat /\ k = j + 1 + (k - j - 1)
    OBVIOUS
  <2>. QED  OBVIOUS
<1>2. At(k) = At(j) + limit_size + d * limit_size
  BY <1>1 DEF At
<1>3. d * limit_size \in Nat /\ At(j) \in Nat
  BY DEF At
<1>. QED  BY <1>2, <1>3

-----------------------------------------------------------------------------
\* Taking from a text and dropping from it.

\* A text is a sequence of at most MaxLen bytes.
LEMMA TextIsSeq == Texts = {s \in Seq(Bytes) : Len(s) <= MaxLen}
<1>1. ASSUME NEW s \in Texts PROVE s \in Seq(Bytes) /\ Len(s) <= MaxLen
  <2>1. PICK m \in 0..MaxLen : s \in [1..m -> Bytes]
    BY DEF Texts, BoundedSeq, SeqOf
  <2>2. s \in Seq(Bytes) /\ Len(s) = m
    BY <2>1
  <2>. QED  BY <2>2
<1>2. ASSUME NEW s \in Seq(Bytes), Len(s) <= MaxLen PROVE s \in Texts
  <2>1. Len(s) \in 0..MaxLen /\ s \in [1..Len(s) -> Bytes]
    BY <1>2
  <2>. QED  BY <2>1 DEF Texts, BoundedSeq, SeqOf
<1>. QED  BY <1>1, <1>2

\* Drop leaves the places after n.
LEMMA DropIs ==
    ASSUME NEW S, NEW s \in Seq(S), NEW n \in 0..Len(s)
    PROVE  /\ Drop(s, n) \in Seq(S)
           /\ Len(Drop(s, n)) = Len(s) - n
           /\ \A i \in 1..Len(s) - n : Drop(s, n)[i] = s[n + i]
  BY DEF Drop

\* Take keeps the first n places, or all.
LEMMA TakeIs ==
    ASSUME NEW S, NEW s \in Seq(S), NEW n \in Nat
    PROVE  /\ Take(s, n) \in Seq(S)
           /\ Len(Take(s, n)) = IF Len(s) < n THEN Len(s) ELSE n
           /\ \A i \in 1..Len(Take(s, n)) : Take(s, n)[i] = s[i]
<1>. DEFINE m == IF Len(s) < n THEN Len(s) ELSE n
<1>1. m \in 0..Len(s)
  OBVIOUS
<1>2. /\ SubSeq(s, 1, m) \in Seq(S)
      /\ Len(SubSeq(s, 1, m)) = m
      /\ \A i \in 1..m : SubSeq(s, 1, m)[i] = s[i]
  <2>. HIDE DEF m
  <2>. QED  BY <1>1
<1>. QED  BY <1>1, <1>2 DEF Take

\* The elements of a concatenation.
LEMMA Concatenated ==
    ASSUME NEW S, NEW a \in Seq(S), NEW b \in Seq(S)
    PROVE  /\ a \o b \in Seq(S)
           /\ Len(a \o b) = Len(a) + Len(b)
           /\ \A i \in 1..Len(a) : (a \o b)[i] = a[i]
           /\ \A i \in 1..Len(b) : (a \o b)[Len(a) + i] = b[i]
  OBVIOUS

\* Sequences with the same elements are equal.
LEMMA SameElements ==
    ASSUME NEW S, NEW s \in Seq(S), NEW t \in Seq(S), Len(s) = Len(t),
           \A i \in 1..Len(s) : s[i] = t[i]
    PROVE  s = t
  OBVIOUS

\* What has elements is not empty.
LEMMA NotEmpty ==
    ASSUME NEW S, NEW s \in Seq(S), Len(s) > 0
    PROVE  s # <<>>
  OBVIOUS

\* To drop twice is to drop once.
LEMMA DropMore ==
    ASSUME NEW S, NEW s \in Seq(S), NEW m \in Nat, NEW n \in Nat,
           m + n <= Len(s)
    PROVE  Drop(Drop(s, m), n) = Drop(s, m + n)
<1>1. PICK d, e, f : d = Drop(s, m) /\ e = Drop(d, n) /\ f = Drop(s, m + n)
  OBVIOUS
<1>2. m \in 0..Len(s) /\ m + n \in 0..Len(s)
  OBVIOUS
<1>3. /\ d \in Seq(S)
      /\ Len(d) = Len(s) - m
      /\ \A i \in 1..Len(s) - m : d[i] = s[m + i]
  BY <1>1, <1>2, DropIs
<1>4. d \in Seq(S) /\ n \in 0..Len(d)
  BY <1>3
<1>5. /\ e \in Seq(S)
      /\ Len(e) = Len(d) - n
      /\ \A i \in 1..Len(d) - n : e[i] = d[n + i]
  BY <1>1, <1>4, DropIs
<1>6. /\ f \in Seq(S)
      /\ Len(f) = Len(s) - (m + n)
      /\ \A i \in 1..Len(s) - (m + n) : f[i] = s[(m + n) + i]
  BY <1>1, <1>2, DropIs
<1>7. Len(e) = Len(f)
  BY <1>3, <1>5, <1>6
<1>8. ASSUME NEW i \in 1..Len(e) PROVE e[i] = f[i]
  <2>1. e[i] = d[n + i] /\ n + i \in 1..Len(s) - m
    BY <1>3, <1>5
  <2>2. m + (n + i) = (m + n) + i /\ i \in 1..Len(s) - (m + n)
    BY <1>3, <1>5
  <2>3. e[i] = s[m + (n + i)] /\ f[i] = s[(m + n) + i]
    BY <1>3, <1>6, <2>1, <2>2
  <2>. QED  BY <2>2, <2>3
<1>. QED  BY <1>1, <1>5, <1>6, <1>7, <1>8, SameElements

\* What was taken, and a piece more, is taken at once.
LEMMA TakeMore ==
    ASSUME NEW S, NEW s \in Seq(S), NEW m \in 0..Len(s), NEW n \in Nat
    PROVE  Take(s, m) \o Take(Drop(s, m), n) = Take(s, m + n)
<1>1. PICK a, b, c, d : /\ a = Take(s, m) /\ c = Take(s, m + n)
                        /\ d = Drop(s, m) /\ b = Take(d, n)
  OBVIOUS
<1>2. /\ d \in Seq(S)
      /\ Len(d) = Len(s) - m
      /\ \A i \in 1..Len(s) - m : d[i] = s[m + i]
  BY <1>1, DropIs
<1>3. a \in Seq(S) /\ Len(a) = m /\ \A i \in 1..m : a[i] = s[i]
  BY <1>1, TakeIs
<1>4. /\ b \in Seq(S)
      /\ Len(b) = IF Len(d) < n THEN Len(d) ELSE n
      /\ \A i \in 1..Len(b) : b[i] = d[i]
  BY <1>1, <1>2, TakeIs
<1>5. /\ c \in Seq(S)
      /\ Len(c) = IF Len(s) < m + n THEN Len(s) ELSE m + n
      /\ \A i \in 1..Len(c) : c[i] = s[i]
  BY <1>1, TakeIs
<1>6. /\ a \o b \in Seq(S)
      /\ Len(a \o b) = Len(a) + Len(b)
      /\ \A i \in 1..Len(a) : (a \o b)[i] = a[i]
      /\ \A i \in 1..Len(b) : (a \o b)[Len(a) + i] = b[i]
  <2>. a \in Seq(S) /\ b \in Seq(S)
    BY <1>3, <1>4
  <2>. QED  BY Concatenated
<1>7. Len(a \o b) = Len(c)
  BY <1>2, <1>3, <1>4, <1>5, <1>6
<1>8. ASSUME NEW i \in 1..Len(c) PROVE (a \o b)[i] = c[i]
  <2>0. i \in Nat \ {0} /\ m \in Nat /\ Len(b) \in Nat /\ i <= m + Len(b)
    BY <1>3, <1>4, <1>5, <1>6, <1>7
  <2>1. CASE i <= m
    BY <1>3, <1>5, <1>6, <2>0, <2>1
  <2>2. CASE i > m
    <3>1. i - m \in 1..Len(b) /\ i = m + (i - m)
      BY <2>0, <2>2
    <3>2. (a \o b)[i] = d[i - m]
      BY <1>3, <1>4, <1>6, <3>1
    <3>3. i - m \in 1..Len(s) - m
      BY <1>2, <1>4, <3>1
    <3>. QED  BY <1>2, <1>5, <3>1, <3>2, <3>3
  <2>3. i <= m \/ i > m
    BY <2>0
  <2>. QED  BY <2>1, <2>2, <2>3
<1>9. a \o b = c
  BY <1>5, <1>6, <1>7, <1>8, SameElements
<1>. QED  BY <1>1, <1>9

\* The rest of a text, its beginning, and any of its blocks are texts.
LEMMA PartsAreTexts ==
    ASSUME NEW s \in Texts, NEW n \in 0..Len(s), NEW m \in Nat
    PROVE  /\ Drop(s, n) \in Texts /\ Len(Drop(s, n)) = Len(s) - n
           /\ Take(s, m) \in Texts
           /\ Len(Take(s, m)) = IF Len(s) < m THEN Len(s) ELSE m
<1>1. s \in Seq(Bytes) /\ Len(s) <= MaxLen
  BY TextIsSeq
<1>2. Drop(s, n) \in Seq(Bytes) /\ Len(Drop(s, n)) = Len(s) - n
  BY <1>1, DropIs
<1>3. /\ Take(s, m) \in Seq(Bytes)
      /\ Len(Take(s, m)) = IF Len(s) < m THEN Len(s) ELSE m
  BY <1>1, TakeIs
<1>. QED  BY <1>1, <1>2, <1>3, TextIsSeq

\* To drop nothing changes nothing, and nothing is what it takes.
LEMMA NothingTaken ==
    ASSUME NEW s \in Texts
    PROVE  Drop(s, 0) = s /\ Take(s, 0) = <<>>
<1>1. s \in Seq(Bytes)
  BY TextIsSeq
<1>. QED  BY <1>1 DEF Drop, Take

\* To take as much as there is, or more, takes everything.
LEMMA AllTaken ==
    ASSUME NEW s \in Texts, NEW m \in Nat, Len(s) <= m
    PROVE  Take(s, m) = s
<1>1. s \in Seq(Bytes)
  BY TextIsSeq
<1>. QED  BY <1>1 DEF Take

\* A text that agrees with the beginning of another is a prefix of it.
LEMMA BeginningIsPrefix ==
    ASSUME NEW s \in Texts, NEW t \in Texts, Len(s) <= Len(t),
           Take(s, Len(s)) = Take(t, Len(s))
    PROVE  IsPrefix(s, t)
<1>1. s \in Seq(Bytes) /\ t \in Seq(Bytes)
  BY TextIsSeq
<1>. QED  BY <1>1 DEF Take, IsPrefix

-----------------------------------------------------------------------------
\* The loops.

\* A block of a text.
LEMMA PieceIs ==
    ASSUME NEW s \in Texts, NEW k \in Nat, At(k) <= Len(s)
    PROVE  /\ Piece(s, k) \in Texts
           /\ Len(Piece(s, k)) =
                 IF Len(s) - At(k) < limit_size THEN Len(s) - At(k)
                 ELSE limit_size
           /\ Take(s, At(k)) \o Piece(s, k) = Take(s, At(k + 1))
<1>1. At(k) \in 0..Len(s) /\ limit_size \in Nat /\ At(k + 1) = At(k) + limit_size
  BY NextPlace, TextIsSeq
<1>2. Drop(s, At(k)) \in Texts /\ Len(Drop(s, At(k))) = Len(s) - At(k)
  BY <1>1, PartsAreTexts
<1>3. PICK d : d = Drop(s, At(k))
  OBVIOUS
<1>4. d \in Texts /\ Len(d) = Len(s) - At(k) /\ 0 \in 0..Len(d)
  BY <1>1, <1>2, <1>3
<1>5. /\ Take(d, limit_size) \in Texts
      /\ Len(Take(d, limit_size)) =
            IF Len(d) < limit_size THEN Len(d) ELSE limit_size
  BY <1>1, <1>4, PartsAreTexts
<1>6. Take(s, At(k)) \o Take(Drop(s, At(k)), limit_size)
         = Take(s, At(k) + limit_size)
  BY <1>1, TextIsSeq, TakeMore
<1>. QED  BY <1>1, <1>3, <1>4, <1>5, <1>6 DEF Piece, Block

\* A round that writes a block writes the next one of the text.
LEMMA WriteBlock ==
    ASSUME NEW s \in Texts, NEW out \in Seq(Texts), NEW rest,
           Cutting(out, s, rest)
    PROVE  /\ Append(out, Block(rest)) \in Seq(Texts)
           /\ Len(Append(out, Block(rest))) = Len(out) + 1
           /\ Pieces(Append(out, Block(rest)), s)
           /\ rest \in Texts
           /\ Len(rest) = Len(s) - At(Len(out))
<1>1. PICK b : b = Block(rest)
  OBVIOUS
<1>2. Len(out) \in Nat /\ At(Len(out)) \in 0..Len(s)
  BY NextPlace, TextIsSeq DEF Cutting
<1>3. b = Piece(s, Len(out)) /\ b \in Texts
  BY <1>1, <1>2, PieceIs DEF Cutting, Piece
<1>4. rest \in Texts /\ Len(rest) = Len(s) - At(Len(out))
  BY <1>2, PartsAreTexts DEF Cutting
<1>5. /\ Append(out, b) \in Seq(Texts)
      /\ Len(Append(out, b)) = Len(out) + 1
      /\ \A j \in 1..Len(out) + 1 :
            Append(out, b)[j] = IF j = Len(out) + 1 THEN b ELSE out[j]
  BY <1>3
<1>6. ASSUME NEW j \in 1..Len(out) + 1
      PROVE  Append(out, b)[j] = Piece(s, j - 1)
  <2>1. CASE j = Len(out) + 1
    BY <1>2, <1>3, <1>5, <2>1
  <2>2. CASE j # Len(out) + 1
    BY <1>2, <1>5, <2>2 DEF Cutting, Pieces
  <2>. QED  BY <2>1, <2>2
<1>. QED  BY <1>1, <1>4, <1>5, <1>6 DEF Pieces

\* A round that is not the last leaves the rest after that block.
LEMMA WriteMore ==
    ASSUME NEW s \in Texts, NEW out \in Seq(Texts), NEW rest,
           Cutting(out, s, rest), Len(rest) > limit_size
    PROVE  Cutting(Append(out, Block(rest)), s, Drop(rest, limit_size))
<1>1. PICK more : more = Append(out, Block(rest))
  OBVIOUS
<1>2. Pieces(more, s) /\ Len(more) = Len(out) + 1
  BY <1>1, WriteBlock
<1>3. Len(rest) = Len(s) - At(Len(out)) /\ s \in Seq(Bytes)
  BY WriteBlock, TextIsSeq
<1>4. /\ At(Len(out)) \in Nat /\ limit_size \in Nat
      /\ At(Len(more)) = At(Len(out)) + limit_size
  BY <1>2, NextPlace
<1>5. At(Len(out)) + limit_size <= Len(s)
  BY <1>3, <1>4
<1>6. Drop(Drop(s, At(Len(out))), limit_size) = Drop(s, At(Len(out)) + limit_size)
  BY <1>3, <1>4, <1>5, DropMore
<1>. QED  BY <1>1, <1>2, <1>4, <1>5, <1>6 DEF Cutting

\* The last round, which writes a block if anything is left, cuts all of it up.
LEMMA WriteLast ==
    ASSUME NEW s \in Texts, NEW out \in Seq(Texts), NEW rest,
           Cutting(out, s, rest), Len(rest) <= limit_size
    PROVE  CutUp(IF rest = <<>> THEN out ELSE Append(out, Block(rest)), s)
<1>0. s \in Seq(Bytes) /\ rest \in Texts /\ Len(rest) = Len(s) - At(Len(out))
  BY WriteBlock, TextIsSeq
<1>1. /\ Len(rest) = Len(s) - At(Len(out)) /\ rest \in Seq(Bytes)
      /\ Len(s) \in Nat /\ Len(out) \in Nat
  BY <1>0, TextIsSeq
<1>2. At(Len(out)) \in Nat /\ At(Len(out) + 1) = At(Len(out)) + limit_size
  BY <1>1, NextPlace
<1>3. CASE rest = <<>>
  <2>1. Len(s) = At(Len(out))
    BY <1>1, <1>2, <1>3
  <2>2. ASSUME out # <<>> PROVE At(Len(out) - 1) < Len(s)
    <3>1. Len(out) - 1 \in Nat
      BY <2>2
    <3>2. /\ At(Len(out) - 1) \in Nat
          /\ At((Len(out) - 1) + 1) = At(Len(out) - 1) + limit_size
      BY <3>1, NextPlace
    <3>3. (Len(out) - 1) + 1 = Len(out)
      BY <1>1
    <3>. QED  BY <2>1, <3>2, <3>3
  <2>. QED  BY <1>3, <2>1, <2>2 DEF CutUp, Cutting
<1>4. CASE rest # <<>>
  <2>1. PICK more : more = Append(out, Block(rest))
    OBVIOUS
  <2>2. Pieces(more, s) /\ Len(more) = Len(out) + 1 /\ Len(more) - 1 = Len(out)
    BY <1>1, <2>1, WriteBlock
  <2>3. Len(rest) > 0
    BY <1>1, <1>4
  <2>4. Len(s) <= At(Len(more)) /\ At(Len(more) - 1) < Len(s)
    BY <1>1, <1>2, <2>2, <2>3
  <2>. QED  BY <1>4, <2>1, <2>2, <2>4 DEF CutUp
<1>. QED  BY <1>3, <1>4

\* The next block to read of a text that was cut up: it is the piece of that
\* place, of full size unless it is the last one, which goes to the end.
LEMMA ReadBlock ==
    ASSUME NEW s \in Texts, NEW out \in Seq(Texts),
           NEW rest \in Seq(Texts), NEW n \in Nat,
           CutUp(out, s), Reading(out, rest, n), rest # <<>>
    PROVE  /\ Head(rest) = Piece(s, n)
           /\ Reading(out, Tail(rest), n + 1)
           /\ At(n) < Len(s)
           /\ Len(rest) # 1 =>
                 /\ Tail(rest) # <<>>
                 /\ At(n + 1) < Len(s)
           /\ Len(rest) = 1 => Len(s) <= At(n + 1)
<1>1. /\ rest \in Seq(Texts) /\ Len(rest) = Len(out) - n
      /\ \A i \in 1..Len(out) - n : rest[i] = out[n + i]
  BY DropIs DEF Reading
<1>2. /\ Len(out) \in Nat /\ n < Len(out) /\ Len(rest) \in Nat \ {0}
      /\ Len(rest) = Len(out) - n /\ (Len(rest) = 1 => n + 1 = Len(out))
  BY <1>1
<1>3. Head(rest) = out[n + 1]
  BY <1>1, <1>2
<1>4. out[n + 1] = Piece(s, (n + 1) - 1) /\ (n + 1) - 1 = n
  BY <1>2 DEF CutUp, Pieces
<1>5. out # <<>> /\ At(Len(out) - 1) < Len(s) /\ Len(s) <= At(Len(out))
  BY <1>2 DEF CutUp
<1>6. At(n) <= At(Len(out) - 1) /\ At(n) \in Nat /\ At(Len(out) - 1) \in Nat
  <2>1. Len(out) - 1 \in Nat /\ (n = Len(out) - 1 \/ n < Len(out) - 1)
    BY <1>2
  <2>2. At(n) \in Nat /\ At(Len(out) - 1) \in Nat
    BY <2>1, NextPlace
  <2>. QED  BY <2>1, <2>2, PlacesApart
<1>7. Len(s) \in Nat
  BY TextIsSeq
<1>8. Reading(out, Tail(rest), n + 1)
  <2>1. /\ Tail(rest) \in Seq(Texts) /\ Len(Tail(rest)) = Len(rest) - 1
        /\ \A i \in 1..Len(rest) - 1 : Tail(rest)[i] = rest[1 + i]
    BY <1>1, <1>2
  <2>3. /\ Drop(rest, 1) \in Seq(Texts) /\ Len(Drop(rest, 1)) = Len(rest) - 1
        /\ \A i \in 1..Len(rest) - 1 : Drop(rest, 1)[i] = rest[1 + i]
    <3>. rest \in Seq(Texts) /\ 1 \in 0..Len(rest)
      BY <1>1, <1>2
    <3>. QED  BY DropIs
  <2>4. Tail(rest) = Drop(rest, 1)
    BY <2>1, <2>3, SameElements
  <2>2. Drop(Drop(out, n), 1) = Drop(out, n + 1)
    <3>1. n \in Nat /\ 1 \in Nat /\ n + 1 <= Len(out)
      BY <1>2
    <3>. QED  BY <3>1, DropMore
  <2>. QED  BY <1>1, <1>2, <2>1, <2>2, <2>4 DEF Reading
<1>9. ASSUME Len(rest) # 1
      PROVE  Tail(rest) # <<>> /\ At(n + 1) < Len(s)
  <2>1. /\ n + 1 = Len(out) - 1 \/ n + 1 < Len(out) - 1
        /\ n + 1 \in Nat /\ Len(out) - 1 \in Nat
    BY <1>1, <1>2, <1>9
  <2>3. At(n + 1) \in Nat
    BY <2>1, NextPlace
  <2>2. At(n + 1) <= At(Len(out) - 1)
    <3>1. CASE n + 1 = Len(out) - 1
      BY <1>6, <3>1
    <3>2. CASE n + 1 < Len(out) - 1
      <4>1. At(n + 1) + limit_size <= At(Len(out) - 1)
        BY <2>1, <3>2, PlacesApart
      <4>. QED  BY <1>6, <2>3, <4>1
    <3>. QED  BY <2>1, <3>1, <3>2
  <2>4. Tail(rest) # <<>>
    <3>1. Len(rest) \in Nat /\ Len(rest) > 1
      BY <1>2, <1>9
    <3>2. Tail(rest) \in Seq(Texts) /\ Len(Tail(rest)) > 0
      BY <3>1
    <3>. QED  BY <3>2, NotEmpty
  <2>5. At(n + 1) < Len(s)
    BY <1>5, <1>6, <1>7, <2>2, <2>3
  <2>. QED  BY <2>4, <2>5
<1>10. Len(rest) = 1 => Len(s) <= At(n + 1)
  <2>. SUFFICES ASSUME Len(rest) = 1 PROVE Len(s) <= At(n + 1)
    OBVIOUS
  <2>1. n + 1 = Len(out)
    BY <1>2
  <2>. QED  BY <1>5, <2>1
<1>. QED
  BY <1>3, <1>4, <1>5, <1>6, <1>7, <1>8, <1>9, <1>10

\* A block of the claim that is the block of the text: the two agree one block
\* further.
LEMMA AgreeFurther ==
    ASSUME NEW s \in Texts, NEW t \in Texts, NEW n \in Nat,
           At(n) <= Len(s), At(n) <= Len(t),
           Take(s, At(n)) = Take(t, At(n)), Piece(s, n) = Piece(t, n)
    PROVE  Take(s, At(n + 1)) = Take(t, At(n + 1))
<1>1. Take(s, At(n)) \o Piece(s, n) = Take(s, At(n + 1))
  BY PieceIs
<1>2. Take(t, At(n)) \o Piece(t, n) = Take(t, At(n + 1))
  BY PieceIs
<1>. QED  BY <1>1, <1>2

-----------------------------------------------------------------------------
\* The invariant.

\* The two loops of the sender begin with the whole text.
LEMMA CuttingBegins ==
    ASSUME NEW s \in Texts
    PROVE  Cutting(<<>>, s, s) /\ <<>> \in Seq(Texts)
<1>1. At(0) = 0 /\ Len(<<>>) = 0 /\ Len(s) \in Nat
  BY NextPlace, TextIsSeq
<1>2. Drop(s, 0) = s
  BY NothingTaken
<1>3. \A j \in 1..0 : FALSE
  OBVIOUS
<1>. QED  BY <1>1, <1>2, <1>3 DEF Cutting, Pieces

\* The two loops that read blocks begin with all of them.
LEMMA ReadingBegins ==
    ASSUME NEW out \in Seq(Texts)
    PROVE  Reading(out, out, 0)
  BY DEF Reading, Drop

\* Each program starts with nothing cut.
LEMMA InitInvariant == Init => IInv
<1>. SUFFICES ASSUME Init PROVE IInv
  OBVIOUS
<1>1. text \in Texts /\ claim \in Texts /\ src = text
  BY DEF Init
<1>2. Cutting(enc_data, text, src) /\ <<>> \in Seq(Texts)
  BY <1>1, CuttingBegins DEF Init
<1>3. <<>> \in Texts
  BY TextIsSeq
<1>. QED
  BY <1>1, <1>2, <1>3
  DEF Init, IInv, TypeOK, Ends, Encrypts, Decrypts, Signs, Receives, Verifies,
      RoundTrip, WellMadeNeverThrows, SignatureBinds

\* A round of a loop that writes blocks: what it has written stays blocks of the
\* text, and after the last round all of it is cut up.
LEMMA RoundEffect ==
    ASSUME NEW s \in Texts, NEW out \in Seq(Texts), Cutting(out, s, src)
    PROVE  /\ Len(src) > limit_size =>
                 /\ Append(out, Block(src)) \in Seq(Texts)
                 /\ Drop(src, limit_size) \in Texts
                 /\ Cutting(Append(out, Block(src)), s, Drop(src, limit_size))
           /\ ~ (Len(src) > limit_size) =>
                 LET last == IF src = <<>> THEN out ELSE Append(out, Block(src))
                 IN  last \in Seq(Texts) /\ CutUp(last, s)
<1>1. src \in Texts /\ Append(out, Block(src)) \in Seq(Texts)
  BY WriteBlock
<1>2. Len(src) \in Nat
  BY <1>1, TextIsSeq
<1>3. CASE Len(src) > limit_size
  <2>1. limit_size \in 0..Len(src) /\ 0 \in Nat
    BY <1>2, <1>3
  <2>2. Drop(src, limit_size) \in Texts
    BY <1>1, <2>1, PartsAreTexts
  <2>3. Cutting(Append(out, Block(src)), s, Drop(src, limit_size))
    BY <1>3, WriteMore
  <2>. QED  BY <1>1, <1>3, <2>2, <2>3
<1>4. CASE ~ (Len(src) > limit_size)
  <2>1. Len(src) <= limit_size
    BY <1>2, <1>4
  <2>2. CutUp(IF src = <<>> THEN out ELSE Append(out, Block(src)), s)
    BY <2>1, WriteLast
  <2>. QED  BY <1>1, <1>4, <2>2
<1>. QED  BY <1>3, <1>4

\* The step of each of the loops keeps the invariant.
LEMMA EncryptKeeps ==
    ASSUME IInv, EncryptRound
    PROVE  IInv'
<1>. USE DEF EncryptRound, Round
<1>0. TypeOK /\ text \in Texts /\ claim \in Texts
  BY DEF IInv, TypeOK
<1>1. Cutting(enc_data, text, src) /\ back = <<>> /\ sign_data = <<>>
  BY DEF IInv, Encrypts
<1>2. enc_data \in Seq(Texts)
  BY <1>0 DEF TypeOK
<1>3. Len(src) \in Nat
  BY <1>0, TextIsSeq DEF TypeOK
<1>4. CASE Len(src) > limit_size
  <2>0. /\ enc_data' = Append(enc_data, Block(src))
        /\ src' = Drop(src, limit_size)
        /\ phase' = "encrypt" /\ blocks' = blocks
    BY <1>3, <1>4
  <2>1. /\ enc_data' \in Seq(Texts)
        /\ src' \in Texts
        /\ Cutting(enc_data', text, src')
    BY <1>0, <1>1, <1>2, <1>4, <2>0, RoundEffect
  <2>. QED
    BY <1>0, <1>1, <2>0, <2>1
    DEF IInv, TypeOK, Encrypts, Decrypts, Signs, Receives, Verifies, RoundTrip,
        WellMadeNeverThrows, SignatureBinds, Ends
<1>5. CASE ~ (Len(src) > limit_size)
  <2>0. enc_data' = IF src = <<>> THEN enc_data
                    ELSE Append(enc_data, Block(src))
    BY <1>3, <1>5
  <2>1. enc_data' \in Seq(Texts) /\ CutUp(enc_data', text)
    BY <1>0, <1>1, <1>2, <1>5, <2>0, RoundEffect
  <2>2. phase' = "decrypt" /\ src' = text /\ blocks' = enc_data'
    BY <1>3, <1>5
  <2>3. Reading(enc_data', blocks', 0)
    BY <2>1, <2>2, ReadingBegins
  <2>4. back' = Take(text, At(0))
    <3>1. At(0) = 0 /\ Take(text, 0) = <<>>
      BY <1>0, NextPlace, NothingTaken
    <3>. QED  BY <1>1, <3>1
  <2>. QED
    BY <1>0, <1>1, <2>1, <2>2, <2>3, <2>4
    DEF IInv, TypeOK, Encrypts, Decrypts, Signs, Receives, Verifies, RoundTrip,
        WellMadeNeverThrows, SignatureBinds, Ends
<1>. QED  BY <1>4, <1>5

\* The loop of RSADecrypt: what it has put together is the beginning of the text.
LEMMA DecryptKeeps ==
    ASSUME IInv, DecryptRound
    PROVE  IInv'
<1>. USE DEF DecryptRound
<1>0. /\ TypeOK /\ text \in Texts /\ claim \in Texts /\ Len(text) \in Nat
      /\ enc_data \in Seq(Texts) /\ blocks \in Seq(Texts)
  BY TextIsSeq DEF IInv, TypeOK
<1>1. src = text /\ sign_data = <<>> /\ CutUp(enc_data, text)
  BY DEF IInv, Decrypts
<1>2. PICK n \in Nat : Reading(enc_data, blocks, n) /\ back = Take(text, At(n))
  BY DEF IInv, Decrypts
<1>3. UNCHANGED <<text, claim, src, enc_data, sign_data>>
  OBVIOUS
<1>4. CASE blocks = <<>>
  <2>1. n = Len(enc_data)
    BY <1>0, <1>2, <1>4 DEF Reading
  <2>2. At(n) \in Nat /\ Len(text) <= At(n)
    BY <1>1, <2>1, NextPlace DEF CutUp
  <2>3. back = text
    BY <1>0, <1>2, <2>2, AllTaken
  <2>4. phase' = "sign" /\ blocks' = blocks /\ back' = back
    BY <1>4
  <2>5. Cutting(sign_data', text', src')
    BY <1>0, <1>1, <1>3, CuttingBegins
  <2>. QED
    BY <1>0, <1>3, <2>3, <2>4, <2>5
    DEF IInv, TypeOK, Encrypts, Decrypts, Signs, Receives, Verifies, RoundTrip,
        WellMadeNeverThrows, SignatureBinds, Ends
<1>5. CASE blocks # <<>>
  <2>1. /\ Head(blocks) = Piece(text, n)
        /\ Reading(enc_data, Tail(blocks), n + 1)
        /\ At(n) <= Len(text)
    <3>1. At(n) \in Nat
      BY NextPlace
    <3>2. /\ Head(blocks) = Piece(text, n)
          /\ Reading(enc_data, Tail(blocks), n + 1)
          /\ At(n) < Len(text)
      BY <1>0, <1>1, <1>2, <1>5, ReadBlock
    <3>. QED  BY <1>0, <3>1, <3>2
  <2>2. phase' = "decrypt" /\ back' = back \o Head(blocks) /\ blocks' = Tail(blocks)
    BY <1>5
  <2>3. back' = Take(text, At(n + 1))
    BY <1>0, <1>2, <2>1, <2>2, PieceIs
  <2>4. back' \in Texts /\ n + 1 \in Nat
    <3>1. n + 1 \in Nat /\ 0 \in 0..Len(text)
      BY <1>0
    <3>2. At(n + 1) \in Nat
      BY <3>1, NextPlace
    <3>. QED  BY <1>0, <2>3, <3>1, <3>2, PartsAreTexts
  <2>5. blocks' \in Seq(Texts)
    BY <1>0, <1>5, <2>2
  <2>6. Decrypts'
    BY <1>1, <1>3, <2>1, <2>2, <2>3, <2>4 DEF Decrypts
  <2>. QED
    BY <1>0, <1>3, <2>2, <2>4, <2>5, <2>6
    DEF IInv, TypeOK, Encrypts, Signs, Receives, Verifies, RoundTrip, WellMadeNeverThrows,
        SignatureBinds, Ends
<1>. QED  BY <1>4, <1>5

\* The loop of RSASign.
LEMMA SignKeeps ==
    ASSUME IInv, SignRound
    PROVE  IInv'
<1>. USE DEF SignRound, Round
<1>0. TypeOK /\ text \in Texts /\ claim \in Texts
  BY DEF IInv, TypeOK
<1>1. Cutting(sign_data, text, src) /\ back = text
  BY DEF IInv, Signs, RoundTrip
<1>2. sign_data \in Seq(Texts)
  BY <1>0 DEF TypeOK
<1>3. Len(src) \in Nat
  BY <1>0, TextIsSeq DEF TypeOK
<1>4. CASE Len(src) > limit_size
  <2>0. /\ sign_data' = Append(sign_data, Block(src))
        /\ src' = Drop(src, limit_size)
        /\ phase' = "sign" /\ blocks' = blocks
    BY <1>3, <1>4
  <2>1. /\ sign_data' \in Seq(Texts)
        /\ src' \in Texts
        /\ Cutting(sign_data', text, src')
    BY <1>0, <1>1, <1>2, <1>4, <2>0, RoundEffect
  <2>. QED
    BY <1>0, <1>1, <2>0, <2>1
    DEF IInv, TypeOK, Encrypts, Decrypts, Signs, Receives, Verifies, RoundTrip,
        WellMadeNeverThrows, SignatureBinds, Ends
<1>5. CASE ~ (Len(src) > limit_size)
  <2>0. sign_data' = IF src = <<>> THEN sign_data
                     ELSE Append(sign_data, Block(src))
    BY <1>3, <1>5
  <2>1. sign_data' \in Seq(Texts) /\ CutUp(sign_data', text)
    BY <1>0, <1>1, <1>2, <1>5, <2>0, RoundEffect
  <2>2. phase' = "receive" /\ src' = claim /\ blocks' = sign_data'
    BY <1>3, <1>5
  <2>. QED
    BY <1>0, <1>1, <2>1, <2>2
    DEF IInv, TypeOK, Encrypts, Decrypts, Signs, Receives, Verifies, RoundTrip,
        WellMadeNeverThrows, SignatureBinds, Ends
<1>. QED  BY <1>4, <1>5

\* The packet brings a signature, of which nothing has been read.
LEMMA ReceiveKeeps ==
    ASSUME IInv, Receive
    PROVE  IInv'
<1>0. /\ TypeOK /\ text \in Texts /\ claim \in Texts /\ sign_data \in Seq(Texts)
      /\ Len(claim) \in Nat
  BY TextIsSeq DEF IInv, TypeOK
<1>1. CutUp(sign_data, text) /\ src = claim /\ back = text
  BY DEF Receive, IInv, Receives, RoundTrip
<1>2. /\ phase' = "verify" /\ blocks' = signature'.blocks
      /\ UNCHANGED <<text, claim, src, enc_data, sign_data, back>>
  BY DEF Receive
<1>3. signature'.blocks \in Seq(Texts) /\ signature'.tail \in BOOLEAN
  <2>1. ASSUME NEW s \in BoundedSeq(Signed, MaxBlocks) PROVE s \in Seq(Texts)
    <3>1. PICK m \in 0..MaxBlocks : s \in [1..m -> Signed]
      BY DEF BoundedSeq, SeqOf
    <3>2. s \in [1..m -> Texts]
      BY <3>1 DEF Signed
    <3>. QED  BY <3>2
  <2>2. /\ signature'.blocks \in {sign_data} \cup BoundedSeq(Signed, MaxBlocks)
        /\ signature'.tail \in BOOLEAN
    BY DEF Receive, Signatures
  <2>. QED  BY <1>0, <2>1, <2>2
<1>4. Matched(0)'
  <2>1. At(0) = 0 /\ Reading(signature'.blocks, blocks', 0)
    BY <1>2, <1>3, NextPlace, ReadingBegins
  <2>2. Drop(claim, 0) = claim /\ Take(claim, 0) = Take(text, 0)
    BY <1>0, NothingTaken
  <2>. QED  BY <1>0, <1>1, <1>2, <2>1, <2>2 DEF Matched
<1>5. Verifies'
  BY <1>1, <1>2, <1>4 DEF Verifies
<1>. QED
  BY <1>0, <1>1, <1>2, <1>3, <1>5
  DEF IInv, TypeOK, Encrypts, Decrypts, Signs, Receives, RoundTrip,
      WellMadeNeverThrows, SignatureBinds, Ends

-----------------------------------------------------------------------------
\* How RSAVerify ends.

\* What SignatureBinds says of a signature of s that is accepted for t.
Binds(s, t) ==
    t # <<>> => /\ IsPrefix(s, t) \/ IsPrefix(t, s)
                /\ Len(s) \in 1..limit_size - 1 => t = s

\* When the claim is used up, it is the beginning of the text, and it can be
\* used up before the last block only if it has a block of full size.
LEMMA UsedUp ==
    ASSUME NEW s \in Texts, NEW t \in Texts, NEW n \in Nat,
           At(n) = Len(t), Take(t, At(n)) = Take(s, At(n)),
           s # <<>> => At(n) < Len(s)
    PROVE  Binds(s, t)
<1>0. s \in Seq(Bytes) /\ t \in Seq(Bytes) /\ At(n) \in Nat
  BY TextIsSeq, NextPlace
<1>1. /\ Len(s) \in Nat /\ Len(t) \in Nat /\ At(n) \in Nat
      /\ 0 \in 0..Len(s) /\ 0 \in 0..Len(t)
  BY <1>0
<1>2. Len(Take(t, Len(t))) = Len(t)
  BY <1>1, AllTaken
<1>3. Len(Take(s, Len(t))) = IF Len(s) < Len(t) THEN Len(s) ELSE Len(t)
  BY <1>1, PartsAreTexts
<1>4. IsPrefix(t, s)
  BY <1>1, <1>2, <1>3, BeginningIsPrefix
<1>5. ASSUME t # <<>>, Len(s) \in 1..limit_size - 1 PROVE FALSE
  <2>1. t \in Seq(Bytes) /\ s \in Seq(Bytes)
    BY TextIsSeq
  <2>2. Len(t) > 0 /\ s # <<>>
    BY <1>1, <1>5, <2>1
  <2>3. n # 0
    BY <2>2, NextPlace
  <2>4. At(0) + limit_size <= At(n) /\ At(0) = 0
    BY <2>3, PlacesApart, NextPlace
  <2>. QED  BY <1>1, <1>5, <2>2, <2>4
<1>. QED  BY <1>4, <1>5 DEF Binds

\* When the last block has been verified, the text is the beginning of the claim,
\* and all of it unless the last block has the full size.
LEMMA LastBlock ==
    ASSUME NEW s \in Texts, NEW t \in Texts, NEW n \in Nat,
           Take(t, At(n + 1)) = Take(s, At(n + 1)), Len(s) <= At(n + 1)
    PROVE  Binds(s, t)
<1>0. /\ s \in Seq(Bytes) /\ t \in Seq(Bytes) /\ At(n) \in Nat
      /\ At(n + 1) = At(n) + limit_size
  BY TextIsSeq, NextPlace
<1>1. /\ Len(s) \in Nat /\ Len(t) \in Nat /\ At(n) \in Nat
      /\ At(n + 1) \in Nat /\ limit_size <= At(n + 1) /\ 0 \in 0..Len(t)
  BY <1>0
<1>2. Take(t, At(n + 1)) = s
  BY <1>1, AllTaken
<1>3. CASE Len(t) <= At(n + 1)
  <2>1. t = s
    BY <1>1, <1>2, <1>3, AllTaken
  <2>2. IsPrefix(t, t)
    BY <1>1, BeginningIsPrefix
  <2>. QED  BY <2>1, <2>2 DEF Binds
<1>4. CASE Len(t) > At(n + 1)
  <2>1. Len(s) = At(n + 1)
    <3>1. Len(Take(t, At(n + 1))) = At(n + 1)
      BY <1>1, <1>4, PartsAreTexts
    <3>. QED  BY <1>2, <3>1
  <2>2. Take(s, Len(s)) = Take(t, Len(s)) /\ Len(s) <= Len(t)
    BY <1>1, <1>4, <2>1
  <2>3. IsPrefix(s, t)
    BY <2>2, BeginningIsPrefix
  <2>4. ~ (Len(s) \in 1..limit_size - 1)
    BY <1>1, <2>1
  <2>. QED  BY <2>3, <2>4 DEF Binds
<1>. QED  BY <1>1, <1>3, <1>4

\* A round reads the next block of the signature, whoever has made it.
LEMMA NextRead ==
    ASSUME NEW out \in Seq(Texts), NEW rest \in Seq(Texts), NEW n \in Nat,
           Reading(out, rest, n), rest # <<>>
    PROVE  /\ n + 1 \in 1..Len(out) /\ Len(out) \in Nat
           /\ Head(rest) = out[n + 1]
           /\ Reading(out, Tail(rest), n + 1)
           /\ Len(rest) = 1 <=> n + 1 = Len(out)
           /\ Tail(rest) = <<>> => Len(rest) = 1
<1>1. /\ rest \in Seq(Texts) /\ Len(rest) = Len(out) - n
      /\ \A i \in 1..Len(out) - n : rest[i] = out[n + i]
  BY DropIs DEF Reading
<1>2. /\ Len(out) \in Nat /\ n < Len(out) /\ Len(rest) \in Nat \ {0}
      /\ Len(rest) = Len(out) - n
  BY <1>1
<1>3. Head(rest) = out[n + 1]
  BY <1>1, <1>2
<1>4. /\ Tail(rest) \in Seq(Texts) /\ Len(Tail(rest)) = Len(rest) - 1
      /\ \A i \in 1..Len(rest) - 1 : Tail(rest)[i] = rest[1 + i]
  BY <1>1, <1>2
<1>5. /\ Drop(rest, 1) \in Seq(Texts) /\ Len(Drop(rest, 1)) = Len(rest) - 1
      /\ \A i \in 1..Len(rest) - 1 : Drop(rest, 1)[i] = rest[1 + i]
  <2>. rest \in Seq(Texts) /\ 1 \in 0..Len(rest)
    BY <1>1, <1>2
  <2>. QED  BY DropIs
<1>6. Tail(rest) = Drop(rest, 1)
  BY <1>4, <1>5, SameElements
<1>7. Drop(Drop(out, n), 1) = Drop(out, n + 1)
  <2>1. n \in Nat /\ 1 \in Nat /\ n + 1 <= Len(out)
    BY <1>2
  <2>. QED  BY <2>1, DropMore
<1>8. Reading(out, Tail(rest), n + 1)
  BY <1>1, <1>2, <1>4, <1>6, <1>7 DEF Reading
<1>9. ASSUME Len(rest) # 1 PROVE Tail(rest) # <<>>
  <2>1. Tail(rest) \in Seq(Texts) /\ Len(Tail(rest)) > 0
    BY <1>2, <1>4, <1>9
  <2>. QED  BY <2>1, NotEmpty
<1>10. /\ n + 1 \in 1..Len(out)
       /\ Len(rest) = 1 <=> n + 1 = Len(out)
  BY <1>2
<1>. QED  BY <1>2, <1>3, <1>8, <1>9, <1>10

\* A block that has verified is the claim's next one; the signature of the text
\* itself then agrees with the claim one block further.
LEMMA OneMoreMatched ==
    ASSUME IInv, phase = "verify", NEW n \in Nat, Matched(n), Verified
    PROVE  /\ n + 1 \in 1..Len(signature.blocks)
           /\ signature.blocks[n + 1] = Piece(claim, n)
           /\ \A j \in 1..n + 1 : signature.blocks[j] = Piece(claim, j - 1)
           /\ Reading(signature.blocks, Tail(blocks), n + 1)
           /\ Len(blocks) = 1 <=> n + 1 = Len(signature.blocks)
           /\ Tail(blocks) = <<>> => Len(blocks) = 1
           /\ Genuine => /\ At(n) < Len(text)
                         /\ Take(claim, At(n + 1)) = Take(text, At(n + 1))
                         /\ Len(blocks) = 1 => Len(text) <= At(n + 1)
<1>0. /\ text \in Texts /\ claim \in Texts /\ CutUp(sign_data, text)
      /\ Len(text) \in Nat /\ Len(claim) \in Nat
      /\ signature.blocks \in Seq(Texts) /\ blocks \in Seq(Texts)
  BY TextIsSeq DEF IInv, TypeOK, Verifies
<1>1. /\ n + 1 \in 1..Len(signature.blocks) /\ Len(signature.blocks) \in Nat
      /\ Head(blocks) = signature.blocks[n + 1]
      /\ Reading(signature.blocks, Tail(blocks), n + 1)
      /\ Len(blocks) = 1 <=> n + 1 = Len(signature.blocks)
      /\ Tail(blocks) = <<>> => Len(blocks) = 1
  BY <1>0, NextRead DEF Matched, Verified
<1>2. Head(blocks) = Piece(claim, n)
  BY DEF Verified, Matched, Piece
<1>3. ASSUME NEW j \in 1..n + 1 PROVE signature.blocks[j] = Piece(claim, j - 1)
  <2>1. CASE j = n + 1
    BY <1>1, <1>2, <2>1
  <2>2. CASE j # n + 1
    <3>1. j \in 1..n
      BY <2>2
    <3>. QED  BY <3>1 DEF Matched
  <2>. QED  BY <2>1, <2>2
<1>4. ASSUME Genuine
      PROVE  /\ At(n) < Len(text)
             /\ Take(claim, At(n + 1)) = Take(text, At(n + 1))
             /\ Len(blocks) = 1 => Len(text) <= At(n + 1)
  <2>1. signature.blocks = sign_data
    BY <1>4 DEF Genuine
  <2>2. /\ Head(blocks) = Piece(text, n) /\ At(n) < Len(text)
        /\ Len(blocks) = 1 => Len(text) <= At(n + 1)
    BY <1>0, <2>1, ReadBlock DEF Matched, Verified
  <2>3. At(n) <= Len(text) /\ At(n) <= Len(claim) /\ Piece(claim, n) = Piece(text, n)
    <3>1. At(n) \in Nat
      BY NextPlace
    <3>. QED  BY <1>0, <1>2, <2>2, <3>1 DEF Matched
  <2>4. Take(claim, At(n)) = Take(text, At(n))
    BY <1>4 DEF Matched
  <2>. QED  BY <1>0, <2>2, <2>3, <2>4, AgreeFurther
<1>. QED  BY <1>1, <1>2, <1>3, <1>4

\* The loop of RSAVerify.
LEMMA VerifyKeeps ==
    ASSUME IInv, VerifyRound
    PROVE  IInv'
<1>0. /\ TypeOK /\ text \in Texts /\ claim \in Texts /\ claim \in Seq(Bytes)
      /\ Len(text) \in Nat /\ Len(claim) \in Nat
      /\ sign_data \in Seq(Texts) /\ blocks \in Seq(Texts)
      /\ signature.blocks \in Seq(Texts)
  BY TextIsSeq DEF IInv, TypeOK
<1>1. phase = "verify" /\ back = text /\ CutUp(sign_data, text)
  BY DEF IInv, RoundTrip, VerifyRound, Verifies
<1>2. PICK n \in Nat : Matched(n)
  BY <1>1 DEF IInv, Verifies
<1>3. /\ At(n) \in Nat /\ At(n + 1) \in Nat /\ At(n + 1) = At(n) + limit_size
      /\ n + 1 \in Nat
  BY NextPlace
<1>4. src \in Texts /\ Len(src) = Len(claim) - At(n) /\ src \in Seq(Bytes)
  <2>1. At(n) \in 0..Len(claim) /\ 0 \in Nat /\ src = Drop(claim, At(n))
    BY <1>0, <1>2, <1>3 DEF Matched
  <2>2. src \in Texts /\ Len(src) = Len(claim) - At(n)
    BY <1>0, <2>1, PartsAreTexts
  <2>. QED  BY <2>2, TextIsSeq
<1>5. UNCHANGED <<text, claim, enc_data, sign_data, signature, back>>
  BY DEF VerifyRound
\* With the signature of the text itself there is a block for every block of it.
<1>6. ASSUME Genuine, text # <<>> PROVE blocks # <<>>
  <2>1. signature.blocks = sign_data /\ ~ signature.tail
    BY <1>6 DEF Genuine
  <2>2. ASSUME sign_data = <<>> PROVE FALSE
    <3>1. Len(text) <= At(0) /\ At(0) = 0 /\ text \in Seq(Bytes)
      BY <1>0, <1>1, <2>2, NextPlace, TextIsSeq DEF CutUp
    <3>. QED  BY <1>6, <3>1
  <2>. QED  BY <1>2, <2>1, <2>2 DEF Matched
\* It ends: what has been decided is right.
<1>7. ASSUME EndVerify("accepted"),
             claim # <<>> =>
                /\ signature.blocks # <<>>
                /\ \A j \in 1..Len(signature.blocks) :
                      At(j - 1) < Len(claim) => signature.blocks[j] = Piece(claim, j - 1),
             Genuine => Binds(text, claim)
      PROVE  IInv'
  BY <1>0, <1>1, <1>5, <1>7
  DEF EndVerify, Binds, Genuine, IInv, TypeOK, Encrypts, Decrypts, Signs, Receives,
      Verifies, RoundTrip, WellMadeNeverThrows, SignatureBinds, Ends
<1>8. CASE src = <<>> /\ EndVerify("accepted")
  <2>1. At(n) = Len(claim)
    BY <1>0, <1>3, <1>4, <1>8
  <2>2. Genuine => Binds(text, claim)
    <3>. SUFFICES ASSUME Genuine PROVE Binds(text, claim)
      OBVIOUS
    <3>1. text # <<>> => At(n) < Len(text)
      <4>. SUFFICES ASSUME text # <<>> PROVE At(n) < Len(text)
        OBVIOUS
      <4>1. blocks # <<>> /\ signature.blocks = sign_data
        BY <1>6 DEF Genuine
      <4>. QED  BY <1>0, <1>1, <1>2, <4>1, ReadBlock DEF Matched
    <3>2. Take(claim, At(n)) = Take(text, At(n))
      BY <1>2 DEF Matched
    <3>. QED  BY <1>0, <2>1, <3>1, <3>2, UsedUp
  <2>3. ASSUME claim # <<>> PROVE signature.blocks # <<>>
    <3>1. n # 0
      BY <1>0, <2>1, <2>3, NextPlace
    <3>2. n \in 0..Len(signature.blocks)
      BY <1>2 DEF Matched, Reading
    <3>. QED  BY <1>0, <3>1, <3>2
  <2>4. ASSUME NEW j \in 1..Len(signature.blocks), At(j - 1) < Len(claim)
        PROVE  signature.blocks[j] = Piece(claim, j - 1)
    <3>1. j - 1 \in Nat /\ j \in Nat
      BY <1>0
    <3>2. At(j - 1) \in Nat
      BY <3>1, NextPlace
    <3>3. ~ (n < j - 1) /\ j - 1 # n
      BY <1>3, <2>1, <2>4, <3>1, <3>2, PlacesApart
    <3>4. j \in 1..n
      BY <3>1, <3>3
    <3>. QED  BY <1>2, <3>4 DEF Matched
  <2>. QED  BY <1>7, <1>8, <2>2, <2>3, <2>4
<1>9. CASE Verified /\ LastOne /\ EndVerify("accepted")
  <2>1. /\ n + 1 = Len(signature.blocks) /\ n + 1 \in 1..Len(signature.blocks)
        /\ \A j \in 1..n + 1 : signature.blocks[j] = Piece(claim, j - 1)
        /\ Genuine => /\ Take(claim, At(n + 1)) = Take(text, At(n + 1))
                      /\ Len(text) <= At(n + 1)
    BY <1>1, <1>2, <1>9, OneMoreMatched DEF LastOne
  <2>2. Genuine => Binds(text, claim)
    BY <1>0, <2>1, LastBlock
  <2>3. signature.blocks # <<>>
    BY <2>1
  <2>. QED  BY <1>7, <1>9, <2>1, <2>2, <2>3
<1>10. ASSUME EndVerify("refused"), Genuine => claim # text
       PROVE  IInv'
  BY <1>0, <1>1, <1>5, <1>10
  DEF EndVerify, Genuine, IInv, TypeOK, Encrypts, Decrypts, Signs, Receives, Verifies,
      RoundTrip, WellMadeNeverThrows, SignatureBinds, Ends
\* Something is left of the claim: if that is the text, there is a block for it.
<1>11. ASSUME src # <<>>, Genuine, claim = text
       PROVE  blocks # <<>> /\ Verified
  <2>1. Len(src) > 0
    BY <1>4, <1>11
  <2>2. text # <<>>
    <3>1. Len(text) > 0
      BY <1>0, <1>3, <1>4, <1>11, <2>1
    <3>. QED  BY <3>1
  <2>3. blocks # <<>> /\ signature.blocks = sign_data
    BY <1>6, <1>11, <2>2 DEF Genuine
  <2>4. Head(blocks) = Piece(text, n) /\ src = Drop(claim, At(n))
    BY <1>0, <1>1, <1>2, <2>3, ReadBlock DEF Matched
  <2>. QED  BY <1>11, <2>3, <2>4 DEF Verified, Piece
<1>12. CASE src # <<>> /\ blocks # <<>> /\ ~ Verified /\ EndVerify("refused")
  BY <1>10, <1>11, <1>12
\* Nothing is left of the blocks: the signature was not well made.
<1>13. ASSUME phase' = "thrown", src' \in Texts, blocks' \in Seq(Texts), ~ WellMade
       PROVE  IInv'
  BY <1>0, <1>1, <1>5, <1>13
  DEF WellMade, IInv, TypeOK, Encrypts, Decrypts, Signs, Receives, Verifies,
      RoundTrip, WellMadeNeverThrows, SignatureBinds, Ends
<1>14. CASE PastTheEnd
  <2>1. PICK how \in {"refused", "thrown"} : EndVerify(how)
    BY <1>14 DEF PastTheEnd
  <2>2. CASE how = "refused"
    BY <1>10, <1>11, <1>14, <2>1, <2>2 DEF PastTheEnd
  <2>3. CASE how = "thrown"
    <3>1. ~ WellMade
      BY <1>2, <1>14 DEF PastTheEnd, Matched, WellMade
    <3>. QED  BY <1>0, <1>4, <1>13, <2>1, <2>3, <3>1 DEF EndVerify
  <2>. QED  BY <2>1, <2>2, <2>3
<1>15. CASE Verified /\ ~ LastOne /\ NextBlock
  <2>1. /\ n + 1 \in 1..Len(signature.blocks)
        /\ signature.blocks[n + 1] = Piece(claim, n)
        /\ \A j \in 1..n + 1 : signature.blocks[j] = Piece(claim, j - 1)
        /\ Reading(signature.blocks, Tail(blocks), n + 1)
        /\ Len(blocks) = 1 <=> n + 1 = Len(signature.blocks)
        /\ Tail(blocks) = <<>> => Len(blocks) = 1
        /\ Genuine => Take(claim, At(n + 1)) = Take(text, At(n + 1))
    BY <1>1, <1>2, <1>15, OneMoreMatched
  <2>2. Tail(blocks) \in Seq(Texts)
    BY <1>0, <1>15 DEF Verified
  <2>3. src' = Drop(src, limit_size) /\ blocks' = Tail(blocks)
    BY <1>15 DEF NextBlock
  <2>4. CASE limit_size > Len(src)
    <3>1. phase' = "thrown"
      BY <1>15, <2>4 DEF NextBlock
    <3>2. src' \in Texts
      <4>1. <<>> \in Texts
        BY TextIsSeq
      <4>2. Drop(src, limit_size) = <<>>
        BY <1>4, <2>4 DEF Drop
      <4>. QED  BY <2>3, <4>1, <4>2
    <3>3. ~ WellMade
      <4>1. SUFFICES ASSUME WellMade PROVE FALSE
        OBVIOUS
      <4>2. Len(blocks) # 1
        BY <1>15, <4>1 DEF LastOne, WellMade
      <4>3. n + 1 \in 1..Len(signature.blocks) - 1
        BY <1>0, <2>1, <4>2
      <4>4. Len(Piece(claim, n)) = limit_size
        BY <2>1, <4>1, <4>3 DEF WellMade
      <4>5. Len(Piece(claim, n)) =
               IF Len(claim) - At(n) < limit_size THEN Len(claim) - At(n)
               ELSE limit_size
        BY <1>0, <1>2, PieceIs DEF Matched
      <4>. QED  BY <1>0, <1>3, <1>4, <2>4, <4>4, <4>5
    <3>. QED  BY <1>13, <2>2, <2>3, <3>1, <3>2, <3>3
  <2>5. CASE ~ (limit_size > Len(src))
    <3>1. phase' = "verify" /\ At(n + 1) <= Len(claim) /\ limit_size <= Len(claim) - At(n)
      BY <1>0, <1>1, <1>3, <1>4, <1>15, <2>5 DEF NextBlock
    <3>2. src' = Drop(claim, At(n + 1))
      <4>1. At(n) + limit_size <= Len(claim)
        BY <1>0, <1>3, <3>1
      <4>2. Drop(Drop(claim, At(n)), limit_size) = Drop(claim, At(n) + limit_size)
        BY <1>0, <1>3, <4>1, DropMore
      <4>. QED  BY <1>2, <1>3, <2>3, <4>2 DEF Matched
    <3>3. src' \in Texts
      <4>1. At(n + 1) \in 0..Len(claim) /\ 0 \in Nat
        BY <1>0, <1>3, <3>1
      <4>. QED  BY <1>0, <3>2, <4>1, PartsAreTexts
    <3>4. blocks' = <<>> => signature.tail
      BY <1>15, <2>1, <2>3, <1>0 DEF LastOne, IInv, TypeOK
    <3>5. Matched(n + 1)'
      BY <1>5, <2>1, <2>3, <3>1, <3>2, <3>4 DEF Matched, Genuine
    <3>6. Verifies'
      BY <1>1, <1>3, <1>5, <3>5 DEF Verifies
    <3>. QED
      BY <1>0, <1>1, <1>5, <2>2, <2>3, <3>1, <3>3, <3>6
      DEF IInv, TypeOK, Encrypts, Decrypts, Signs, Receives, RoundTrip,
          WellMadeNeverThrows, SignatureBinds, Ends
  <2>. QED  BY <2>4, <2>5
<1>. QED  BY <1>8, <1>9, <1>12, <1>14, <1>15 DEF VerifyRound

\* IInv holds in every reachable state.
LEMMA Invariance == Spec => []IInv
<1>1. IInv /\ UNCHANGED vars => IInv'
  BY
  DEF vars, IInv, TypeOK, Encrypts, Decrypts, Signs, Receives, Verifies, Matched,
      Genuine, WellMade, RoundTrip, WellMadeNeverThrows, SignatureBinds
<1>2. IInv /\ [Next]_vars => IInv'
  BY <1>1, EncryptKeeps, DecryptKeeps, SignKeeps, ReceiveKeeps, VerifyKeeps DEF Next
<1>. QED  BY <1>2, InitInvariant, PTL DEF Spec

-----------------------------------------------------------------------------
\* The theorems.

\* Every string the loops handle stays within the bounds of a text.
THEOREM TypeCorrect == Spec => []TypeOK
<1>1. IInv => TypeOK
  BY DEF IInv
<1>. QED  BY <1>1, Invariance, PTL

\* For every block size and every text, also one of exactly some blocks and the
\* empty one, decrypting what was encrypted gives the text back.
THEOREM DecryptInvertsEncrypt == Spec => []RoundTrip
<1>1. IInv => RoundTrip
  BY DEF IInv
<1>. QED  BY <1>1, Invariance, PTL

\* Whatever text it is held against, a signature of the form RSASign gives it,
\* whoever has made it and of whatever, never makes RSAVerify ask substr for a
\* place beyond the end; only one with bytes too many or too few does.
THEOREM WellMadeVerifies == Spec => []WellMadeNeverThrows
<1>1. IInv => WellMadeNeverThrows
  BY DEF IInv
<1>. QED  BY <1>1, Invariance, PTL

\* Whatever signature comes, a text is accepted only if all of it that the
\* signature reaches was signed; the signature RSASign has made is refused for no
\* text it was made of, and accepted, apart from the empty one, only for texts of
\* which one begins with the other; if the signed text is shorter than a block,
\* only for that text.
THEOREM SignaturesBind == Spec => []SignatureBinds
<1>1. IInv => SignatureBinds
  BY DEF IInv
<1>. QED  BY <1>1, Invariance, PTL
=============================================================================

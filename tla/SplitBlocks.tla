----------------------------- MODULE SplitBlocks -----------------------------
(***************************************************************************)
(* How ssltools encrypts, decrypts, signs and verifies a text that may be   *)
(* longer than one RSA block: each function walks through the text in a     *)
(* loop.  A block that was encrypted or signed is represented by the bytes  *)
(* it was made from; the arithmetic of RSA is left out.  The signature that *)
(* is verified comes in a packet: it need not be the one RSASign has made.  *)
(***************************************************************************)
EXTENDS Naturals, SequencesExt

CONSTANTS
    Bytes,       \* values of a byte
    limit_size,  \* rsa_size - 42: the bytes that go into one block
    MaxLen,      \* bound: the length of a text
    MaxBlocks    \* bound: the blocks of a signature RSASign has not made so

ASSUME SplitAssumption ==
    /\ limit_size \in Nat \ {0}
    /\ MaxLen \in Nat
    /\ MaxBlocks \in Nat

VARIABLES
    text,       \* what the sender encrypts and signs
    claim,      \* what the receiver verifies the signature against
    src,        \* the rest of the text the current loop has not come to yet
    blocks,     \* the rest of the blocks the current loop has not come to yet
    enc_data,   \* the result of RSAEncrypt, block by block
    sign_data,  \* the result of RSASign, block by block
    signature,  \* what the packet brings: blocks, and whether some more bytes,
                \* fewer than a block, follow them
    back,       \* the result of RSADecrypt
    phase       \* the loop that runs, or how RSAVerify has ended

vars == <<text, claim, src, blocks, enc_data, sign_data, signature, back, phase>>

Texts == BoundedSeq(Bytes, MaxLen)
Ends == {"accepted", "refused", "thrown"}

\* What a block can have been signed from; <<>> stands for a block of bytes no
\* key has signed, which verifies against no part of a text.
Signed == {s \in Texts : Len(s) <= limit_size}

Signatures == [blocks : {sign_data} \cup BoundedSeq(Signed, MaxBlocks),
               tail   : BOOLEAN]

TypeOK ==
    /\ {text, claim, src, back} \subseteq Texts
    /\ {enc_data, sign_data, blocks} \subseteq Seq(Texts)
    /\ signature.blocks \in Seq(Texts) /\ signature.tail \in BOOLEAN
    /\ phase \in {"encrypt", "decrypt", "sign", "receive", "verify"} \cup Ends

Init ==
    /\ text \in Texts /\ claim \in Texts
    /\ src = text
    /\ blocks = <<>> /\ enc_data = <<>> /\ sign_data = <<>> /\ back = <<>>
    /\ signature = [blocks |-> <<>>, tail |-> FALSE]
    /\ phase = "encrypt"

-----------------------------------------------------------------------------
\* The definitions named Faulty... are not part of the specification: each is a
\* slip of the definition below it, kept to show which property notices it.

Take(s, n) == SubSeq(s, 1, IF Len(s) < n THEN Len(s) ELSE n)
Drop(s, n) == SubSeq(s, n + 1, Len(s))

FaultyBlock(s) == Take(s, limit_size + 1)

\* The first split_size bytes.
Block(s) == Take(s, limit_size)

\* One round of the loop that writes blocks: the last one takes all the rest.
\* The blocks written are what the next loop reads, together with the text after.
Round(out, next, after) ==
    IF Len(src) <= limit_size
    THEN /\ out' = IF src = <<>> THEN out ELSE Append(out, Block(src))
         /\ phase' = next /\ src' = after /\ blocks' = out'
    ELSE /\ out' = Append(out, Block(src))
         /\ src' = Drop(src, limit_size)
         /\ UNCHANGED <<phase, blocks>>

EncryptRound ==
    /\ phase = "encrypt"
    /\ Round(enc_data, "decrypt", text)
    /\ UNCHANGED <<text, claim, sign_data, signature, back>>

\* Appends all of the buffer, not only the to_size bytes that were decrypted.
FaultyDecryptRound ==
    /\ phase = "decrypt"
    /\ \/ blocks = <<>> /\ phase' = "sign" /\ UNCHANGED <<blocks, back>>
       \/ /\ blocks # <<>> /\ phase' = phase
          /\ \E fill \in Bytes :
                back' = back \o [i \in 1..limit_size |->
                            IF i \in DOMAIN Head(blocks) THEN Head(blocks)[i] ELSE fill]
          /\ blocks' = Tail(blocks)
    /\ UNCHANGED <<text, claim, src, enc_data, sign_data, signature>>

DecryptRound ==
    /\ phase = "decrypt"
    /\ \/ blocks = <<>> /\ phase' = "sign" /\ UNCHANGED <<blocks, back>>
       \/ /\ blocks # <<>> /\ phase' = phase
          /\ back' = back \o Head(blocks)
          /\ blocks' = Tail(blocks)
    /\ UNCHANGED <<text, claim, src, enc_data, sign_data, signature>>

SignRound ==
    /\ phase = "sign"
    /\ Round(sign_data, "receive", claim)
    /\ UNCHANGED <<text, claim, enc_data, signature, back>>

\* DecryptTicket takes the signature from the packet, whatever it is: the one
\* RSASign has made, or others, with a part of a block after them or without.
Receive ==
    /\ phase = "receive" /\ phase' = "verify"
    /\ signature' \in Signatures
    /\ blocks' = signature'.blocks
    /\ UNCHANGED <<text, claim, src, enc_data, sign_data, back>>

\* RSA_verify of the next blocks of the two.
Verified == src # <<>> /\ blocks # <<>> /\ Head(blocks) = Block(src)

\* sig.size() == rsa_size
LastOne == Len(blocks) = 1 /\ ~ signature.tail

EndVerify(how) == phase' = how /\ UNCHANGED <<src, blocks>>

\* substr throws when the text is shorter than a block.
NextBlock ==
    /\ phase' = IF limit_size > Len(src) THEN "thrown" ELSE phase
    /\ src' = Drop(src, limit_size)
    /\ blocks' = Tail(blocks)

\* RSA_verify reads a whole block where less is left: bytes that are not the
\* signature's.  It refuses them, or, should they complete a block that was
\* signed, one of the two calls of substr throws.
PastTheEnd ==
    /\ src # <<>> /\ blocks = <<>>
    /\ \E how \in {"refused", "thrown"} : EndVerify(how)

FaultyVerifyForgives ==
    /\ phase = "verify"
    /\ \/ src = <<>> /\ EndVerify("accepted")
       \/ PastTheEnd
       \/ src # <<>> /\ blocks # <<>> /\ LastOne /\ EndVerify("accepted")
       \/ src # <<>> /\ blocks # <<>> /\ ~ LastOne /\ ~ Verified /\ EndVerify("refused")
       \/ Verified /\ ~ LastOne /\ NextBlock
    /\ UNCHANGED <<text, claim, enc_data, sign_data, signature, back>>

FaultyVerifyToTheEnd ==
    /\ phase = "verify"
    /\ \/ src = <<>> /\ EndVerify("accepted")
       \/ PastTheEnd
       \/ src # <<>> /\ blocks # <<>> /\ ~ Verified /\ EndVerify("refused")
       \/ Verified /\ NextBlock
    /\ UNCHANGED <<text, claim, enc_data, sign_data, signature, back>>

\* One round of RSAVerify: it ends when the text is used up, when a block does
\* not verify, or after a block that is all that is left of the signature.
VerifyRound ==
    /\ phase = "verify"
    /\ \/ src = <<>> /\ EndVerify("accepted")
       \/ PastTheEnd
       \/ src # <<>> /\ blocks # <<>> /\ ~ Verified /\ EndVerify("refused")
       \/ Verified /\ LastOne /\ EndVerify("accepted")
       \/ Verified /\ ~ LastOne /\ NextBlock
    /\ UNCHANGED <<text, claim, enc_data, sign_data, signature, back>>

Next == EncryptRound \/ DecryptRound \/ SignRound \/ Receive \/ VerifyRound

Spec == Init /\ [][Next]_vars

-----------------------------------------------------------------------------
\* Properties.

\* Where block k of a text begins, and that block.
At(k) == k * limit_size
Piece(s, k) == Block(Drop(s, At(k)))

\* The signature is the one RSASign has made of the text.
Genuine == signature = [blocks |-> sign_data, tail |-> FALSE]

\* It consists of blocks only, of which all but the last were made from as many
\* bytes as go into one, as RSASign makes them.
WellMade ==
    /\ signature.blocks # <<>> /\ ~ signature.tail
    /\ \A j \in 1..Len(signature.blocks) - 1 : Len(signature.blocks[j]) = limit_size

\* What RSAEncrypt has split, RSADecrypt puts together again, also at a text of
\* exactly one or several blocks.
RoundTrip == phase \in {"sign", "receive", "verify"} \cup Ends => back = text

\* The two strings are cut in step: a signature of the form RSASign gives it lets
\* substr start beyond the end of no text, whichever it is held against.  Of a
\* signature with some bytes too many or too few that is not so.
WellMadeNeverThrows == phase = "thrown" => ~ WellMade

\* A text is accepted only if every block of it that the signature reaches was
\* signed, and there is one.  The signature RSASign has made is accepted for the
\* text itself, and otherwise only for one that agrees with it as far as both go;
\* for a text shorter than a block, as tickets are, for no other.
SignatureBinds ==
    /\ phase = "accepted" /\ claim # <<>> =>
           /\ signature.blocks # <<>>
           /\ \A j \in 1..Len(signature.blocks) :
                 At(j - 1) < Len(claim) => signature.blocks[j] = Piece(claim, j - 1)
    /\ phase = "refused" /\ Genuine => claim # text
    /\ phase = "accepted" /\ Genuine /\ claim # <<>> =>
           /\ IsPrefix(text, claim) \/ IsPrefix(claim, text)
           /\ Len(text) \in 1..limit_size - 1 => claim = text
=============================================================================

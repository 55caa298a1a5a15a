------------------------------ MODULE CryptTool ------------------------------
(***************************************************************************)
(* prog_assign/assignment-5/pa5: aes-crypt-util.c, which encrypts,         *)
(* decrypts or copies a file, and do_crypt of aes-crypt.c.  A cell is a    *)
(* block of the cipher; a fread takes up to BLOCKSIZE cells.  A block that *)
(* is decrypted with another key than it was made with gives Junk, and the *)
(* padding is all that is checked: a block that is not the padding of the  *)
(* key, but foreign or from the middle of a cipher, may pass for one by    *)
(* chance.  Calls of the cipher do not fail on valid arguments, and the    *)
(* key made by EVP_BytesToKey always has 32 bytes: those error paths are   *)
(* left out.                                                               *)
(*                                                                         *)
(* fwrite only collects cells (pending); they reach the file when stdio    *)
(* likes, at the latest in fclose, and only then it shows if that fails.   *)
(***************************************************************************)
EXTENDS MirrorFs

CONSTANTS BLOCKSIZE, Key, NoKey, Padding, Junk

ASSUME CryptAssumption ==
    /\ BLOCKSIZE \in Nat \ {0}
    /\ {"in", "out"} \subseteq Holder \ Client   \* the tool's descriptors

VARIABLES
    step,          \* where the program is
    action, key,   \* "encrypt", "decrypt" or "copy"; the key of -e and -d
    inPath, outPath,
    inPos, outPos, \* how much was read, and how much reached the output
    outbuf,        \* what the next fwrite is given
    hold,          \* the block a decryption keeps back, as a sequence
    pending,       \* written by fwrite, not yet to the file
    status,        \* the exit status
    reported,      \* something was written to stderr
    \* The history:
    source,        \* the input when it was opened
    handed,        \* everything given to fwrite
    readError, lastLost, tampered

cryptArgs == <<action, key, inPath, outPath>>
crypt == <<step, cryptArgs, inPos, outPos, outbuf, hold, pending, status,
           reported, source, handed, readError, lastLost, tampered>>

\* Cells: a value in the clear, or encrypted with a key.
Clear(v)  == [v |-> v, key |-> NoKey]
Enc(c)    == [v |-> c.v, key |-> key]
Dec(c)    == IF c.key = key THEN Clear(c.v) ELSE Clear(Junk)
Pad       == [v |-> Padding, key |-> key]
Piece     == Clear(Junk)   \* of a block, its end taken for a padding

CryptInit ==
    /\ step = "args" /\ inPos = 0 /\ outPos = 0
    /\ outbuf = <<>> /\ hold = <<>> /\ pending = <<>>
    /\ status = "none" /\ reported = FALSE
    /\ source = <<>> /\ handed = <<>>
    /\ readError = FALSE /\ lastLost = FALSE /\ tampered = FALSE

Data(h) == inode[fd[h]].data

Exit(s) == step' = "exit" /\ status' = s

\* Too few arguments, or an unknown action.
BadArguments ==
    /\ step = "args" /\ Exit("EXIT_FAILURE") /\ reported' = TRUE
    /\ UNCHANGED <<host, mirror, cryptArgs, inPos, outPos, outbuf, hold,
                   pending, source, handed, readError, lastLost, tampered>>

OpenInput ==
    /\ step = "args"
    /\ \/ /\ open("in", inPath, "r")
          /\ step' = "openOut"
          /\ source' = inode[entry[Follow(inPath)]].data
          /\ UNCHANGED <<status, reported>>
       \/ /\ ~CanOpen(inPath, "r")
          /\ Exit("EXIT_FAILURE") /\ reported' = TRUE
          /\ UNCHANGED <<host, source>>
    /\ UNCHANGED <<mirror, cryptArgs, inPos, outPos, outbuf, hold, pending,
                   handed, readError, lastLost, tampered>>

\* "wb+" empties the file, which may be the input.
OpenOutput ==
    /\ step = "openOut"
    /\ \/ /\ \E mode \in Modes : creat("out", outPath, mode)
          /\ step' = "read"
          /\ UNCHANGED <<status, reported>>
       \/ /\ ~CanCreat(outPath)
          /\ Exit("EXIT_FAILURE") /\ reported' = TRUE
          /\ UNCHANGED host
    /\ tampered' = (tampered \/ fd'["in"] = fd'["out"])
    /\ disturbed' = disturbed \cup Hit(None)
    /\ UNCHANGED <<at, path, opened, acked, requests, cryptArgs, inPos,
                   outPos, outbuf, hold, pending, source, handed, readError,
                   lastLost>>

\* EVP_CipherUpdate, or memcpy.  A decryption keeps the last block back.
Transformed(cells) ==
    CASE action = "copy"    -> cells
      [] action = "encrypt" -> [i \in DOMAIN cells |-> Enc(cells[i])]
      [] action = "decrypt" -> LET all == hold \o cells
                               IN [i \in 1 .. Len(all) - 1 |-> Dec(all[i])]
HeldBack(cells) == IF action = "decrypt" THEN <<cells[Len(cells)]>> ELSE <<>>

\* Mistake: only an error ends the loop.
EndsLoopOnError(inlen) == inlen < 0

EndsLoop(inlen) == inlen <= 0

\* fread.  An error makes it return less, and nothing passes for the end.
ReadBlock ==
    LET left == Len(Data("in")) - inPos
        full == CASE left < 0         -> 0
                  [] left > BLOCKSIZE -> BLOCKSIZE
                  [] OTHER            -> left
    IN /\ step = "read"
       /\ \E inlen \in 0 .. full :
             LET inbuf == SubSeq(Data("in"), inPos + 1, inPos + inlen)
             IN /\ readError' = (readError \/ inlen < full)
                /\ inPos' = inPos + inlen
                /\ step' = CASE EndsLoop(inlen) -> "final"
                             [] inlen > 0       -> "write"
                             [] OTHER           -> "read"
                /\ IF inlen > 0
                   THEN outbuf' = Transformed(inbuf) /\ hold' = HeldBack(inbuf)
                   ELSE UNCHANGED <<outbuf, hold>>
       /\ UNCHANGED <<host, mirror, cryptArgs, outPos, pending, status,
                      reported, source, handed, lastLost, tampered>>

\* The first n of the cells that stdio holds get to the file.
Flush(cells, n) ==
    /\ pwrite("out", outPos, SubSeq(cells, 1, n))
    /\ outPos' = outPos + n
    /\ disturbed' = disturbed \cup Hit(None)
    /\ UNCHANGED <<entry, fd, at, path, opened, acked, requests>>

\* fwrite(outbuf): it is kept, or all is written, or that fails half-way.
Keep      == pending' = pending \o outbuf /\ UNCHANGED <<host, mirror, outPos>>
WriteAll  == Flush(pending \o outbuf, Len(pending \o outbuf)) /\ pending' = <<>>
WriteFails == /\ outbuf # <<>> /\ pending' = <<>>
              /\ \E n \in 0 .. Len(pending) : Flush(pending, n)

\* The fwrite of the loop.  If it fails do_crypt returns 0.
WriteBlock ==
    /\ step = "write" /\ handed' = handed \o outbuf
    /\ \/ (Keep \/ WriteAll) /\ step' = "read" /\ UNCHANGED reported
       \/ WriteFails /\ step' = "closeOut" /\ reported' = TRUE
    /\ outbuf' = <<>>
    /\ UNCHANGED <<cryptArgs, inPos, hold, status, source, readError,
                   lastLost, tampered>>

\* Mistake: what EVP_CipherFinal_ex says of the padding is not looked at.
FinalUnchecked ==
    /\ step = "final"
    /\ step' = IF action = "copy" THEN "closeOut" ELSE "lastWrite"
    /\ outbuf' = IF action = "encrypt" THEN <<Pad>> ELSE <<>>
    /\ UNCHANGED <<host, mirror, cryptArgs, inPos, outPos, hold, pending,
                   status, reported, source, handed, readError, lastLost,
                   tampered>>

\* EVP_CipherFinal_ex: the padding is made, or the end of the last block is
\* looked at.  If it reads like a padding it is dropped, and what is left of
\* the block, if anything, is given out.  Without a last block it fails.
Final ==
    /\ step = "final"
    /\ \/ /\ action = "copy" /\ step' = "closeOut"
          /\ UNCHANGED <<outbuf, reported>>
       \/ /\ action = "encrypt" /\ step' = "lastWrite"
          /\ outbuf' = <<Pad>> /\ UNCHANGED reported
       \/ /\ action = "decrypt" /\ hold = <<Pad>> /\ step' = "lastWrite"
          /\ outbuf' = <<>> /\ UNCHANGED reported
       \/ /\ action = "decrypt" /\ hold \notin {<<>>, <<Pad>>}
          /\ step' = "lastWrite" /\ outbuf' \in {<<>>, <<Piece>>}
          /\ UNCHANGED reported
       \/ /\ action = "decrypt" /\ hold # <<Pad>> /\ step' = "closeOut"
          /\ reported' = TRUE /\ UNCHANGED outbuf
    /\ UNCHANGED <<host, mirror, cryptArgs, inPos, outPos, hold, pending,
                   status, source, handed, readError, lastLost, tampered>>

\* Nobody looks at the result of the last fwrite.
LastWrite ==
    /\ step = "lastWrite" /\ step' = "closeOut"
    /\ handed' = handed \o outbuf
    /\ \/ (Keep \/ WriteAll) /\ UNCHANGED lastLost
       \/ WriteFails /\ lastLost' = TRUE
    /\ outbuf' = <<>>
    /\ UNCHANGED <<cryptArgs, inPos, hold, status, reported, source,
                   readError, tampered>>

\* Mistake: the result of fclose is not looked at.
FlushUnchecked ==
    /\ step = "closeOut" /\ step' = "flushed"
    /\ \E n \in 0 .. Len(pending) : Flush(pending, n)
    /\ pending' = <<>>
    /\ UNCHANGED <<cryptArgs, inPos, outbuf, hold, status, reported, source,
                   handed, readError, lastLost, tampered>>

\* fclose writes what is pending; a failure is only reported ...
FlushOutput ==
    /\ step = "closeOut" /\ step' = "flushed"
    /\ \E n \in 0 .. Len(pending) :
          /\ Flush(pending, n)
          /\ reported' = (reported \/ n < Len(pending))
    /\ pending' = <<>>
    /\ UNCHANGED <<cryptArgs, inPos, outbuf, hold, status, source, handed,
                   readError, lastLost, tampered>>

\* ... and whatever happened, the exit status says success.
CloseFiles ==
    /\ step = "flushed"
    /\ fd' = [fd EXCEPT !["in"] = None, !["out"] = None]
    /\ Exit("EXIT_SUCCESS")
    /\ UNCHANGED <<entry, inode, mirror, cryptArgs, inPos, outPos, outbuf,
                   hold, pending, reported, source, handed, readError,
                   lastLost, tampered>>

do_crypt  == ReadBlock \/ WriteBlock \/ Final \/ LastWrite
CryptStep == BadArguments \/ OpenInput \/ OpenOutput \/ do_crypt
             \/ FlushOutput \/ CloseFiles

\* What the others do to the files of the tool while it has them open.
Tampers == tampered' = (tampered \/ \E h \in {"in", "out"} :
              fd[h] # None /\ inode'[fd[h]].data # inode[fd[h]].data)

(***************************************************************************)
(* Correctness                                                             *)
(***************************************************************************)
Encrypted(s) == Append([i \in DOMAIN s |-> Enc(s[i])], Pad)
Decrypted(s) == [i \in 1 .. Len(s) - 1 |-> Dec(s[i])]
Wanted       == CASE action = "copy"    -> source
                  [] action = "encrypt" -> Encrypted(source)
                  [] action = "decrypt" -> Decrypted(source)

\* The last block read was taken for a padding, and is not the key's own.
ByChance == action = "decrypt" /\ hold # <<Pad>>

\* A run that says nothing has written the whole result to the output, if
\* nobody else touched the files.  Not so if the one fwrite that is not
\* checked failed, or after a read error: in a decryption it goes unnoticed
\* only if a block from the middle passes for a padding.  A decryption that
\* ends by chance may add a piece of the last block.
SilentMeansComplete ==
    step = "flushed" /\ ~reported /\ ~tampered =>
        \/ readError /\ (action = "decrypt" => ByChance)
        \/ lastLost
        \/ Data("out") = Wanted
        \/ ByChance /\ Data("out") = Append(Wanted, Piece)

\* What a decryption that says nothing has checked: it has read something;
\* what it gave out is the decryption of what it read, perhaps with a piece
\* more; and if it ended on the padding of its key, the input was encrypted
\* with that key and nothing is missing or added, read errors or not.  With
\* another key, or a cut input, it is a matter of chance whether it tells.
PaddingTells ==
    action = "decrypt" /\ step \in {"lastWrite", "closeOut", "flushed"}
    /\ ~reported /\ ~tampered =>
        LET given == handed \o outbuf
            read  == Decrypted(SubSeq(source, 1, inPos))
        IN /\ inPos > 0
           /\ given = read \/ (ByChance /\ given = Append(read, Piece))
           /\ ~ByChance => source[Len(source)] = Pad /\ given = Wanted
=============================================================================

------------------------------ MODULE CabWriter ------------------------------
(***************************************************************************)
(* Package cab: Write streams its input into a single-folder, single-file   *)
(* MSZIP cabinet, a window at a time, and patches the two header fields it   *)
(* only knows at the end.  Every size field has a fixed width.  The bytes    *)
(* themselves are left out: what counts is how many there are of each, and   *)
(* which part of the input each block holds.                                *)
(***************************************************************************)
EXTENDS Integers, Sequences

CONSTANTS
  Window,       \* maxBlockUncompressed
  MaxBlocks,    \* most blocks a folder can count
  CountMod,     \* width of cCFData and of the block counter (uint16)
  LenMod,       \* width of cbData and cbUncomp (uint16)
  TotalMod,     \* width of cbCabinet and the offsets (uint32)
  FileMod,      \* width of cbFile (uint32)
  NameLens,     \* lengths of the names that can be asked for
  Inputs,       \* what the reader yields, and what is declared: bytes
  Deflated      \* sizes a deflated block can have

\* Sizes of the fixed records: header, folder, file, data header, "CK", and the
\* header of a stored block.
cfHeaderSize    == 36
cfFolderSize    == 8
cfFileFixedSize == 16
cfDataHeaderLen == 8
signatureLen    == 2
storedHeaderLen == 5

maxFolderUncompressed == MaxBlocks * Window

\* Most bytes a block can take in the cabinet.
MaxFrame == cfDataHeaderLen + signatureLen + storedHeaderLen + Window

\* A name that encodeName refuses: empty, or not printable ASCII.
Refused == 0

ASSUME WindowAssumption == Window \in Nat \ {0} /\ MaxBlocks \in Nat \ {0}
ASSUME InputAssumption  == /\ NameLens \subseteq Nat
                           /\ Inputs \subseteq Nat
                           /\ Deflated \subseteq Nat \ {0}

\* The widths suffice: 0xFFFF blocks are counted in 16 bits, a block is a
\* little longer than 32 KiB, a cabinet a little longer than 2 GiB.
ASSUME WidthAssumption ==
  /\ CountMod \in Nat /\ MaxBlocks < CountMod
  /\ LenMod \in Nat   /\ MaxFrame < LenMod
  /\ FileMod \in Nat  /\ maxFolderUncompressed < FileMod
  /\ TotalMod \in Nat
  /\ \A n \in NameLens : cfHeaderSize + cfFolderSize + cfFileFixedSize + n + 1
                           + MaxBlocks * MaxFrame < TotalMod

VARIABLES
  call,     \* what Write was given: a size, a name, a reader and an output
  pc,       \* where it is
  blocks,   \* blocks written
  total,    \* bytes written
  seen,     \* bytes read
  out       \* the output file

vars == <<call, pc, blocks, total, seen, out>>

\* Results: nil, ErrFileTooLarge, ErrSizeMismatch, or another error.
Results == {"ok", "too_large", "mismatch", "error"}

\* The output: the fields of the records, where the file record and the blocks
\* have come to lie, and how long it is.
NoFile == [cbCabinet |-> 0, coffFiles |-> 0, coffCabStart |-> 0, cCFData |-> 0,
           cbFile |-> 0, fileAt |-> 0, len |-> 0, frames |-> <<>>]

\* sound: no read, write or seek on what Write was given fails.
Call == [declared : Inputs, yields : Inputs, name : NameLens, sound : BOOLEAN]

Init == /\ call \in Call
        /\ pc = "start"
        /\ blocks = 0
        /\ total = 0
        /\ seen = 0
        /\ out = NoFile

Stop(result) == pc' = result

-----------------------------------------------------------------------------
\* The bounds check, before a byte is written.
TooLarge == call.declared > maxFolderUncompressed

RejectSize == /\ pc = "start" /\ TooLarge
              /\ Stop("too_large")
              /\ UNCHANGED <<call, blocks, total, seen, out>>

RejectName == /\ pc = "start" /\ ~TooLarge /\ call.name = Refused
              /\ Stop("error")
              /\ UNCHANGED <<call, blocks, total, seen, out>>

\* The offsets Write computes beforehand.
coffFiles == cfHeaderSize + cfFolderSize

\* Mutant: the NUL after the name is forgotten.
NameUnterminated == coffFiles + cfFileFixedSize + call.name

firstDataOffset == coffFiles + cfFileFixedSize + call.name + 1

\* The bytes of the file record, its name NUL-terminated.
FileRecord == cfFileFixedSize + call.name + 1

\* The header, the folder and the file record, one after the other.
WriteRecords ==
  /\ pc = "start" /\ ~TooLarge /\ call.name # Refused
  /\ out' = [NoFile EXCEPT !.coffFiles = coffFiles % TotalMod,
                           !.coffCabStart = firstDataOffset % TotalMod,
                           !.cbFile = call.declared % FileMod,
                           !.fileAt = cfHeaderSize + cfFolderSize,
                           !.len = cfHeaderSize + cfFolderSize + FileRecord]
  /\ total' = firstDataOffset
  /\ pc' = "stream"
  /\ UNCHANGED <<call, blocks, seen>>

-----------------------------------------------------------------------------
(* streamBody.                                                             *)

\* readChunk: a full window, or what is left, and whether that was the end.
\* An input that ends on a window's edge is only seen to end by an empty read.
AtEnd == call.yields - seen < Window
Chunk == IF AtEnd THEN call.yields - seen ELSE Window

\* There is always at least one block.
Emits == Chunk > 0 \/ blocks = 0

Full == blocks = MaxBlocks

FolderFull == /\ pc = "stream" /\ Emits /\ Full
              /\ Stop("too_large")
              /\ UNCHANGED <<call, blocks, total, seen, out>>

\* Mutant: the deflated form is taken even when it is longer than the data.
NeverStored(n, deflated) == signatureLen + deflated

\* mszipWriter.block: the deflated form, or a stored one if that is no longer.
PayloadLen(n, deflated) ==
  signatureLen + (IF deflated > storedHeaderLen + n THEN storedHeaderLen + n
                                                    ELSE deflated)

\* What one block adds to the total.
FrameLen(cbData) == cfDataHeaderLen + cbData

WriteBlock ==
  /\ pc = "stream" /\ Emits /\ ~Full
  /\ \E deflated \in Deflated :
       LET cbData == PayloadLen(Chunk, deflated)
       IN  /\ out' = [out EXCEPT
                        !.len = @ + cfDataHeaderLen + cbData,
                        !.frames = Append(@, [cbData   |-> cbData % LenMod,
                                              cbUncomp |-> Chunk % LenMod,
                                              at       |-> out.len,
                                              from     |-> seen])]
           /\ total' = total + FrameLen(cbData)
  /\ blocks' = (blocks + 1) % CountMod
  /\ seen' = seen + Chunk
  /\ pc' = IF AtEnd THEN "check" ELSE "stream"
  /\ UNCHANGED call

\* The empty read that ends an input of whole windows.
EndOfInput == /\ pc = "stream" /\ ~Emits
              /\ pc' = "check"
              /\ UNCHANGED <<call, blocks, total, seen, out>>

\* Mutant: only a short input is noticed.
Short == seen < call.declared

Mismatch == seen # call.declared

CheckSize == /\ pc = "check"
             /\ pc' = IF Mismatch THEN "mismatch" ELSE "patch_total"
             /\ UNCHANGED <<call, blocks, total, seen, out>>

-----------------------------------------------------------------------------
(* patch.                                                                  *)

PatchTotal == /\ pc = "patch_total"
              /\ out' = [out EXCEPT !.cbCabinet = total % TotalMod]
              /\ pc' = "patch_blocks"
              /\ UNCHANGED <<call, blocks, total, seen>>

PatchBlocks == /\ pc = "patch_blocks"
               /\ out' = [out EXCEPT !.cCFData = blocks % CountMod]
               /\ Stop("ok")
               /\ UNCHANGED <<call, blocks, total, seen>>

\* A read, a write or a seek fails: what is written so far stays behind.
IoFails == /\ ~call.sound
           /\ pc \in {"start", "stream", "patch_total", "patch_blocks"}
           /\ pc = "start" => ~TooLarge /\ call.name # Refused
           /\ Stop("error")
           /\ UNCHANGED <<call, blocks, total, seen, out>>

Next == \/ RejectSize \/ RejectName \/ WriteRecords
        \/ FolderFull \/ WriteBlock \/ EndOfInput \/ CheckSize
        \/ PatchTotal \/ PatchBlocks
        \/ IoFails

Spec == Init /\ [][Next]_vars

-----------------------------------------------------------------------------
(* Properties.                                                             *)

Frame == [cbData : 0..(LenMod - 1), cbUncomp : 0..Window, at : Nat, from : Nat]

Cabinet == [cbCabinet : 0..(TotalMod - 1), coffFiles : 0..(TotalMod - 1),
            coffCabStart : 0..(TotalMod - 1), cCFData : 0..(CountMod - 1),
            cbFile : 0..(FileMod - 1), fileAt : Nat, len : Nat, frames : Seq(Frame)]

\* Every variable has its type.
TypeOK ==
  /\ call \in Call
  /\ pc \in Results \cup {"start", "stream", "check", "patch_total", "patch_blocks"}
  /\ blocks \in 0..MaxBlocks
  /\ total \in 0..(TotalMod - 1)
  /\ seen \in 0..call.yields
  /\ out \in Cabinet

\* What a reader makes of the fields: where block i + 1 lies in the cabinet, and
\* where in the input its bytes belong.
Offset(i) == IF i = 0 THEN out.coffCabStart
             ELSE out.frames[i].at + cfDataHeaderLen + out.frames[i].cbData
Starts(i) == IF i = 0 THEN 0 ELSE out.frames[i].from + out.frames[i].cbUncomp

\* cab/writer.go:127-132: "a short or over-long reader can never produce a
\* cabinet whose header disagrees with its contents".  Of a cabinet Write has
\* returned nil for, a reader (the tests have one, writer_test.go:156-203) finds
\* the file record and every block at the offsets the fields lead it to, from the
\* first byte of the input to the last, with nothing between the blocks or after
\* them; no field has wrapped; and only the last block is short, as MSZIP demands.
WellFormed ==
  pc = "ok" =>
    LET n == Len(out.frames)
    IN  /\ n >= 1
        /\ out.cCFData = n
        /\ out.cbCabinet = out.len
        /\ out.cbFile = call.yields
        /\ out.coffFiles = out.fileAt
        /\ Offset(n) = out.len
        /\ Starts(n) = call.yields
        /\ \A i \in 1..n :
             /\ out.frames[i].at = Offset(i - 1)
             /\ out.frames[i].from = Starts(i - 1)
             /\ i < n => out.frames[i].cbUncomp = Window

\* Write succeeds exactly on the inputs one folder can hold: all of them up to
\* 0xFFFF full windows, the empty one included, and none longer or shorter than
\* declared; and each of its errors says what is wrong (cab/writer.go:18-30): too
\* large is an input that is, or is declared, longer than a folder, a mismatch one
\* that is not what was declared, and any other error is the name's, or comes from
\* a reader or an output that does fail.
Verdict ==
  /\ pc = "ok" => /\ call.yields = call.declared
                  /\ call.declared <= maxFolderUncompressed
                  /\ call.name # Refused
  /\ pc = "too_large" => \/ call.declared > maxFolderUncompressed
                         \/ call.yields > maxFolderUncompressed
  /\ pc = "mismatch" => /\ call.yields # call.declared
                        /\ call.yields <= maxFolderUncompressed
  /\ pc = "error" => ~call.sound \/ call.name = Refused

-----------------------------------------------------------------------------
(* The inductive invariant behind WellFormed and Verdict.                   *)

Fresh == pc = "start" => blocks = 0 /\ seen = 0 /\ out = NoFile

Written == {"stream", "check", "patch_total", "patch_blocks", "ok"}

\* The blocks on file are those counted, one after the other, and short enough
\* for the total to stay within its bound.
Framing ==
  pc \in Written =>
    /\ ~TooLarge /\ call.name # Refused
    /\ out.cbFile = call.declared
    /\ out.coffFiles = out.fileAt
    /\ out.len = total
    /\ total <= firstDataOffset + blocks * MaxFrame
    /\ Len(out.frames) = blocks
    /\ out.len = Offset(blocks)
    /\ seen = Starts(blocks)
    /\ \A i \in 1..blocks : /\ out.frames[i].at = Offset(i - 1)
                            /\ out.frames[i].from = Starts(i - 1)

\* As long as the input lasts its blocks are full; then only the last may not be.
Windows ==
  /\ pc = "stream" => /\ seen = blocks * Window
                      /\ \A i \in 1..blocks : out.frames[i].cbUncomp = Window
  /\ pc \in Written \ {"stream"} =>
       /\ seen = call.yields /\ seen <= blocks * Window
       /\ blocks >= 1
       /\ \A i \in 1..blocks : i < blocks => out.frames[i].cbUncomp = Window

Patched ==
  /\ pc \in {"patch_total", "patch_blocks", "ok"} => seen = call.declared
  /\ pc \in {"patch_blocks", "ok"} => out.cbCabinet = total
  /\ pc = "ok" => out.cCFData = blocks

IInv == TypeOK /\ Fresh /\ Framing /\ Windows /\ Patched /\ Verdict
=============================================================================

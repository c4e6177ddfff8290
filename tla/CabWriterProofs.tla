--------------------------- MODULE CabWriterProofs ---------------------------
(***************************************************************************)
(* Whatever the window, the widths and the input: a cabinet Write returns    *)
(* nil for is well formed, and it returns nil for what fits and nothing else.*)
(***************************************************************************)
EXTENDS CabWriter, TLAPS

\* A value below the modulus survives its field.
LEMMA ModSmall ==
  ASSUME NEW x \in Nat, NEW m \in Nat, x < m
  PROVE  x % m = x
  OBVIOUS

\* The room n blocks take, and the bytes they hold, are within the folder's.
LEMMA MulMono ==
  ASSUME NEW a \in Nat, NEW b \in Nat, NEW c \in Nat, a <= b
  PROVE  a * c <= b * c /\ a * c \in Nat
  OBVIOUS

\* One more factor.
LEMMA MulSucc ==
  ASSUME NEW a \in Nat, NEW c \in Nat
  PROVE  (a + 1) * c = a * c + c
  OBVIOUS

\* What WidthAssumption comes to for the constants of cab/constants.go and the
\* widths of the format, whatever name fits in two gigabytes.
LEMMA ShippedWidths ==
  ASSUME NEW n \in Nat, n < 2000000000
  PROVE  /\ 65535 < 65536
         /\ 8 + 2 + 5 + 32768 < 65536
         /\ 65535 * 32768 < 4294967296
         /\ 36 + 8 + 16 + n + 1 + 65535 * (8 + 2 + 5 + 32768) < 4294967296
  OBVIOUS

USE DEF cfHeaderSize, cfFolderSize, cfFileFixedSize, cfDataHeaderLen,
        signatureLen, storedHeaderLen

\* What the constants are, and what their products come to.
LEMMA Bounds ==
  /\ MaxFrame \in Nat
  /\ maxFolderUncompressed \in Nat
  /\ CountMod \in Nat /\ LenMod \in Nat /\ TotalMod \in Nat /\ FileMod \in Nat
  /\ coffFiles \in Nat
  /\ \A b \in 0..MaxBlocks : /\ b * MaxFrame \in Nat
                            /\ b * MaxFrame <= MaxBlocks * MaxFrame
                            /\ b * Window \in Nat
                            /\ b * Window <= maxFolderUncompressed
<1>1. MaxFrame \in Nat /\ Window \in Nat /\ MaxBlocks \in Nat
  BY WindowAssumption DEF MaxFrame
<1>2. maxFolderUncompressed \in Nat
  BY <1>1, MulMono DEF maxFolderUncompressed
<1>3. ASSUME NEW b \in 0..MaxBlocks
      PROVE  /\ b * MaxFrame \in Nat
             /\ b * MaxFrame <= MaxBlocks * MaxFrame
             /\ b * Window \in Nat
             /\ b * Window <= maxFolderUncompressed
  <2>1. b \in Nat /\ b <= MaxBlocks
    BY <1>1
  <2> QED
    BY <1>1, <2>1, MulMono DEF maxFolderUncompressed
<1> QED
  BY <1>1, <1>2, <1>3, WidthAssumption DEF coffFiles

\* Where the first block starts, and how far MaxBlocks of them can reach.
LEMMA FirstBlock ==
  ASSUME call \in Call
  PROVE  /\ firstDataOffset \in Nat
         /\ coffFiles <= firstDataOffset
         /\ firstDataOffset < TotalMod
         /\ \A b \in 0..MaxBlocks : firstDataOffset + b * MaxFrame < TotalMod
<1>1. call.name \in NameLens /\ call.name \in Nat
  BY InputAssumption DEF Call
<1>2. firstDataOffset = 36 + 8 + 16 + call.name + 1 /\ coffFiles = 44
  BY DEF firstDataOffset, coffFiles
<1>3. firstDataOffset + MaxBlocks * MaxFrame < TotalMod
  <2>1. cfHeaderSize + cfFolderSize + cfFileFixedSize + call.name + 1
          + MaxBlocks * MaxFrame < TotalMod
    BY <1>1, WidthAssumption
  <2> QED
    BY <2>1, <1>2
<1>4. MaxBlocks * MaxFrame \in Nat
  BY Bounds, WindowAssumption
<1>5. ASSUME NEW b \in 0..MaxBlocks
      PROVE  firstDataOffset + b * MaxFrame < TotalMod
  <2>1. b * MaxFrame \in Nat /\ b * MaxFrame <= MaxBlocks * MaxFrame
    BY Bounds
  <2> QED
    BY <1>1, <1>2, <1>3, <1>4, <2>1, Bounds
<1> QED
  BY <1>1, <1>2, <1>3, <1>4, <1>5, Bounds

\* A payload is never empty and never longer than a stored block.
LEMMA PayloadBound ==
  ASSUME NEW n \in 0..Window, NEW d \in Deflated
  PROVE  /\ PayloadLen(n, d) \in 0..MaxFrame
         /\ PayloadLen(n, d) < LenMod
         /\ FrameLen(PayloadLen(n, d)) \in 0..MaxFrame
         /\ n < LenMod
<1>1. d \in Nat /\ Window \in Nat /\ n \in Nat /\ n <= Window
  BY InputAssumption, WindowAssumption
<1>2. PayloadLen(n, d) \in Nat /\ PayloadLen(n, d) <= 7 + n
  <2>1. PayloadLen(n, d) = IF d > 5 + n THEN 2 + (5 + n) ELSE 2 + d
    BY DEF PayloadLen
  <2> QED
    BY <1>1, <2>1
<1>3. MaxFrame = 15 + Window
  BY <1>1 DEF MaxFrame
<1>4. MaxFrame < LenMod /\ LenMod \in Nat
  BY WidthAssumption
<1>5. FrameLen(PayloadLen(n, d)) = 8 + PayloadLen(n, d)
  BY DEF FrameLen
<1> QED
  BY <1>1, <1>2, <1>3, <1>4, <1>5

\* The invariant holds before Write begins.
LEMMA InitIInv == Init => IInv
<1> SUFFICES ASSUME Init PROVE IInv
  OBVIOUS
<1>1. call \in Call /\ call.yields \in Nat
  BY InputAssumption DEF Init, Call
<1>2. TotalMod > 0 /\ CountMod > 0 /\ FileMod > 0 /\ MaxBlocks \in Nat
  BY <1>1, FirstBlock, Bounds, WidthAssumption, WindowAssumption
<1>3. NoFile \in Cabinet
  BY <1>2, Bounds DEF NoFile, Cabinet
<1>4. TypeOK
  BY <1>1, <1>2, <1>3, Bounds DEF Init, TypeOK
<1> QED
  BY <1>4 DEF Init, IInv, Fresh, Framing, Windows, Patched, Verdict, Written

\* The steps that only decide: nothing that is written changes.
LEMMA StopIInv ==
  ASSUME IInv, RejectSize \/ RejectName \/ FolderFull \/ IoFails
  PROVE  IInv'
<1> USE DEF IInv, Written, Stop
<1>1. call \in Call /\ call.yields \in Nat /\ call.declared \in Nat
  BY InputAssumption DEF TypeOK, Call
<1>2. UNCHANGED <<call, blocks, total, seen, out>> /\ pc' \in {"too_large", "error"}
  BY DEF RejectSize, RejectName, FolderFull, IoFails
<1>3. TypeOK'
  BY <1>2 DEF TypeOK, Results
<1>4. Fresh' /\ Framing' /\ Windows' /\ Patched'
  BY <1>2 DEF Fresh, Framing, Windows, Patched
<1>5. pc' = "too_large" => \/ call.declared > maxFolderUncompressed
                           \/ call.yields > maxFolderUncompressed
  <2>1. CASE RejectSize
    BY <2>1 DEF RejectSize, TooLarge
  <2>2. CASE FolderFull
    <3>1. pc = "stream" /\ blocks = MaxBlocks /\ MaxBlocks \in Nat \ {0}
      BY <2>2, WindowAssumption DEF FolderFull, Full
    <3>2. Chunk > 0 /\ seen = maxFolderUncompressed
      BY <2>2, <3>1 DEF FolderFull, Emits, Windows, maxFolderUncompressed
    <3> QED
      BY <1>1, <3>2, Bounds, WindowAssumption DEF Chunk, AtEnd, TypeOK
  <2>3. CASE RejectName \/ IoFails
    BY <2>3 DEF RejectName, IoFails
  <2> QED
    BY <2>1, <2>2, <2>3
<1>6. pc' = "error" => ~call.sound \/ call.name = Refused
  BY DEF RejectSize, RejectName, FolderFull, IoFails
<1> QED
  BY <1>2, <1>3, <1>4, <1>5, <1>6 DEF Verdict

\* Writing the header, folder and file records preserves the invariant.
LEMMA WriteRecordsIInv ==
  ASSUME IInv, WriteRecords
  PROVE  IInv'
<1> USE DEF IInv, Written
<1>1. call \in Call /\ call.yields \in Nat /\ call.declared \in Nat
  BY InputAssumption DEF TypeOK, Call
<1>2. /\ call.declared <= maxFolderUncompressed
      /\ ~TooLarge /\ call.name # Refused
      /\ pc' = "stream" /\ total' = firstDataOffset
      /\ UNCHANGED <<call, blocks, seen>>
  BY <1>1, Bounds DEF WriteRecords, TooLarge
<1>3. pc = "start" /\ blocks = 0 /\ seen = 0 /\ out = NoFile
  BY DEF WriteRecords, Fresh
<1>4. coffFiles % TotalMod = coffFiles /\ firstDataOffset % TotalMod = firstDataOffset
  BY <1>1, FirstBlock, Bounds, ModSmall
<1>5. call.declared % FileMod = call.declared
  BY <1>1, <1>2, Bounds, WidthAssumption, ModSmall
<1>6. /\ out'.coffFiles = coffFiles /\ out'.coffCabStart = firstDataOffset
      /\ out'.cbFile = call.declared /\ out'.len = firstDataOffset
      /\ out'.fileAt = coffFiles /\ out'.frames = <<>> /\ out'.cbCabinet = 0 /\ out'.cCFData = 0
      /\ out' = [cbCabinet |-> 0, coffFiles |-> coffFiles,
                 coffCabStart |-> firstDataOffset, cCFData |-> 0,
                 cbFile |-> call.declared, fileAt |-> coffFiles,
                 len |-> firstDataOffset, frames |-> <<>>]
  <2>1. cfHeaderSize + cfFolderSize + FileRecord = firstDataOffset
    <3>1. call.name \in Nat
      BY <1>1, InputAssumption DEF Call
    <3>2. FileRecord = 16 + call.name + 1
      BY DEF FileRecord
    <3>3. firstDataOffset = 44 + 16 + call.name + 1
      BY DEF firstDataOffset, coffFiles
    <3> QED
      BY <3>1, <3>2, <3>3
  <2>2. cfHeaderSize + cfFolderSize = coffFiles
    BY DEF coffFiles
  <2> QED
    BY <1>4, <1>5, <2>1, <2>2 DEF WriteRecords, NoFile
<1>7. out' \in Cabinet
  BY <1>1, <1>2, <1>6, FirstBlock, Bounds, WidthAssumption, WindowAssumption
  DEF Cabinet
<1>8. TypeOK'
  BY <1>1, <1>2, <1>3, <1>7, FirstBlock, Bounds DEF TypeOK
<1>9. Framing'
  <2>1. UNCHANGED <<TooLarge, firstDataOffset>>
    BY <1>2 DEF TooLarge, firstDataOffset
  <2>2. /\ Starts(0)' = 0 /\ Offset(0)' = firstDataOffset
        /\ 0 * MaxFrame = 0 /\ firstDataOffset \in Nat
    BY <1>1, <1>6, FirstBlock, Bounds DEF Starts, Offset
  <2> QED
    BY <1>2, <1>3, <1>6, <2>1, <2>2 DEF Framing
<1>10. Windows' /\ Patched' /\ Fresh' /\ Verdict'
  <2>1. 0 * Window = 0
    BY WindowAssumption
  <2> QED
    BY <1>2, <1>3, <2>1 DEF Windows, Patched, Fresh, Verdict
<1> QED
  BY <1>8, <1>9, <1>10

\* Writing a block preserves it: the heart of the matter.
LEMMA WriteBlockIInv ==
  ASSUME IInv, WriteBlock
  PROVE  IInv'
<1> USE DEF IInv, Written
<1>1. /\ call \in Call /\ call.yields \in Nat /\ call.declared \in Nat
      /\ Window \in Nat \ {0} /\ MaxBlocks \in Nat \ {0}
      /\ seen \in 0..call.yields
  BY InputAssumption, WindowAssumption DEF TypeOK, Call
<1>2. /\ pc = "stream" /\ Emits
      /\ seen' = seen + Chunk /\ blocks' = (blocks + 1) % CountMod
      /\ pc' = (IF AtEnd THEN "check" ELSE "stream")
      /\ call' = call
  BY DEF WriteBlock
<1>3. blocks \in 0..MaxBlocks /\ blocks < MaxBlocks
  BY <1>1 DEF WriteBlock, Full, TypeOK
<1>4. blocks' = blocks + 1
  BY <1>1, <1>2, <1>3, Bounds, WidthAssumption, ModSmall
<1>5. /\ Chunk \in 0..Window
      /\ ~AtEnd => Chunk = Window /\ seen' <= call.yields
      /\ AtEnd => seen' = call.yields
      /\ seen' \in 0..call.yields
  BY <1>1, <1>2 DEF Chunk, AtEnd
<1>6. PICK d \in Deflated :
        /\ out' = [out EXCEPT
                     !.len = @ + cfDataHeaderLen + PayloadLen(Chunk, d),
                     !.frames = Append(@, [cbData   |-> PayloadLen(Chunk, d) % LenMod,
                                           cbUncomp |-> Chunk % LenMod,
                                           at       |-> out.len,
                                           from     |-> seen])]
        /\ total' = total + FrameLen(PayloadLen(Chunk, d))
  BY DEF WriteBlock
<1> DEFINE c == PayloadLen(Chunk, d)
           f == [cbData |-> c, cbUncomp |-> Chunk, at |-> out.len, from |-> seen]
<1>7. c \in 0..MaxFrame /\ c < LenMod /\ FrameLen(c) \in 0..MaxFrame /\ Chunk < LenMod
  BY <1>5, PayloadBound
<1>8. c % LenMod = c /\ Chunk % LenMod = Chunk
  BY <1>5, <1>7, Bounds, ModSmall
<1>9. out \in Cabinet /\ out.frames \in Seq(Frame) /\ out.len \in Nat
  BY DEF TypeOK, Cabinet
<1>10. f \in Frame
  BY <1>1, <1>5, <1>7, <1>9, Bounds DEF Frame
<1>11. /\ out' = [out EXCEPT !.len = out.len + 8 + c, !.frames = Append(out.frames, f)]
       /\ total' = total + FrameLen(c)
  BY <1>6, <1>8
<1>12. /\ out'.frames = Append(out.frames, f)
       /\ out'.len = out.len + 8 + c
       /\ out'.cbFile = out.cbFile /\ out'.coffFiles = out.coffFiles
       /\ out'.coffCabStart = out.coffCabStart /\ out'.fileAt = out.fileAt
       /\ out' \in Cabinet
  <2>1. Append(out.frames, f) \in Seq(Frame)
    BY <1>9, <1>10
  <2>2. out.len + 8 + c \in Nat
    BY <1>7, <1>9, Bounds
  <2> HIDE DEF c, f
  <2> QED
    BY <1>9, <1>11, <2>1, <2>2 DEF Cabinet
<1>13. /\ Len(out'.frames) = blocks + 1
       /\ \A i \in 1..blocks : out'.frames[i] = out.frames[i]
       /\ out'.frames[blocks + 1] = f
  <2>1. Len(out.frames) = blocks
    BY <1>2 DEF Framing
  <2> HIDE DEF f
  <2> QED
    BY <1>9, <1>10, <1>12, <2>1
<1> HIDE DEF c
<1>14. TypeOK'
  <2>1. total' \in 0..(TotalMod - 1)
    <3>1. /\ total \in Nat /\ total <= firstDataOffset + blocks * MaxFrame
          /\ firstDataOffset \in Nat /\ TotalMod \in Nat
      BY <1>1, <1>2, FirstBlock, Bounds DEF Framing, TypeOK
    <3>2. firstDataOffset + (blocks + 1) * MaxFrame < TotalMod
      BY <1>1, <1>3, FirstBlock
    <3>3. (blocks + 1) * MaxFrame = blocks * MaxFrame + MaxFrame
      BY <1>3, Bounds, MulSucc
    <3>4. blocks * MaxFrame \in Nat /\ MaxFrame \in Nat
      BY <1>3, Bounds
    <3> QED
      BY <1>7, <1>11, <3>1, <3>2, <3>3, <3>4
  <2> QED
    BY <1>1, <1>2, <1>3, <1>4, <1>5, <1>12, <2>1 DEF TypeOK
<1>15. Framing'
  <2>1. UNCHANGED <<TooLarge, firstDataOffset>>
    BY <1>2 DEF TooLarge, firstDataOffset
  <2>2. /\ ~TooLarge /\ call.name # Refused /\ out.cbFile = call.declared
        /\ out.coffFiles = out.fileAt
        /\ out.len = total /\ total <= firstDataOffset + blocks * MaxFrame
        /\ out.len = Offset(blocks) /\ seen = Starts(blocks)
        /\ \A i \in 1..blocks : /\ out.frames[i].at = Offset(i - 1)
                                /\ out.frames[i].from = Starts(i - 1)
    BY <1>2 DEF Framing
  <2>3. \A i \in 0..blocks : Starts(i)' = Starts(i) /\ Offset(i)' = Offset(i)
    BY <1>3, <1>12, <1>13 DEF Starts, Offset
  <2>4. Starts(blocks)' = seen' /\ Offset(blocks)' = out'.len
    <3>1. /\ out'.frames[blocks + 1].from = seen /\ out'.frames[blocks + 1].cbUncomp = Chunk
          /\ out'.frames[blocks + 1].at = out.len /\ out'.frames[blocks + 1].cbData = c
      BY <1>13
    <3>2. blocks + 1 # 0 /\ c \in Nat /\ out.len \in Nat
      BY <1>3, <1>7, <1>9, Bounds
    <3> QED
      BY <1>2, <1>4, <1>12, <3>1, <3>2 DEF Starts, Offset
  <2>5. out'.len = total' /\ total' <= firstDataOffset + (blocks + 1) * MaxFrame
    <3>1. FrameLen(c) = 8 + c
      BY DEF FrameLen
    <3>2. (blocks + 1) * MaxFrame = blocks * MaxFrame + MaxFrame
      BY <1>3, Bounds, MulSucc
    <3>3. /\ blocks * MaxFrame \in Nat /\ MaxFrame \in Nat
          /\ total \in Nat /\ firstDataOffset \in Nat
      BY <1>1, <1>3, Bounds, FirstBlock DEF TypeOK
    <3> QED
      BY <1>7, <1>11, <1>12, <2>2, <3>1, <3>2, <3>3
  <2>6. ASSUME NEW i \in 1..(blocks + 1)
        PROVE  /\ out'.frames[i].at = Offset(i - 1)'
               /\ out'.frames[i].from = Starts(i - 1)'
    <3>1. CASE i \in 1..blocks
      <4>1. i - 1 \in 0..blocks
        BY <1>3, <3>1
      <4> QED
        BY <1>13, <2>2, <2>3, <3>1, <4>1
    <3>2. CASE i = blocks + 1
      <4>1. i - 1 = blocks /\ blocks \in 0..blocks
        BY <1>3, <3>2
      <4> QED
        BY <1>13, <2>2, <2>3, <3>2, <4>1
    <3> QED
      BY <1>3, <3>1, <3>2
  <2> QED
    BY <1>2, <1>4, <1>12, <1>13, <2>1, <2>2, <2>4, <2>5, <2>6 DEF Framing
<1>16. Windows'
  <2>1. seen = blocks * Window /\ \A i \in 1..blocks : out.frames[i].cbUncomp = Window
    BY <1>2 DEF Windows
  <2>2. CASE ~AtEnd
    <3>1. seen' = (blocks + 1) * Window
      BY <1>1, <1>2, <1>3, <1>5, <2>1, <2>2, MulSucc
    <3>2. \A i \in 1..(blocks + 1) : out'.frames[i].cbUncomp = Window
      BY <1>3, <1>5, <1>13, <2>1, <2>2
    <3> QED
      BY <1>2, <1>4, <2>2, <3>1, <3>2 DEF Windows
  <2>3. CASE AtEnd
    <3>1. \A i \in 1..(blocks + 1) : i < blocks + 1 => out'.frames[i].cbUncomp = Window
      BY <1>3, <1>13, <2>1
    <3>2. blocks + 1 >= 1
      BY <1>3
    <3>3. seen' <= (blocks + 1) * Window
      <4>1. /\ (blocks + 1) * Window = blocks * Window + Window
            /\ blocks * Window \in Nat
        BY <1>1, <1>3, MulSucc, Bounds
      <4> QED
        BY <1>1, <1>2, <1>5, <2>1, <4>1
    <3> QED
      BY <1>2, <1>4, <1>5, <2>3, <3>1, <3>2, <3>3 DEF Windows
  <2> QED
    BY <2>2, <2>3
<1> QED
  BY <1>2, <1>14, <1>15, <1>16 DEF Patched, Fresh, Verdict

\* The end of the input, and the comparison with the declared size.
LEMMA EndIInv ==
  ASSUME IInv, EndOfInput \/ CheckSize
  PROVE  IInv'
<1> USE DEF IInv, Written
<1>1. /\ call.yields \in Nat /\ call.declared \in Nat /\ seen \in 0..call.yields
      /\ blocks \in 0..MaxBlocks /\ Window \in Nat \ {0} /\ MaxBlocks \in Nat
  BY InputAssumption, WindowAssumption DEF TypeOK, Call
<1>2. UNCHANGED <<call, blocks, total, seen, out>>
  BY DEF EndOfInput, CheckSize
<1>3. pc' \in {"check", "mismatch", "patch_total"} /\ pc \in {"stream", "check"}
  BY DEF EndOfInput, CheckSize
<1>4. /\ UNCHANGED <<TooLarge, firstDataOffset>>
      /\ \A i \in Nat : Starts(i)' = Starts(i) /\ Offset(i)' = Offset(i)
  BY <1>2 DEF TooLarge, firstDataOffset, Starts, Offset
<1>5. TypeOK'
  BY <1>2, <1>3 DEF TypeOK, Results
<1>6. Framing' /\ Fresh'
  <2>1. \A i \in 1..blocks : i - 1 \in Nat
    BY <1>1
  <2>2. blocks \in Nat
    BY <1>1
  <2> QED
    BY <1>2, <1>3, <1>4, <2>1, <2>2 DEF Framing, Fresh
<1>7. CASE EndOfInput
  <2>1. pc = "stream" /\ pc' = "check" /\ ~(Chunk > 0) /\ blocks # 0
    BY <1>7 DEF EndOfInput, Emits
  <2>2. seen = call.yields /\ blocks >= 1
    BY <1>1, <2>1 DEF Chunk, AtEnd
  <2>3. seen <= blocks * Window
    BY <1>1, <2>1 DEF Windows
  <2> QED
    BY <1>2, <1>5, <1>6, <2>1, <2>2, <2>3 DEF Windows, Patched, Verdict
<1>8. CASE CheckSize
  <2>1. pc = "check" /\ pc' = (IF Mismatch THEN "mismatch" ELSE "patch_total")
    BY <1>8 DEF CheckSize
  <2>2. Windows'
    BY <1>2, <2>1 DEF Windows
  <2>3. seen = call.yields /\ seen <= maxFolderUncompressed
    <3>1. seen = call.yields /\ seen <= blocks * Window
      BY <2>1 DEF Windows
    <3>2. blocks * Window \in Nat /\ blocks * Window <= maxFolderUncompressed
      BY <1>1, Bounds
    <3> QED
      BY <1>1, <3>1, <3>2, Bounds
  <2>4. Patched' /\ Verdict'
    BY <1>2, <2>1, <2>3 DEF Patched, Verdict, Mismatch
  <2> QED
    BY <1>5, <1>6, <2>2, <2>4
<1> QED
  BY <1>7, <1>8

\* So does patching the two header fields.
LEMMA PatchIInv ==
  ASSUME IInv, PatchTotal \/ PatchBlocks
  PROVE  IInv'
<1> USE DEF IInv, Written, Stop
<1>1. UNCHANGED <<call, blocks, total, seen>> /\ pc' \in {"patch_blocks", "ok"}
  BY DEF PatchTotal, PatchBlocks
<1>2. /\ out \in Cabinet /\ total \in 0..(TotalMod - 1) /\ blocks \in 0..MaxBlocks
      /\ TotalMod \in Nat /\ CountMod \in Nat /\ MaxBlocks < CountMod /\ MaxBlocks \in Nat
  BY WidthAssumption, WindowAssumption DEF TypeOK
<1>3. total % TotalMod = total /\ blocks % CountMod = blocks
  BY <1>2, ModSmall
<1>4. /\ out'.frames = out.frames /\ out'.len = out.len /\ out'.cbFile = out.cbFile
      /\ out'.coffFiles = out.coffFiles /\ out'.coffCabStart = out.coffCabStart
      /\ out'.fileAt = out.fileAt /\ out' \in Cabinet
  <2>1. CASE PatchTotal
    BY <1>2, <1>3, <2>1 DEF PatchTotal, Cabinet
  <2>2. CASE PatchBlocks
    BY <1>2, <1>3, <2>2, blocks \in 0..(CountMod - 1) DEF PatchBlocks, Cabinet
  <2> QED
    BY <2>1, <2>2
<1>5. /\ UNCHANGED <<TooLarge, firstDataOffset>>
      /\ \A i \in Nat : Starts(i)' = Starts(i) /\ Offset(i)' = Offset(i)
  BY <1>1, <1>4 DEF TooLarge, firstDataOffset, Starts, Offset
<1>6. TypeOK'
  BY <1>1, <1>4 DEF TypeOK, Results
<1>7. Framing' /\ Fresh'
  <2>1. pc \in Written
    BY DEF PatchTotal, PatchBlocks
  <2>2. blocks \in Nat /\ \A i \in 1..blocks : i - 1 \in Nat
    BY <1>2
  <2> QED
    BY <1>1, <1>4, <1>5, <2>1, <2>2 DEF Framing, Fresh
<1>8. Windows'
  BY <1>1, <1>4 DEF Windows, PatchTotal, PatchBlocks
<1>9. Patched'
  <2>1. CASE PatchTotal
    BY <1>1, <1>2, <1>3, <2>1 DEF Patched, PatchTotal, Cabinet
  <2>2. CASE PatchBlocks
    BY <1>1, <1>2, <1>3, <2>2 DEF Patched, PatchBlocks, Cabinet
  <2> QED
    BY <2>1, <2>2
<1>10. Verdict'
  <2>1. pc \in {"patch_total", "patch_blocks"}
    BY DEF PatchTotal, PatchBlocks
  <2>2. call.declared <= maxFolderUncompressed
    <3>1. ~(call.declared > maxFolderUncompressed)
      BY <2>1 DEF Framing, TooLarge
    <3>2. call.declared \in Nat /\ maxFolderUncompressed \in Nat
      BY Bounds, InputAssumption DEF TypeOK, Call
    <3> QED
      BY <3>1, <3>2
  <2> QED
    BY <1>1, <2>1, <2>2 DEF Verdict, Framing, Windows, Patched
<1> QED
  BY <1>6, <1>7, <1>8, <1>9, <1>10

\* Every step of Write preserves the invariant.
LEMMA NextIInv == IInv /\ [Next]_vars => IInv'
<1> SUFFICES ASSUME IInv, [Next]_vars PROVE IInv'
  OBVIOUS
<1>1. CASE UNCHANGED vars
  BY <1>1 DEF vars, IInv, TypeOK, Fresh, Framing, Windows, Patched, Verdict,
              TooLarge, firstDataOffset, Starts, Offset
<1>2. CASE Next
  BY <1>2, StopIInv, WriteRecordsIInv, WriteBlockIInv, EndIInv, PatchIInv DEF Next
<1> QED
  BY <1>1, <1>2

\* A cabinet Write has returned nil for is what the invariant has built up.
LEMMA IInvWellFormed == IInv => WellFormed
<1> SUFFICES ASSUME IInv, pc = "ok" PROVE WellFormed
  BY DEF WellFormed
<1>1. /\ Len(out.frames) = blocks /\ blocks >= 1 /\ blocks \in Nat
      /\ out.cCFData = blocks /\ out.cbCabinet = out.len
      /\ out.cbFile = call.yields /\ Starts(blocks) = call.yields
      /\ out.coffFiles = out.fileAt /\ Offset(blocks) = out.len
  BY WindowAssumption DEF IInv, TypeOK, Framing, Windows, Patched, Written
<1>2. \A i \in 1..Len(out.frames) :
        /\ out.frames[i].at = Offset(i - 1)
        /\ out.frames[i].from = Starts(i - 1)
        /\ i < Len(out.frames) => out.frames[i].cbUncomp = Window
  BY <1>1 DEF IInv, Framing, Windows, Written
<1>3. /\ Len(out.frames) >= 1
      /\ out.cCFData = Len(out.frames)
      /\ Starts(Len(out.frames)) = call.yields
      /\ Offset(Len(out.frames)) = out.len
  BY <1>1
<1> QED
  BY <1>1, <1>2, <1>3 DEF WellFormed

\* The inductive invariant of the writer: blocks end to end, all but the last
\* full, and the counters right.
THEOREM WriterInvariant == Spec => []IInv
BY InitIInv, NextIInv, PTL DEF Spec

\* cab.Write (cab/writer.go:40-69): whatever the window, the name, the input and
\* the sizes its blocks deflate to, the fields of a cabinet it returns nil for lead
\* a reader to its file record, to every block and to the end, and none has wrapped.
THEOREM CabinetsWellFormed == Spec => []WellFormed
<1>1. IInv => WellFormed
  BY IInvWellFormed
<1> QED
  BY <1>1, WriterInvariant, PTL

\* cab.Write (cab/writer.go:18-30) returns nil for exactly the inputs that are as long
\* as declared and fit one folder, unless a read or a write fails, and each of its
\* errors says which of these it was.
THEOREM VerdictRight == Spec => []Verdict
<1>1. IInv => Verdict
  BY DEF IInv
<1> QED
  BY <1>1, WriterInvariant, PTL
=============================================================================

------------------------- MODULE FlashParamsProofs -------------------------
(***************************************************************************)
(* The parameters in flash survive a reset at any moment but those of an   *)
(* erase that does not end: what initFlash finds is one save or the        *)
(* defaults, for every number of words, every set of values, every number  *)
(* of retries and both builds.                                             *)
(***************************************************************************)
EXTENDS FlashParams, TLAPS

Images == {Blank} \cup {Image(p) : p \in Params}

Writes == [ pc : {"none", "erase", "program", "retry"}, i : 0 .. Last, tries : Nat,
            buf : Images, again : Images, new : Params ]

\* what can be in a word of the page
Cell(i) ==
  {Erased} \cup IF i = Last THEN {<<"main", s, m>> : s \in Byte, m \in Mode \cup {Default.mode, "garbled"}}
                ELSE {<<"name", n>> : n \in Name \cup {Default.name, "garbled"}}

FlashTypes ==
  /\ build \in {0, 4}
  /\ prog \in BOOLEAN /\ done \in BOOLEAN
  /\ sr \in {"ready", "busy", "error"} /\ page \in {"whole", "torn", "bad"}
  /\ flash = [i \in Words |-> flash[i]] /\ \A i \in Words : flash[i] \in Cell(i)
  /\ ram \in Params /\ kept \in Params
  /\ write \in Writes

\* the page with the first m words of p in it, and nothing behind them
Prefix(p, m) == [j \in Words |-> IF j <= m THEN Image(p)[j] ELSE Erased]

\* The page holds the first words of one save; m is how many.
PageOf(m) ==
  /\ flash = Prefix(kept, m)
  /\ done => m = Last
  /\ write.pc = "program" => m = write.i - 1
  /\ write.pc = "retry" => write.buf = Blank \/ m >= write.i - 1

SomePage == \E m \in 0 .. Last : PageOf(m)

\* What STMFLASH_Write has in its buffers.
BuffersOf ==
  /\ write.pc = "erase" => write.i = 1 /\ write.buf = Image(write.new)
  /\ write.pc \in {"erase", "program"} => write.again \in {Blank, Image(write.new)}
  /\ write.pc \in {"program", "retry"} =>
       kept = write.new /\ ~done /\ write.i \in Words
  /\ write.pc = "program" => write.buf = Image(kept)
  /\ write.pc = "retry" => write.buf \in {Blank, Image(kept)}

\* What the erase has done to the page.
EraseOf ==
  /\ sr # "ready" => write.pc = "program" /\ write.i = 1 /\ page # "whole"
  /\ sr = "busy" => page = "torn"
  /\ page = "torn" => ~done /\ (write.pc \in {"program", "retry"} => sr = "busy")
  /\ page = "whole" => SomePage

FlashInv == FlashTypes /\ (sr = "busy" => prog) /\ (prog => BuffersOf /\ EraseOf)
-----------------------------------------------------------------------------
LEMMA LastFacts == Last \in Nat /\ Last >= 2 /\ Last = NameWords + 1 /\ NameWords \in Nat /\ 1 \in Words /\ Last \in Words
BY FlashAssumption DEF Last, Words

\* A word of a save is not erased.
LEMMA ImageWords ==
  ASSUME NEW p \in Params
  PROVE  /\ \A i \in Words : Image(p)[i] # Erased
         /\ \A i \in 1 .. NameWords : Image(p)[i] = <<"name", p.name>>
         /\ Image(p)[Last] = <<"main", p.speed, p.mode>>
         /\ \A i \in 1 .. NameWords : i \in Words
<1>1. <<"name", p.name>> # Erased /\ <<"main", p.speed, p.mode>> # Erased
  BY DEF Erased
<1>2. \A i \in Words : Image(p)[i] = IF i = Last THEN <<"main", p.speed, p.mode>>
                                             ELSE <<"name", p.name>>
  BY DEF Image
<1>3. Last \in Words /\ \A i \in 1 .. NameWords : i \in Words /\ i # Last
  BY LastFacts DEF Words
<1> QED BY <1>1, <1>2, <1>3

\* What a reset makes of a page with the first m words of a save in it: all
\* of the save, or nothing, because the word with qMaxSpeed is the last one.
LEMMA ReadPrefix ==
  ASSUME NEW p \in Params, NEW m \in 0 .. Last
  PROVE  initFlash(ReadStruct(Prefix(p, m))) = IF m = Last THEN Stored(p) ELSE Default
<1> DEFINE f == Prefix(p, m)
           q == [p EXCEPT !.tail = Zero]
<1>1. CASE m = Last
  <2>1. \A j \in Words : f[j] = Image(p)[j]
    BY <1>1, LastFacts DEF Prefix, Words
  <2>2. /\ \A i \in 1 .. NameWords : f[i] = <<"name", p.name>>
        /\ f[1] = <<"name", p.name>>
        /\ f[Last] = <<"main", p.speed, p.mode>>
        /\ f[1] # Erased
        /\ f[Last] # Erased
    BY <2>1, ImageWords, LastFacts
  <2> HIDE DEF f
  <2>3. ReadStruct(f) = [name |-> p.name, speed |-> p.speed, mode |-> p.mode, tail |-> Zero]
    BY <2>2 DEF ReadStruct
  <2>4. q = [name |-> p.name, speed |-> p.speed, mode |-> p.mode, tail |-> Zero]
    BY DEF Params
  <2> QED BY <1>1, <2>3, <2>4 DEF Stored, f
<1>2. CASE m # Last
  <2>1. f[Last] = Erased
    BY <1>2, LastFacts DEF Prefix
  <2> HIDE DEF f
  <2>2. ReadStruct(f).speed = 255
    BY <2>1 DEF ReadStruct
  <2> QED BY <1>2, <2>2 DEF initFlash, f
<1> QED BY <1>1, <1>2

LEMMA DefaultIn == Default \in Params
BY DEF Params, Byte, Default

LEMMA QuietIn == Quiet \in Writes /\ Quiet.pc = "none"
<1>1. Default \in Params
  BY DefaultIn
<1>2. Blank \in Images /\ 0 \in 0 .. Last
  BY LastFacts DEF Images
<1> QED BY <1>1, <1>2 DEF Quiet, Writes

LEMMA PrefixEnds ==
  ASSUME NEW p \in Params
  PROVE  /\ Prefix(p, 0) = Blank
         /\ Prefix(p, Last) = Image(p)
         /\ \A m \in 0 .. Last : Prefix(p, m) = Blank => m = 0
<1>1. Prefix(p, 0) = Blank
  BY LastFacts DEF Prefix, Blank, Words
<1>2. Prefix(p, Last) = Image(p)
  <2>1. Prefix(p, Last) = [j \in Words |-> Image(p)[j]]
    BY LastFacts DEF Prefix, Words
  <2> QED BY <2>1 DEF Image
<1>3. ASSUME NEW m \in 0 .. Last, m # 0 PROVE Prefix(p, m) # Blank
  <2>1. Prefix(p, m)[1] = Image(p)[1] /\ Image(p)[1] # Erased /\ Blank[1] = Erased
    BY <1>3, LastFacts, ImageWords DEF Prefix, Blank
  <2> QED BY <2>1
<1> QED BY <1>1, <1>2, <1>3

\* Programming the next word of a save, or one that is there already.
LEMMA ProgramPrefix ==
  ASSUME NEW p \in Params, NEW m \in 0 .. Last, NEW i \in Words
  PROVE  /\ Programmed(i, Prefix(p, m)[i], Blank[i]) = {Prefix(p, m)[i]}
         /\ [Prefix(p, m) EXCEPT ![i] = Prefix(p, m)[i]] = Prefix(p, m)
         /\ i <= m => Programmed(i, Prefix(p, m)[i], Image(p)[i]) = {Prefix(p, m)[i]}
         /\ i = m + 1 =>
              /\ Programmed(i, Prefix(p, m)[i], Image(p)[i]) = {Image(p)[i]}
              /\ [Prefix(p, m) EXCEPT ![i] = Image(p)[i]] = Prefix(p, m + 1)
<1> DEFINE f == Prefix(p, m)
<1>1. \A j \in Words : f[j] = IF j <= m THEN Image(p)[j] ELSE Erased
  BY DEF Prefix
<1>2. f = [j \in Words |-> f[j]]
  BY DEF Prefix
<1>3. Blank[i] = Erased /\ Image(p)[i] # Erased
  BY ImageWords DEF Blank
<1>4. Programmed(i, f[i], Erased) = {f[i]}
  BY DEF Programmed
<1>5. i <= m => Programmed(i, f[i], Image(p)[i]) = {f[i]}
  BY <1>1 DEF Programmed
<1>6. i = m + 1 => Programmed(i, f[i], Image(p)[i]) = {Image(p)[i]}
  BY <1>1, LastFacts DEF Programmed, Words
<1>7. ASSUME i = m + 1 PROVE [f EXCEPT ![i] = Image(p)[i]] = Prefix(p, m + 1)
  <2> DEFINE g == [f EXCEPT ![i] = Image(p)[i]]
  <2>1. g = [j \in Words |-> IF j = i THEN Image(p)[i] ELSE f[j]]
    BY <1>2
  <2>2. \A j \in Words :
          (IF j = i THEN Image(p)[i] ELSE f[j]) = (IF j <= m + 1 THEN Image(p)[j] ELSE Erased)
    BY <1>1, <1>7, LastFacts DEF Words
  <2> QED BY <2>1, <2>2 DEF Prefix
<1>8. [f EXCEPT ![i] = f[i]] = f
  BY <1>2
<1> QED BY <1>3, <1>4, <1>5, <1>6, <1>7, <1>8
-----------------------------------------------------------------------------
\* Every page can be read.
LEMMA ReadPage ==
  ASSUME NEW f, f[1] \in Cell(1), f[Last] \in Cell(Last)
  PROVE  initFlash(ReadStruct(f)) \in Params
<1>0. 1 # Last /\ 255 \in Byte
  BY LastFacts DEF Byte
<1>1. f[1] # Erased => f[1][2] \in Name \cup {Default.name, "garbled"}
  BY <1>0 DEF Cell
<1>2. f[Last] # Erased => /\ f[Last][2] \in Byte
                          /\ f[Last][3] \in Mode \cup {Default.mode, "garbled"}
  BY DEF Cell
<1>3. ReadStruct(f) \in Params
  BY <1>0, <1>1, <1>2 DEF ReadStruct, Params
<1> QED BY <1>3, DefaultIn DEF initFlash

\* The words that programming and erasing leave are words of a page.
LEMMA CellFacts ==
  /\ Blank = [i \in Words |-> Blank[i]]
  /\ \A i \in Words : /\ Blank[i] \in Cell(i)
                      /\ \A p \in Params : Image(p)[i] \in Cell(i)
                      /\ \A s \in Byte : Garbled(i, s) \in Cell(i)
<1>1. ASSUME NEW i \in Words, NEW p \in Params PROVE Image(p)[i] \in Cell(i)
  BY DEF Image, Cell, Params
<1>2. ASSUME NEW i \in Words, NEW s \in Byte PROVE Garbled(i, s) \in Cell(i)
  BY DEF Garbled, Cell
<1>3. ASSUME NEW i \in Words PROVE Blank[i] \in Cell(i)
  BY DEF Blank, Cell
<1> QED BY <1>1, <1>2, <1>3 DEF Blank

\* What a cut off or failed erase leaves has the type of a page.
LEMMA UnfinishedTypes ==
  ASSUME FlashTypes, Unfinished
  PROVE  /\ prog' \in BOOLEAN
         /\ flash' = [i \in Words |-> flash'[i]] /\ \A i \in Words : flash'[i] \in Cell(i)
<1>1. CASE ErasedSector = DataSector
  <2>1. prog' \in BOOLEAN
    BY <1>1 DEF Unfinished, FlashTypes
  <2>2. PICK h \in [Words -> {"old", "erased", "garbled"}], s \in Byte :
          flash' = [i \in Words |-> CASE h[i] = "old"     -> flash[i]
                                       [] h[i] = "erased"  -> Erased
                                       [] h[i] = "garbled" -> Garbled(i, s)]
    BY <1>1 DEF Unfinished
  <2>3. ASSUME NEW i \in Words PROVE flash'[i] \in Cell(i)
    <3>1. h[i] \in {"old", "erased", "garbled"}
      OBVIOUS
    <3>2. flash'[i] \in {flash[i], Erased, Garbled(i, s)}
      BY <2>2, <3>1
    <3>3. flash[i] \in Cell(i) /\ Erased \in Cell(i) /\ Garbled(i, s) \in Cell(i)
      BY CellFacts DEF FlashTypes, Cell
    <3> QED BY <3>2, <3>3
  <2> QED BY <2>1, <2>2, <2>3
<1>2. CASE ErasedSector # DataSector
  BY <1>2 DEF Unfinished, FlashTypes
<1> QED BY <1>1, <1>2

LEMMA FlashInit == Init => FlashInv
<1> SUFFICES ASSUME Init PROVE FlashInv
  OBVIOUS
<1>1. Default \in Params
  BY DefaultIn
<1>2. Blank \in Images
  BY DEF Images
<1>3. write \in Writes /\ write.pc = "none"
  BY <1>1, <1>2, LastFacts DEF Init, Quiet, Writes
<1>4. FlashTypes
  BY <1>1, <1>3, CellFacts, FlashAssumption DEF Init, FlashTypes
<1>5. BuffersOf
  BY <1>3 DEF BuffersOf
<1>6. PageOf(0)
  BY <1>1, <1>3, PrefixEnds DEF PageOf, Init
<1>7. SomePage
  BY <1>6, LastFacts DEF SomePage
<1>8. EraseOf
  BY <1>7 DEF EraseOf, Init
<1>9. sr # "busy"
  BY DEF Init
<1> QED BY <1>4, <1>5, <1>8, <1>9 DEF FlashInv

\* FLASH_CR has the number of the data sector, or of the first one.
LEMMA EraseWhich ==
  ASSUME build \in {0, 4}
  PROVE  ErasedSector = build
<1>1. GetPage(FLASH_DATA_ADDRESS) = 52
  BY DEF GetPage, FLASH_DATA_ADDRESS, FLASH_BASE, STM_SECTOR_SIZE
<1> QED BY <1>1 DEF ErasedSector, FLASH_BASE

LEMMA ImageIn == ASSUME NEW p \in Params PROVE Image(p) \in Images
BY DEF Images

\* the start of a save
LEMMA CommandInv ==
  ASSUME FlashInv, NEW p \in Params, Command(p)
  PROVE  FlashInv'
<1>0. /\ FlashTypes /\ prog /\ BuffersOf /\ EraseOf
      /\ sr = "ready" /\ UNCHANGED <<build, prog, sr, flash>>
  BY DEF FlashInv, Command, EraseOf, FlashTypes
<1>2. /\ write' \in Writes
      /\ write'.i = 1 /\ write'.buf = Image(p) /\ write'.new = p
      /\ write'.pc = IF flash = Blank THEN "program" ELSE "erase"
      /\ write'.again = IF flash = Blank THEN Blank ELSE Image(p)
  <2>1. Image(p) \in Images /\ Blank \in Images /\ 1 \in 0 .. Last
    BY ImageIn, LastFacts DEF Images
  <2> QED BY <2>1 DEF Command, Save, Quiet, Writes
<1>3. FlashTypes'
  BY <1>0, <1>2 DEF FlashTypes, Command
<1>4. CASE flash = Blank
  <2>1. kept' = p /\ done' = FALSE /\ page' = "whole" /\ flash' = Prefix(p, 0)
    BY <1>0, <1>4, PrefixEnds DEF Command
  <2>2. BuffersOf'
    BY <1>2, <1>4, <2>1, LastFacts DEF BuffersOf
  <2>3. PageOf(0)'
    BY <1>2, <1>4, <2>1 DEF PageOf
  <2>5. SomePage'
    BY <2>3, LastFacts DEF SomePage
  <2>4. EraseOf'
    BY <1>0, <2>1, <2>5 DEF EraseOf
  <2> QED BY <1>0, <1>3, <2>2, <2>4 DEF FlashInv
<1>5. CASE flash # Blank
  <2>1. kept' = kept /\ done' = done /\ page' = page
    BY <1>5 DEF Command
  <2>2. BuffersOf'
    BY <1>2, <1>5 DEF BuffersOf
  <2>3. ASSUME NEW m \in 0 .. Last, PageOf(m) PROVE PageOf(m)'
    BY <1>0, <1>2, <1>5, <2>1, <2>3 DEF PageOf
  <2>5. SomePage => SomePage'
    BY <2>3 DEF SomePage
  <2>4. EraseOf'
    BY <1>0, <1>2, <1>5, <2>1, <2>5 DEF EraseOf
  <2> QED BY <1>0, <1>3, <2>2, <2>4 DEF FlashInv
<1> QED BY <1>4, <1>5

\* the start of the erase
LEMMA EraseInv ==
  ASSUME FlashInv, FLASH_Erase_Sector
  PROVE  FlashInv'
<1>0. FlashTypes /\ prog /\ BuffersOf /\ write.pc = "erase"
  BY DEF FlashInv, FLASH_Erase_Sector
<1>1. /\ write' \in Writes
      /\ write'.i = 1 /\ write'.buf = Image(write.new) /\ write'.new = write.new
      /\ write'.pc = "program" /\ write'.again = write.again
  BY <1>0 DEF FlashTypes, Writes, FLASH_Erase_Sector, BuffersOf
<1>2. /\ kept' = write.new /\ done' = FALSE /\ page' = "torn" /\ sr' = "busy"
      /\ UNCHANGED <<build, prog, ram, flash>> /\ write.new \in Params
  BY <1>0 DEF FLASH_Erase_Sector, FlashTypes, Writes
<1>3. FlashTypes'
  BY <1>0, <1>1, <1>2 DEF FlashTypes
<1>5. BuffersOf'
  BY <1>0, <1>1, <1>2, LastFacts DEF BuffersOf
<1>6. EraseOf'
  BY <1>1, <1>2 DEF EraseOf
<1> QED BY <1>0, <1>2, <1>3, <1>5, <1>6 DEF FlashInv

\* The erase ends: the page is empty, or the program is gone.
LEMMA EraseDoneInv ==
  ASSUME FlashInv, EraseDone
  PROVE  FlashInv'
<1>0. /\ FlashTypes /\ ErasedSector = build /\ build \in {0, 4} /\ prog /\ sr' = "ready"
      /\ prog' \in BOOLEAN /\ UNCHANGED <<build, ram, write, kept, done>>
  BY EraseWhich DEF FlashInv, EraseDone, FlashTypes
<1>1. CASE build = DataSector
  <2>1. flash' = Blank /\ page' = "whole"
    BY <1>0, <1>1 DEF EraseDone
  <2>2. FlashTypes'
    BY <1>0, <2>1, CellFacts DEF FlashTypes
  <2>3. BuffersOf' /\ EraseOf'
    <3>1. BuffersOf /\ EraseOf /\ ~done /\ write.pc = "program" /\ write.i = 1
      BY <1>0 DEF FlashInv, EraseOf, EraseDone
    <3>2. BuffersOf'
      BY <1>0, <3>1 DEF BuffersOf
    <3>5. flash' = Prefix(kept', 0)
      BY <1>0, <2>1, PrefixEnds DEF FlashTypes
    <3>6. ~done' /\ write'.pc = "program" /\ write'.i = 1
      BY <1>0, <3>1
    <3>3. PageOf(0)'
      BY <3>5, <3>6 DEF PageOf
    <3>4. SomePage'
      BY <3>3, LastFacts DEF SomePage
    <3> QED BY <1>0, <2>1, <3>1, <3>2, <3>4 DEF EraseOf
  <2> QED BY <1>0, <2>2, <2>3 DEF FlashInv
<1>2. CASE build # DataSector
  <2>1. ~prog' /\ UNCHANGED <<flash, page>>
    BY <1>0, <1>2 DEF EraseDone, ProgramSector, DataSector
  <2> QED BY <1>0, <2>1 DEF FlashInv, FlashTypes
<1> QED BY <1>1, <1>2

\* The erase fails: nothing is known of the page.
LEMMA EraseFailsInv ==
  ASSUME FlashInv, EraseFails
  PROVE  FlashInv'
<1>0. /\ FlashTypes /\ sr = "busy" /\ sr' = "error" /\ page' = "bad"
      /\ UNCHANGED <<build, ram, write, kept, done>>
  BY DEF FlashInv, EraseFails
<1>1. FlashTypes'
  BY <1>0, UnfinishedTypes DEF FlashTypes, EraseFails
<1>2. BuffersOf /\ write.pc = "program" /\ write.i = 1
  BY <1>0 DEF FlashInv, EraseOf
<1>3. BuffersOf' /\ EraseOf'
  BY <1>0, <1>2 DEF BuffersOf, EraseOf
<1> QED BY <1>0, <1>1, <1>3 DEF FlashInv

\* What programming a word leaves has the type of a page, and is the next word
\* of the save, or one that was there.
LEMMA ProgramPage ==
  ASSUME FlashInv, Program
  PROVE  /\ flash' = [i \in Words |-> flash'[i]] /\ \A i \in Words : flash'[i] \in Cell(i)
         /\ \A m \in 0 .. Last : PageOf(m) =>
              \E n \in 0 .. Last :
                /\ flash' = Prefix(kept, n)
                /\ write.pc = "program" => n = write.i
                /\ write.pc = "retry" => write.buf = Blank \/ n >= write.i
<1>0. /\ FlashTypes /\ prog /\ BuffersOf /\ write.pc \in {"program", "retry"}
      /\ write.i \in Words /\ kept \in Params /\ Word(write.i) = write.i
  BY DEF FlashInv, Program, BuffersOf, FlashTypes, Word
<1>1. PICK w \in Programmed(write.i, flash[write.i], write.buf[write.i]) :
        flash' = [flash EXCEPT ![write.i] = w]
  BY <1>0 DEF Program
<1>2. write.buf = Blank \/ write.buf = Image(kept)
  BY <1>0 DEF BuffersOf
<1>3. w \in Cell(write.i)
  <2>1. w \in {flash[write.i], write.buf[write.i]} \cup {Garbled(write.i, s) : s \in Byte}
    BY DEF Programmed
  <2>2. flash[write.i] \in Cell(write.i) /\ write.buf[write.i] \in Cell(write.i)
    BY <1>0, <1>2, CellFacts DEF FlashTypes
  <2> QED BY <1>0, <2>1, <2>2, CellFacts
<1>4. /\ flash' = [i \in Words |-> flash'[i]]
      /\ \A i \in Words : flash'[i] = IF i = write.i THEN w ELSE flash[i]
  <2>1. flash = [i \in Words |-> flash[i]]
    BY <1>0 DEF FlashTypes
  <2> QED BY <1>1, <2>1
<1>5. ASSUME NEW m \in 0 .. Last, PageOf(m)
      PROVE  \E n \in 0 .. Last :
                /\ flash' = Prefix(kept, n)
                /\ write.pc = "program" => n = write.i
                /\ write.pc = "retry" => write.buf = Blank \/ n >= write.i
  <2>0. flash = Prefix(kept, m)
    BY <1>5 DEF PageOf
  <2> DEFINE f == Prefix(kept, m)
  <2>5. flash' = [f EXCEPT ![write.i] = w] /\ w \in Programmed(write.i, f[write.i], write.buf[write.i])
    BY <1>1, <2>0
  <2>6. /\ Programmed(write.i, f[write.i], Blank[write.i]) = {f[write.i]}
        /\ [f EXCEPT ![write.i] = f[write.i]] = f
        /\ write.i <= m => Programmed(write.i, f[write.i], Image(kept)[write.i]) = {f[write.i]}
        /\ write.i = m + 1 =>
             /\ Programmed(write.i, f[write.i], Image(kept)[write.i]) = {Image(kept)[write.i]}
             /\ [f EXCEPT ![write.i] = Image(kept)[write.i]] = Prefix(kept, m + 1)
    BY <1>0, ProgramPrefix
  <2> HIDE DEF f
  <2>1. CASE write.buf = Blank /\ write.pc = "retry"
    <3>1. flash' = Prefix(kept, m)
      BY <2>1, <2>5, <2>6 DEF f
    <3> QED BY <2>1, <3>1
  <2>2. CASE write.buf = Image(kept) /\ write.i <= m
    <3>1. flash' = Prefix(kept, m)
      BY <2>2, <2>5, <2>6 DEF f
    <3>2. write.pc = "retry"
      BY <1>0, <1>5, <2>2, LastFacts DEF PageOf, Words
    <3> QED BY <3>1, <3>2, <2>2
  <2>3. CASE write.buf = Image(kept) /\ write.i = m + 1
    <3>1. flash' = Prefix(kept, m + 1)
      BY <2>3, <2>5, <2>6
    <3>2. m + 1 \in 0 .. Last
      BY <1>0, <2>3, LastFacts DEF Words
    <3> QED BY <3>1, <3>2, <2>3
  <2>4. /\ write.pc = "program" => write.buf = Image(kept) /\ write.i = m + 1
        /\ write.pc = "retry" => \/ write.buf = Blank
                                 \/ write.buf = Image(kept) /\ (write.i <= m \/ write.i = m + 1)
    BY <1>0, <1>5, LastFacts DEF PageOf, BuffersOf, Words
  <2> QED BY <1>0, <2>1, <2>2, <2>3, <2>4
<1> QED BY <1>0, <1>3, <1>4, <1>5 DEF FlashTypes

\* a word is programmed
LEMMA ProgramInv ==
  ASSUME FlashInv, Program
  PROVE  FlashInv'
<1>0. /\ FlashTypes /\ prog /\ BuffersOf /\ EraseOf /\ write.pc \in {"program", "retry"}
      /\ write.i \in Words /\ kept \in Params /\ ~done /\ kept = write.new
      /\ sr = "ready" /\ page # "torn"
  BY DEF FlashInv, Program, BuffersOf, FlashTypes, EraseOf
<1>2. UNCHANGED <<build, prog, sr, ram, kept, page>>
  BY DEF Program
<1>3. flash' = [i \in Words |-> flash'[i]] /\ \A i \in Words : flash'[i] \in Cell(i)
  BY ProgramPage
<1>4. page = "whole" =>
        \E n \in 0 .. Last : /\ flash' = Prefix(kept, n)
                             /\ write.pc = "program" => n = write.i
                             /\ write.pc = "retry" => write.buf = Blank \/ n >= write.i
  BY <1>0, ProgramPage DEF EraseOf, SomePage
<1>5. CASE write.i < Last
  <2>1. /\ write' = [write EXCEPT !.i = @ + 1, !.tries = 0] /\ done' = done
    BY <1>5 DEF Program
  <2>2. /\ write' \in Writes
        /\ write'.i = write.i + 1 /\ write'.i \in Words
        /\ write'.pc = write.pc /\ write'.buf = write.buf /\ write'.again = write.again
        /\ write'.new = write.new
    <3>1. write \in Writes /\ write.i + 1 \in 0 .. Last /\ write.i + 1 \in Words
      BY <1>0, <1>5, LastFacts DEF FlashTypes, Words
    <3> QED BY <2>1, <3>1 DEF Writes
  <2>3. FlashTypes'
    BY <1>0, <1>2, <1>3, <2>1, <2>2 DEF FlashTypes
  <2>4. BuffersOf'
    BY <1>0, <1>2, <2>1, <2>2 DEF BuffersOf
  <2>5. ASSUME page = "whole" PROVE SomePage'
    <3>1. PICK n \in 0 .. Last : /\ flash' = Prefix(kept, n)
                                 /\ write.pc = "program" => n = write.i
                                 /\ write.pc = "retry" => write.buf = Blank \/ n >= write.i
      BY <1>4, <2>5
    <3>3. flash' = Prefix(kept', n) /\ ~done'
      BY <1>0, <1>2, <2>1, <3>1
    <3>4. /\ write'.pc = "program" => n = write'.i - 1
          /\ write'.pc = "retry" => write'.buf = Blank \/ n >= write'.i - 1
      BY <1>0, <2>2, <3>1, LastFacts DEF Words
    <3>2. PageOf(n)'
      BY <3>3, <3>4 DEF PageOf
    <3> QED BY <3>2 DEF SomePage
  <2>6. EraseOf'
    BY <1>0, <1>2, <2>1, <2>5 DEF EraseOf
  <2> QED BY <1>0, <1>2, <2>3, <2>4, <2>6 DEF FlashInv
<1>6. CASE ~(write.i < Last)
  <2>1. done' = (write.pc = "program") /\ write' = Quiet
    BY <1>6 DEF Program, Finished
  <2>2. write' \in Writes /\ write'.pc = "none"
    BY <2>1, QuietIn
  <2>3. FlashTypes'
    <3>1. done' \in BOOLEAN
      BY <2>1
    <3> QED BY <1>0, <1>2, <1>3, <2>2, <3>1 DEF FlashTypes
  <2>4. BuffersOf'
    BY <2>2 DEF BuffersOf
  <2>5. ASSUME NEW n \in 0 .. Last, write.pc = "program" => n = write.i
        PROVE  done' => n = Last
    <3>1. write.i = Last
      BY <1>0, <1>6, LastFacts DEF Words
    <3>2. done' => write.pc = "program"
      BY <2>1, Zenon
    <3> QED BY <2>5, <3>1, <3>2
  <2>6. ASSUME page = "whole" PROVE SomePage'
    <3>1. PICK n \in 0 .. Last : flash' = Prefix(kept, n) /\ (write.pc = "program" => n = write.i)
      BY <1>4, <2>6
    <3>3. flash' = Prefix(kept', n) /\ (done' => n = Last)
      BY <1>2, <2>5, <3>1
    <3>2. PageOf(n)'
      BY <2>2, <3>3 DEF PageOf
    <3> QED BY <3>2 DEF SomePage
  <2>7. EraseOf'
    BY <1>0, <1>2, <2>2, <2>6 DEF EraseOf
  <2> QED BY <1>0, <1>2, <2>3, <2>4, <2>7 DEF FlashInv
<1> QED BY <1>5, <1>6

\* a word fails
LEMMA ErrorInv ==
  ASSUME FlashInv, ProgramError
  PROVE  FlashInv'
<1>0. /\ FlashTypes /\ prog /\ BuffersOf /\ EraseOf /\ write.pc \in {"program", "retry"}
      /\ kept = write.new /\ ~done /\ page # "torn"
  BY DEF FlashInv, ProgramError, BuffersOf, EraseOf, FlashTypes
<1>2. UNCHANGED <<build, prog, ram, flash, kept, page>> /\ done' = done /\ sr' = "ready"
  BY DEF ProgramError, GiveUp
<1>3. \/ write' = [write EXCEPT !.tries = @ + 1]
      \/ write.pc = "retry" /\ write' = Quiet
      \/ /\ write.pc = "program"
         /\ write' = [write EXCEPT !.pc = "retry", !.i = 1, !.tries = 0, !.buf = write.again]
  BY <1>0 DEF ProgramError, GiveUp
<1>4. CASE write' = [write EXCEPT !.tries = @ + 1]
  <2>1. /\ write' \in Writes
        /\ write'.i = write.i /\ write'.pc = write.pc /\ write'.buf = write.buf
        /\ write'.again = write.again /\ write'.new = write.new
    BY <1>0, <1>4 DEF Writes, FlashTypes
  <2>2. FlashTypes' /\ BuffersOf'
    BY <1>0, <1>2, <2>1 DEF FlashTypes, BuffersOf
  <2>3. ASSUME NEW m \in 0 .. Last, PageOf(m) PROVE PageOf(m)'
    BY <1>0, <1>2, <2>1, <2>3 DEF PageOf
  <2>4. SomePage => SomePage'
    BY <2>3 DEF SomePage
  <2> QED BY <1>0, <1>2, <2>1, <2>2, <2>4 DEF FlashInv, EraseOf
<1>5. CASE write' = Quiet
  <2>1. write' \in Writes /\ write'.pc = "none"
    BY <1>5, QuietIn
  <2>2. FlashTypes' /\ BuffersOf'
    BY <1>0, <1>2, <2>1 DEF FlashTypes, BuffersOf
  <2>3. ASSUME NEW m \in 0 .. Last, PageOf(m) PROVE PageOf(m)'
    BY <1>0, <1>2, <2>1, <2>3 DEF PageOf
  <2>4. SomePage => SomePage'
    BY <2>3 DEF SomePage
  <2> QED BY <1>0, <1>2, <2>1, <2>2, <2>4 DEF FlashInv, EraseOf
<1>6. CASE /\ write.pc = "program"
           /\ write' = [write EXCEPT !.pc = "retry", !.i = 1, !.tries = 0, !.buf = write.again]
  <2>1. /\ write' \in Writes
        /\ write'.i = 1 /\ write'.pc = "retry" /\ write'.buf = write.again
        /\ write'.again = write.again /\ write'.new = write.new
    <3>1. write \in Writes /\ 1 \in 0 .. Last
      BY <1>0, LastFacts DEF FlashTypes
    <3> QED BY <1>6, <3>1 DEF Writes
  <2>2. FlashTypes'
    BY <1>0, <1>2, <2>1 DEF FlashTypes
  <2>3. BuffersOf'
    BY <1>0, <1>2, <1>6, <2>1, LastFacts DEF BuffersOf
  <2>4. ASSUME NEW m \in 0 .. Last, PageOf(m) PROVE PageOf(m)'
    BY <1>0, <1>2, <2>1, <2>4, LastFacts DEF PageOf
  <2>5. SomePage => SomePage'
    BY <2>4 DEF SomePage
  <2> QED BY <1>0, <1>2, <2>1, <2>2, <2>3, <2>5 DEF FlashInv, EraseOf
<1> QED BY <1>3, <1>4, <1>5, <1>6

\* What a reset finds.
LEMMA AfterResetIs ==
  ASSUME FlashInv, prog, page = "whole"
  PROVE  /\ AfterReset \in {Default, Stored(kept)}
         /\ done => AfterReset = Stored(kept)
<1>1. PICK m \in 0 .. Last : PageOf(m)
  BY DEF FlashInv, EraseOf, SomePage
<1>2. AfterReset = initFlash(ReadStruct(Prefix(kept, m)))
  BY <1>1 DEF PageOf, AfterReset
<1>3. AfterReset = IF m = Last THEN Stored(kept) ELSE Default
  BY <1>2, ReadPrefix DEF FlashInv, FlashTypes
<1> QED BY <1>1, <1>3 DEF PageOf

\* A reset during an erase leaves a torn page, any other reset the page as it was.
LEMMA ResetInv ==
  ASSUME FlashInv, Reset
  PROVE  FlashInv'
<1>0. FlashTypes /\ UNCHANGED <<build, kept, done, page>> /\ sr' = "ready"
  BY DEF FlashInv, Reset
<1>1. /\ prog' \in BOOLEAN
      /\ flash' = [i \in Words |-> flash'[i]] /\ \A i \in Words : flash'[i] \in Cell(i)
  BY <1>0, UnfinishedTypes DEF Reset, FlashTypes
<1>2. (prog' => prog) /\ (sr # "busy" => flash' = flash)
  BY DEF Reset, FlashInv
<1>3. CASE prog'
  <2>1. write' \in Writes /\ write'.pc = "none"
    <3>1. write' = Quiet
      BY <1>3 DEF Reset
    <3> QED BY <3>1, QuietIn
  <2>2. ram' \in Params
    <3>1. ram' = AfterReset'
      BY <1>3 DEF Reset
    <3>2. AfterReset' \in Params
      <4>1. flash'[1] \in Cell(1) /\ flash'[Last] \in Cell(Last)
        BY <1>1, LastFacts
      <4> QED BY <4>1, ReadPage DEF AfterReset
    <3> QED BY <3>1, <3>2
  <2>3. FlashTypes' /\ BuffersOf'
    BY <1>0, <1>1, <2>1, <2>2 DEF FlashTypes, BuffersOf
  <2>4. EraseOf /\ prog
    BY <1>2, <1>3 DEF FlashInv
  <2>5. ASSUME NEW m \in 0 .. Last, PageOf(m), page = "whole" PROVE PageOf(m)'
    BY <1>0, <1>2, <2>1, <2>4, <2>5 DEF PageOf, EraseOf
  <2>6. EraseOf'
    <3>1. page = "whole" => (SomePage => SomePage')
      BY <2>5 DEF SomePage
    <3> QED BY <1>0, <2>1, <2>4, <3>1 DEF EraseOf
  <2> QED BY <1>0, <2>3, <2>6 DEF FlashInv
<1>4. CASE ~prog'
  <2>1. UNCHANGED <<ram, write>>
    BY <1>4 DEF Reset
  <2> QED BY <1>0, <1>1, <1>4, <2>1 DEF FlashInv, FlashTypes
<1> QED BY <1>3, <1>4

LEMMA FlashStep == FlashInv /\ [Next]_vars => FlashInv'
<1> SUFFICES ASSUME FlashInv, [Next]_vars PROVE FlashInv'
  OBVIOUS
<1>0. ram \in Params
  BY DEF FlashInv, FlashTypes
<1>1. CASE getCmdData
  <2>1. PICK p \in Params : Command(p)
    <3>1. \A m \in Mode : [ram EXCEPT !.mode = m] \in Params
      BY <1>0 DEF Params
    <3>2. \A t \in Tail : [ram EXCEPT !.tail = t] \in Params
      BY <1>0 DEF Params
    <3>3. \A s \in Speed : [ram EXCEPT !.speed = s] \in Params
      BY <1>0 DEF Params, Byte
    <3>4. \A m \in Mode, t \in Tail : [ram EXCEPT !.mode = m, !.tail = t] \in Params
      BY <1>0 DEF Params
    <3> QED BY <1>0, <1>1, <3>1, <3>2, <3>3, <3>4 DEF getCmdData
  <2> QED BY <2>1, CommandInv
<1>2. CASE ccid
  <2>1. ram' \in Params /\ UNCHANGED <<build, prog, sr, flash, write, kept, done, page>>
    BY <1>0, <1>2 DEF ccid, Params
  <2> QED BY <2>1 DEF FlashInv, FlashTypes, BuffersOf, EraseOf, SomePage, PageOf
<1>3. CASE FLASH_Erase_Sector
  BY <1>3, EraseInv
<1>8. CASE EraseDone
  BY <1>8, EraseDoneInv
<1>9. CASE EraseFails
  BY <1>9, EraseFailsInv
<1>4. CASE Program
  BY <1>4, ProgramInv
<1>5. CASE ProgramError
  BY <1>5, ErrorInv
<1>6. CASE Reset
  BY <1>6, ResetInv
<1>7. CASE UNCHANGED vars
  BY <1>7 DEF vars, FlashInv, FlashTypes, BuffersOf, EraseOf, SomePage, PageOf
<1> QED BY <1>1, <1>2, <1>3, <1>4, <1>5, <1>6, <1>7, <1>8, <1>9 DEF Next

\* A page whose erase ended, or which needed none, holds the first words of one
\* save, in order, and the call of STMFLASH_Write in progress knows how many; while
\* an erase runs, and after one that a reset cut off, nothing is reported as saved.
THEOREM FlashInvariance == Spec => []FlashInv
<1> QED BY FlashInit, FlashStep, PTL DEF Spec

\* Unless its erase was cut off or failed, initFlash finds in the page all the
\* parameters of one save or none of any, wherever between two words the reset
\* comes and whichever words failed.
THEOREM SaveIsAtomic == Spec => []OneSaveOrDefault
<1>1. FlashInv => OneSaveOrDefault
  BY AfterResetIs DEF OneSaveOrDefault, FlashInv, FlashTypes
<1> QED BY <1>1, FlashInvariance, PTL

\* What "flash write success" was printed for, over a page whose erase did not
\* fail, is there after every reset until the next save begins to change the page.
THEOREM SuccessIsDurable == Spec => []SuccessIsKept
<1>1. ASSUME FlashInv PROVE SuccessIsKept
  <2>1. prog /\ done /\ page # "bad" => page = "whole"
    BY <1>1 DEF FlashInv, FlashTypes, EraseOf
  <2> QED BY <1>1, <2>1, AfterResetIs DEF SuccessIsKept
<1> QED BY <1>1, FlashInvariance, PTL
=============================================================================

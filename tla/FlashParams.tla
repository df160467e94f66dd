---------------------------- MODULE FlashParams ----------------------------
(***************************************************************************)
(* The parameters of the controlRTT application (g_flashData): commands    *)
(* from the PC change them (debugUsart.c) and save them in one page of the *)
(* flash (flash.c), and initFlash reads them after a reset (main.c).  A    *)
(* reset comes at any time, between any two words and in an erase too.     *)
(*                                                                         *)
(* The structure is in three parts: the words of blueDevice, the word with *)
(* bodyAngle, qMaxSpeed, hMaxSpeed and runmode, and three bytes behind the *)
(* last whole word (stoptui, stoprun, houJiaoDu).                          *)
(***************************************************************************)
EXTENDS Integers

CONSTANTS
  NameWords,   \* the words of blueDevice
  Name,        \* the values of blueDevice,
  Speed,       \* of qMaxSpeed,
  Mode,        \* of the rest of its word,
  Tail,        \* and of the bytes behind it
  Retries,     \* how often a word that fails is programmed again
  Offset       \* what FLASH_Erase_Sector of the build adds to the number it is given:
               \* 0 for the STM32F407, 4 for the parts with two banks

Last  == NameWords + 1       \* sizeof(stuFlashData) / FLASH_ALINE
Words == 1 .. Last

\* initFlash writes stoprun twice and stoptui, which was read as 0, never
Default == [name |-> "6AC2D2F21942", speed |-> 60, mode |-> "default", tail |-> "default"]
Zero    == "zero"            \* three bytes that were not read

ASSUME FlashAssumption ==
  /\ NameWords \in Nat \ {0}
  /\ Speed \subseteq 0 .. 255
  /\ Retries \in Nat
  /\ Offset \subseteq {0, 4}

FLASH_BASE         == 134217728           \* 0x08000000
FLASH_DATA_ADDRESS == FLASH_BASE + 106496 \* 0x0801A000
STM_SECTOR_SIZE    == 2048

ProgramSector == 0     \* holds the vector table and the first 16 KB of the program
DataSector    == 4     \* 0x08010000 to 0x0801FFFF

VARIABLES
  build,   \* the offset of the build, which no step changes
  prog,    \* the program is in the flash
  sr,      \* FLASH_SR: ready, busy with an erase, or with the error flags of one
  ram,     \* g_flashData
  flash,   \* the words of the page that hold it
  write,   \* the call of STMFLASH_Write
  kept,    \* the parameters of the last call that touched the flash
  done,    \* how that call ended
  page     \* its erase: needed none or ended ("whole"), runs or was cut off by a
           \* reset ("torn"), or failed ("bad")

vars == <<build, prog, sr, ram, flash, write, kept, done, page>>

Erased == <<"erased">>
Blank  == [i \in Words |-> Erased]
Quiet  == [pc |-> "none", i |-> 0, tries |-> 0, buf |-> Blank, again |-> Blank, new |-> Default]

Byte == Speed \cup {Default.speed, 255}    \* what qMaxSpeed is read as

\* bits of two values, or of one half erased; qMaxSpeed among them is any byte
Garbled(i, s) == IF i = Last THEN <<"main", s, "garbled">> ELSE <<"name", "garbled">>

Params == [ name  : Name \cup {Default.name, "garbled"},
            speed : Byte,
            mode  : Mode \cup {Default.mode, "garbled"},
            tail  : Tail \cup {Default.tail, Zero} ]
-----------------------------------------------------------------------------
\* the words that STMFLASH_WriteStruct copies
Image(p) == [i \in Words |-> IF i = Last THEN <<"main", p.speed, p.mode>> ELSE <<"name", p.name>>]

\* STMFLASH_ReadStruct
ReadStruct(f) ==
  [ name  |-> IF f[1] # Erased /\ \A i \in 1 .. NameWords : f[i] = f[1]
              THEN f[1][2] ELSE "garbled",
    speed |-> IF f[Last] = Erased THEN 255 ELSE f[Last][2],
    mode  |-> IF f[Last] = Erased THEN "garbled" ELSE f[Last][3],
    tail  |-> Zero ]

\* qMaxSpeed tells whether the flash holds parameters
initFlash(p) == IF p.speed \in {0, 255} THEN Default ELSE p

\* what a reset at this moment leaves
AfterReset == initFlash(ReadStruct(flash))
-----------------------------------------------------------------------------
(* saveFalshData, STMFLASH_WriteStruct, STMFLASH_Write *)

\* A page with anything in it is erased, and written from STMFLASH_BUF; an empty
\* one is written from the caller's buffer, and STMFLASH_BUF stays empty.
Save(p) ==
  write' = [Quiet EXCEPT !.pc    = IF flash = Blank THEN "program" ELSE "erase",
                         !.i     = 1,
                         !.buf   = Image(p),
                         !.again = IF flash = Blank THEN Blank ELSE Image(p),
                         !.new   = p]

\* getCmdData: the parameters change and are saved.  RIGHT_INFO and ZHUAN_INFO
\* change none; GET_INFO does nothing.
Command(p) ==
  /\ prog
  /\ write.pc = "none"
  /\ ram' = p
  /\ Save(p)
  /\ IF flash = Blank
     THEN kept' = p /\ done' = FALSE /\ page' = "whole"
     ELSE UNCHANGED <<kept, done, page>>
  /\ UNCHANGED <<build, prog, sr, flash>>

getCmdData ==
  \/ \E m \in Mode  : Command([ram EXCEPT !.mode = m])                \* RUN_MODE
  \/ \E t \in Tail  : Command([ram EXCEPT !.tail = t])                \* STOP_DATA
  \/ \E s \in Speed : Command([ram EXCEPT !.speed = s])               \* RUN_SPEED
  \/ \E m \in Mode, t \in Tail : Command([ram EXCEPT !.mode = m, !.tail = t])    \* HOUTUI_INFO
  \/ Command(ram)

\* the command "ccid" of debugAnsy saves nothing
ccid ==
  /\ prog
  /\ write.pc = "none"
  /\ \E n \in Name : ram' = [ram EXCEPT !.name = n]
  /\ UNCHANGED <<build, prog, sr, flash, write, kept, done, page>>
-----------------------------------------------------------------------------
(* the erase *)

GetPage(a) == (a - FLASH_BASE) \div STM_SECTOR_SIZE

\* FLASH_Erase_Sector takes the number of a sector, and is given an address:
\* FLASH_CR has the low five bits of it
ErasedSector == (GetPage(FLASH_DATA_ADDRESS) * 4096 + FLASH_BASE + build) % 32

\* STMFLASH_Write starts the erase and does not wait for it
FLASH_Erase_Sector ==
  /\ prog
  /\ write.pc = "erase"
  /\ sr' = "busy"
  /\ write' = [write EXCEPT !.pc = "program"]
  /\ kept' = write.new /\ done' = FALSE /\ page' = "torn"
  /\ UNCHANGED <<build, prog, ram, flash>>

\* FLASH_WaitForLastOperation of the next HAL_FLASH_Program sees BSY go away ...
EraseDone ==
  /\ sr = "busy"
  /\ sr' = "ready"
  /\ prog' = (ErasedSector # ProgramSector)
  /\ IF ErasedSector = DataSector
     THEN flash' = Blank /\ page' = "whole"
     ELSE UNCHANGED <<flash, page>>
  /\ UNCHANGED <<build, ram, write, kept, done>>

\* Each word of the sector is as it was, erased, or in between.
Unfinished ==
  IF ErasedSector = DataSector
  THEN /\ \E h \in [Words -> {"old", "erased", "garbled"}], s \in Byte :
            flash' = [i \in Words |-> CASE h[i] = "old"     -> flash[i]
                                         [] h[i] = "erased"  -> Erased
                                         [] h[i] = "garbled" -> Garbled(i, s)]
       /\ UNCHANGED prog
  ELSE prog' \in BOOLEAN /\ UNCHANGED flash

\* ... or with an error flag
EraseFails ==
  /\ sr = "busy"
  /\ sr' = "error"
  /\ page' = "bad"
  /\ Unfinished
  /\ UNCHANGED <<build, ram, write, kept, done>>
-----------------------------------------------------------------------------
(* STMFLASH_Write_NoCheck *)

\* mutation: from the last word to the first
WordDown(i) == Last + 1 - i

\* WriteAddr grows
Word(i) == i

\* HAL_FLASH_Program clears bits, and sets none
Programmed(i, old, new) ==
  IF old = Erased THEN {new}
  ELSE IF new \in {Erased, old} THEN {old}
  ELSE {Garbled(i, s) : s \in Byte}

\* "flash write success", or the end of the second attempt
Finished == done' = (write.pc = "program") /\ write' = Quiet

Program ==
  LET n == Word(write.i)
  IN  /\ prog
      /\ sr = "ready"
      /\ write.pc \in {"program", "retry"}
      /\ \E w \in Programmed(n, flash[n], write.buf[n]) : flash' = [flash EXCEPT ![n] = w]
      /\ IF write.i < Last
         THEN write' = [write EXCEPT !.i = @ + 1, !.tries = 0] /\ UNCHANGED done
         ELSE Finished
      /\ UNCHANGED <<build, prog, sr, ram, kept, page>>

\* mutation: a word that fails is left out
GiveUpWord ==
  IF write.i < Last
  THEN write' = [write EXCEPT !.i = @ + 1, !.tries = 0] /\ UNCHANGED done
  ELSE Finished

\* label WF: STMFLASH_BUF is written once more, and HAL_OK returned in any case
GiveUp ==
  /\ write' = IF write.pc = "retry" THEN Quiet
              ELSE [write EXCEPT !.pc = "retry", !.i = 1, !.tries = 0, !.buf = write.again]
  /\ UNCHANGED done

\* HAL_FLASH_Program returns HAL_ERROR and the word is as it was: programming it
\* failed, or FLASH_WaitForLastOperation found the flags of a failed erase, which
\* it clears
ProgramError ==
  /\ prog
  /\ sr # "busy"
  /\ sr' = "ready"
  /\ write.pc \in {"program", "retry"}
  /\ IF write.tries < Retries
     THEN write' = [write EXCEPT !.tries = @ + 1] /\ UNCHANGED done
     ELSE GiveUp
  /\ UNCHANGED <<build, prog, ram, flash, kept, page>>
-----------------------------------------------------------------------------
\* A reset, which cuts an erase off, and the start of the program, if there is
\* one, up to initExternFlash.
Reset ==
  /\ IF sr = "busy" THEN Unfinished ELSE UNCHANGED <<flash, prog>>
  /\ sr' = "ready"
  /\ IF prog' THEN ram' = AfterReset' /\ write' = Quiet ELSE UNCHANGED <<ram, write>>
  /\ UNCHANGED <<build, kept, done, page>>

Init ==
  /\ build \in Offset
  /\ prog = TRUE
  /\ sr = "ready"
  /\ ram = Default
  /\ flash = Blank
  /\ write = Quiet
  /\ kept = Default
  /\ done = FALSE
  /\ page = "whole"

Next == \/ getCmdData \/ ccid
        \/ FLASH_Erase_Sector \/ EraseDone \/ EraseFails
        \/ Program \/ ProgramError
        \/ Reset

Spec == Init /\ [][Next]_vars
-----------------------------------------------------------------------------
\* The parameters kept, as far as they are stored: the bytes behind the last
\* whole word are not, and with qMaxSpeed 0 or 0xFF nothing is.
Stored(p) == initFlash([p EXCEPT !.tail = Zero])

\* The types; and a reset before or after the erase of STMFLASH_Write, between
\* any two words, words that failed included, lets initFlash find all parameters
\* of one save or none of any: never the name of one save with the speed of
\* another.  Nothing is claimed of a page whose erase was cut off or failed: its
\* speed may be there while its name is garbled, and no checksum tells initFlash.
OneSaveOrDefault ==
  /\ ram \in Params /\ kept \in Params
  /\ prog /\ page = "whole" => AfterReset \in {Default, Stored(kept)}

\* After "flash write success" a reset brings back what was saved, and nothing
\* that happens before the next erase changes that, unless the erase of that save
\* failed: STMFLASH_Write takes the error flags of the erase for those of the first
\* word, tries that one again, and reports a success over a page that was not empty.
SuccessIsKept == prog /\ done /\ page # "bad" => AfterReset = Stored(kept)
=============================================================================

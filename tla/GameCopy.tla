------------------------------ MODULE GameCopy ------------------------------
(***************************************************************************)
(* The start of the program and the copying of a game: the default task    *)
(* verifies the card and the SPI flash (src/App/app_verify.c), the start   *)
(* screen offers what was found (src/App/app_gui.c), and CopyFlash erases  *)
(* the flash and writes a game from the card over it.  The power may fail  *)
(* at any time; the boot check reads the magic number of the directory and *)
(* the CRC of one file, the WAD.                                           *)
(*                                                                         *)
(* Contents are told apart by the copy that wrote them: Copies are         *)
(* numbered, 0 is the game that was there first.                           *)
(***************************************************************************)
EXTENDS Integers, Sequences

CONSTANTS
  Blocks,           (* erase blocks that a game takes                      *)
  FileList,         (* the files that are copied beside the WAD, in order  *)
  WAD,
  Place,            (* the blocks of a file                                *)
  Copies,           (* bound: games copied                                 *)
  CopyFaults        (* bound: erasures, reads and writes that fail, and    *)
                    (* power losses                                        *)

ASSUME GameCopyAssumption ==
  /\ Blocks \in Nat \ {0} /\ {Copies, CopyFaults} \subseteq Nat
  /\ Len(FileList) \in Nat /\ DOMAIN FileList = 1 .. Len(FileList)
  /\ \A i, j \in DOMAIN FileList : FileList[i] = FileList[j] => i = j
  /\ WAD \notin {FileList[i] : i \in DOMAIN FileList}
  /\ \A i \in DOMAIN FileList : Place[FileList[i]] \subseteq 0 .. Blocks - 1
  /\ Place[WAD] \subseteq 0 .. Blocks - 1

VARIABLES
  main,             (* where the default task, or the user, is             *)
  at,               (* blocks erased, files copied                         *)
  cwd,              (* the working directory                               *)
  copies,           (* copies begun                                        *)
  header, content,  (* the directory and the files in the flash            *)
  box,              (* the box the GUI shows, "dead" without a callback    *)
  erased,           (* blocks that this copy has erased                    *)
  reported,         (* the copy in the flash has reported an error         *)
  unerased,         (* ... did not erase a block, and told nobody          *)
  copyFaults

flashVars == <<header, content>>
copyVars == <<main, at, cwd, copies, flashVars, box, erased, reported,
              unerased, copyFaults>>

Blank == -1
Garbled == -2
Partial == -3

CopyFiles == {FileList[i] : i \in DOMAIN FileList} \cup {WAD}

CopyInit ==
  /\ main = "boot" /\ at = 0 /\ cwd = "/" /\ copies = 0
  /\ \/ header = 0 /\ content = [f \in CopyFiles |-> 0]
     \/ header = Blank /\ content = [f \in CopyFiles |-> Blank]
  /\ box = "none" /\ erased = {} /\ reported = FALSE /\ unerased = FALSE
  /\ copyFaults = 0

MayFail(failed) ==
  /\ ~failed \/ copyFaults < CopyFaults
  /\ copyFaults' = IF failed THEN copyFaults + 1 ELSE copyFaults

----------------------------------------------------------------------------
(* VerifyFlash: the magic number, which stays when a directory is written  *)
(* over another, and the CRC of what the first entry says is the WAD.      *)
Playable == header >= 0 /\ content[WAD] = header

(* VerifySDCard, and VerifyFlash when the card is good                     *)
Verify ==
  /\ main = "boot"
  /\ \/ main' = "menu" /\ UNCHANGED box
     \/ main' = "stopped" /\ box' = "reboot"      \* no card, or no games
  /\ UNCHANGED <<at, cwd, copies, flashVars, reported, erased, unerased, copyFaults>>

(* Bound: only the game that was there first is played.                    *)
FlashGameSelect ==
  /\ main = "menu" /\ Playable /\ copies = 0 /\ copyFaults = 0
  /\ main' = "game"
  /\ UNCHANGED <<at, cwd, copies, flashVars, box, reported, erased, unerased, copyFaults>>

(* A game of the card is selected, and the user is sure; CopyFlash begins. *)
EraseStart ==
  /\ main = "menu" /\ copies < Copies
  /\ main' = "erase" /\ at' = 0 /\ copies' = copies + 1 /\ cwd' = "GAME_DIR"
  /\ erased' = {}
  /\ UNCHANGED <<flashVars, box, reported, unerased, copyFaults>>

(* Board_Erase_Block, whose result is not looked at                        *)
EraseBlock(failed) ==
  /\ main = "erase" /\ at < Blocks
  /\ MayFail(failed)
  /\ IF failed
     THEN unerased' = TRUE /\ UNCHANGED <<flashVars, erased, reported>>
     ELSE /\ header' = IF at = 0 THEN Blank ELSE header
          /\ erased' = erased \cup {at}
          /\ content' = [f \in CopyFiles |->
               IF Place[f] \subseteq erased' THEN Blank
               ELSE IF at \in Place[f] /\ content[f] # Blank THEN Garbled
               ELSE content[f]]
          /\ reported' = (reported /\ at # 0)
          /\ unerased' = (unerased /\ at # 0)
  /\ at' = at + 1
  /\ UNCHANGED <<main, cwd, copies, box>>

(* What is written where nothing was erased                                *)
Over(old, new) == IF old = Blank THEN new ELSE Garbled

(* The directory; when that fails CopyFlash leaves behind a box whose      *)
(* button does nothing.                                                    *)
WriteHeader(failed) ==
  /\ main = "erase" /\ at = Blocks
  /\ MayFail(failed)
  /\ IF failed
     THEN /\ main' = "stopped" /\ box' = "dead" /\ reported' = TRUE
          /\ header' = Garbled /\ UNCHANGED at
     ELSE /\ main' = "copy" /\ at' = 1
          /\ header' = Over(header, copies) /\ UNCHANGED <<box, reported>>
  /\ UNCHANGED <<cwd, copies, content, erased, unerased>>

(* Mutant: the WAD first, as it is in the directory                        *)
WadFirst(i) == IF i = 1 THEN WAD ELSE FileList[i - 1]

(* The order of copying: the WAD last                                      *)
FileAt(i) == IF i <= Len(FileList) THEN FileList[i] ELSE WAD

(* copyfile: a file that is not found leaves the root as the working       *)
(* directory, where the files that follow are not found either ...         *)
OpenFails ==
  /\ main = "copy"
  /\ MayFail(cwd = "GAME_DIR")
  /\ cwd' = "/" /\ reported' = TRUE /\ box' = "dead"
  /\ at' = at + 1
  /\ main' = IF at = Len(FileList) + 1 THEN "done" ELSE "copy"
  /\ UNCHANGED <<copies, flashVars, erased, unerased>>

(* ... the blocks of the others go one by one ...                          *)
CopyBegins ==
  /\ main = "copy" /\ cwd = "GAME_DIR"
  /\ main' = "copyfile"
  /\ content' = [content EXCEPT ![FileAt(at)] = Over(@, Partial)]
  /\ UNCHANGED <<at, cwd, copies, header, box, reported, erased, unerased, copyFaults>>

(* ... until the end of the file, or an error, which the caller does not   *)
(* see.                                                                    *)
CopyEnds(failed) ==
  /\ main = "copyfile"
  /\ MayFail(failed)
  /\ IF failed
     THEN reported' = TRUE /\ box' = "dead" /\ UNCHANGED content
     ELSE /\ content' = [content EXCEPT ![FileAt(at)] =
                           IF @ = Partial THEN copies ELSE @]
          /\ UNCHANGED <<reported, box>>
  /\ at' = at + 1
  /\ main' = IF at = Len(FileList) + 1 THEN "done" ELSE "copy"
  /\ UNCHANGED <<cwd, copies, header, erased, unerased>>

(* OP_DONE, also after errors: a box that does reboot                      *)
CopyDone ==
  /\ main = "done"
  /\ main' = "stopped" /\ box' = "reboot"
  /\ UNCHANGED <<at, cwd, copies, flashVars, reported, erased, unerased, copyFaults>>

Booted == main' = "boot" /\ at' = 0 /\ cwd' = "/" /\ box' = "none"

Reboot ==
  /\ main = "stopped" /\ box = "reboot" /\ Booted
  /\ UNCHANGED <<copies, flashVars, reported, erased, unerased, copyFaults>>

PowerLost ==
  /\ main \in {"erase", "copy", "copyfile", "done", "stopped"}
  /\ MayFail(TRUE) /\ Booted
  /\ UNCHANGED <<copies, flashVars, reported, erased, unerased>>

CopyFlash ==
  \/ EraseStart \/ \E failed \in BOOLEAN : EraseBlock(failed) \/ WriteHeader(failed)
  \/ OpenFails \/ CopyBegins \/ \E failed \in BOOLEAN : CopyEnds(failed)
  \/ CopyDone
CopyNext == Verify \/ FlashGameSelect \/ CopyFlash \/ Reboot \/ PowerLost

----------------------------------------------------------------------------
(* A game that the boot check offers is whole, all its files, although     *)
(* the check reads one: after power losses at any time, and unless the     *)
(* copy has reported an error or a block was not erased.                   *)
PlayableIsWhole ==
  main = "menu" /\ Playable /\ ~reported /\ ~unerased =>
    \A f \in CopyFiles : content[f] = header
=============================================================================

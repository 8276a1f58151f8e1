------------------------------ MODULE TlvStore ------------------------------
(***************************************************************************)
(* The key store (src/btstack/btstack_tlv_flash_bank.c over                *)
(* hal_flash_bank_memory.c): a log of tag/length/value entries in one of   *)
(* two banks, moved to the other bank when it is full.  The banks are RAM  *)
(* that keeps its content over the resets by which this firmware recovers  *)
(* from errors, so that a reset may come between any two writes.           *)
(*                                                                         *)
(* All entries have one size (link keys): offsets are counted in entries,  *)
(* and write_offset is the end of the current bank's log.  Bytes of an     *)
(* entry are told apart only as far as a reset in the middle of its header *)
(* leaves a length no scan of the log gets past.                           *)
(***************************************************************************)
EXTENDS Integers, Sequences, FiniteSets

CONSTANTS
  Tags, Vals, NoTag, NoValue,
  Capacity,   (* entries that fit in a bank                                *)
  ExactFit    (* TRUE: Capacity entries fill a bank to its last byte       *)

ASSUME TlvAssumption ==
  /\ NoTag \notin Tags
  /\ NoValue \notin Vals
  /\ Capacity \in Nat \ {0}
  /\ ExactFit \in BOOLEAN

VARIABLES
  banks,   (* the memory: header (epoch or NoHeader), log, and what        *)
           (* follows the log                                              *)
  cur,     (* current_bank                                                 *)
  pc,      (* where the code is; "down" from a reset to the next start     *)
  arg,     (* the call in progress                                         *)
  at,      (* next entry to be copied to the other bank                    *)
  due      (* history: the call that has not taken effect                  *)

vars == <<banks, cur, pc, arg, at, due>>

NoHeader == -1
Slot(t, v) == [tag |-> t, val |-> v]
Erased == [header |-> NoHeader, log |-> <<>>, tail |-> "erased"]
Op(t, v) == [tag |-> {t}, val |-> v]
NoOp == [tag |-> {}, val |-> NoValue]
Delete(t) == Op(t, NoValue)

log == banks[cur].log
other == 1 - cur

(* Entries of tag t before position n.                                     *)
Live(l, t, n) == {i \in 1 .. n : i \in DOMAIN l /\ l[i].tag = t}
First(S) == CHOOSE i \in S : \A j \in S : i <= j

(* get_tag: the first entry found.                                         *)
Get(l, t) == IF Live(l, t, Len(l)) = {} THEN NoValue
             ELSE l[First(Live(l, t, Len(l)))].val
Visible == [t \in Tags |-> Get(log, t)]

(* Overwriting the tag with zeros.                                         *)
Zeroed(b, i) == [b EXCEPT ![cur].log[i].tag = NoTag]

(* get_latest_bank: the bank with the higher epoch, -1 if there is none.   *)
Latest ==
  LET valid0 == banks[0].header # NoHeader
      valid1 == banks[1].header # NoHeader
  IN CASE valid0 /\ ~valid1 -> 0
       [] ~valid0 /\ valid1 -> 1
       [] valid0 /\ valid1 /\ banks[0].header = (banks[1].header + 1) % 4 -> 0
       [] valid0 /\ valid1 /\ banks[1].header = (banks[0].header + 1) % 4 -> 1
       [] OTHER -> -1

(* The scan for the end of the log runs past the end of the bank.          *)
ScanFails(b) == b.tail = "torn" \/ (ExactFit /\ Len(b.log) = Capacity)

Found == Latest # -1 /\ ~ScanFails(banks[Latest])

(* Power-up: the memory holds anything but a header.                       *)
Init ==
  /\ banks \in [{0, 1} -> {Erased, [Erased EXCEPT !.tail = "value"]}]
  /\ cur = 0
  /\ pc = "down"
  /\ arg = NoOp
  /\ at = 1
  /\ due = NoOp

-----------------------------------------------------------------------------
(* Start.                                                                  *)

(* hal_flash_bank_memory_init_instance: bank 0 must begin with the magic   *)
(* and epoch 0, or everything is erased.                                   *)
Wipes == banks[0].header # 0

BootWiped ==
  /\ pc = "down"
  /\ Wipes
  /\ banks' = [b \in {0, 1} |-> Erased]
  /\ cur' = 0
  /\ pc' = "format"
  /\ arg' = NoOp
  /\ due' = NoOp
  /\ UNCHANGED at

(* No valid bank, or one whose log cannot be scanned: start afresh.        *)
BootFailed ==
  /\ pc = "down"
  /\ ~Wipes
  /\ ~Found
  /\ banks' = [banks EXCEPT ![0] = Erased]
  /\ cur' = 0
  /\ pc' = "format"
  /\ arg' = NoOp
  /\ due' = NoOp
  /\ UNCHANGED at

Format ==
  /\ pc = "format"
  /\ banks' = [banks EXCEPT ![0].header = 0]
  /\ pc' = "idle"
  /\ UNCHANGED <<cur, arg, at, due>>

BootFound ==
  /\ pc = "down"
  /\ ~Wipes
  /\ Found
  /\ cur' = Latest
  /\ pc' = "purge"
  /\ arg' = NoOp
  /\ UNCHANGED <<banks, at, due>>

(* Older instances of the last tag go: a reset may have come between the   *)
(* new entry and their removal.                                            *)
NoneOlder == {}
Older ==
  IF log = <<>> \/ log[Len(log)].tag = NoTag THEN {}
  ELSE Live(log, log[Len(log)].tag, Len(log) - 1)

PurgeStep ==
  /\ pc = "purge"
  /\ Older # {}
  /\ banks' = Zeroed(banks, First(Older))
  /\ due' = NoOp
  /\ UNCHANGED <<cur, pc, arg, at>>

(* A value without its entry after the log: the log moves.                 *)
NeverDirty(b) == FALSE
Dirty(b) == b.tail # "erased"

PurgeDone ==
  /\ pc = "purge"
  /\ Older = {}
  /\ pc' = IF Dirty(banks[cur]) THEN "erase" ELSE "idle"
  /\ UNCHANGED <<banks, cur, arg, at, due>>

-----------------------------------------------------------------------------
(* Moving the log to the other bank.                                       *)

MoveErase ==
  /\ pc = "erase"
  /\ banks' = [banks EXCEPT ![other] = Erased]
  /\ at' = 1
  /\ pc' = "copy"
  /\ UNCHANGED <<cur, arg, due>>

MoveCopy ==
  /\ pc = "copy"
  /\ at <= Len(log)
  /\ banks' = IF log[at].tag = NoTag THEN banks
              ELSE [banks EXCEPT ![other].log = Append(@, log[at])]
  /\ at' = at + 1
  /\ UNCHANGED <<cur, pc, arg, due>>

SameEpoch(e) == e
NextEpoch(e) == (e + 1) % 4

(* The header comes last and makes the copy the current bank; then the     *)
(* store that needed room goes on, if there is one.                        *)
MoveDone ==
  /\ pc = "copy"
  /\ at > Len(log)
  /\ banks' = [banks EXCEPT ![other].header = NextEpoch(banks[cur].header)]
  /\ cur' = other
  /\ pc' = IF arg = NoOp THEN "idle" ELSE "value"
  /\ UNCHANGED <<arg, at, due>>

-----------------------------------------------------------------------------
(* store_tag and delete_tag.                                               *)

Full == Len(log) = Capacity

Store(t, v) ==
  /\ pc = "idle"
  /\ arg' = Op(t, v)
  /\ due' = arg'
  /\ pc' = IF Full THEN "erase" ELSE "value"
  /\ UNCHANGED <<banks, cur, at>>

(* "couldn't write entry, not enough space left"                           *)
NoRoom ==
  /\ pc = "value"
  /\ Full
  /\ pc' = "idle"
  /\ arg' = NoOp
  /\ due' = NoOp
  /\ UNCHANGED <<banks, cur, at>>

WriteValue ==
  /\ pc = "value"
  /\ ~Full
  /\ banks' = [banks EXCEPT ![cur].tail = "value"]
  /\ pc' = "entry"
  /\ UNCHANGED <<cur, arg, at, due>>

ArgTag == CHOOSE t \in arg.tag : TRUE

WriteEntry ==
  /\ pc = "entry"
  /\ banks' = [banks EXCEPT ![cur].log = Append(@, Slot(ArgTag, arg.val)),
                            ![cur].tail = "erased"]
  /\ pc' = "sweep"
  /\ due' = IF Live(log, ArgTag, Len(log)) = {} THEN NoOp ELSE due
  /\ UNCHANGED <<cur, arg, at>>

(* delete_tag_until_offset: the entries of the tag before the new one, or  *)
(* all of them when the tag is deleted.                                    *)
SweepEnd == IF pc = "sweep" THEN Len(log) - 1 ELSE Len(log)
Swept == Live(log, ArgTag, SweepEnd)

SweepStep ==
  /\ pc \in {"sweep", "unset"}
  /\ Swept # {}
  /\ banks' = Zeroed(banks, First(Swept))
  /\ due' = NoOp
  /\ UNCHANGED <<cur, pc, arg, at>>

SweepDone ==
  /\ pc \in {"sweep", "unset"}
  /\ Swept = {}
  /\ pc' = "idle"
  /\ arg' = NoOp
  /\ due' = NoOp
  /\ UNCHANGED <<banks, cur, at>>

DeleteTag(t) ==
  /\ pc = "idle"
  /\ arg' = Delete(t)
  /\ due' = arg'
  /\ pc' = "unset"
  /\ UNCHANGED <<banks, cur, at>>

-----------------------------------------------------------------------------
(* A reset.  One in the middle of an entry's header leaves a torn entry.   *)
(* A call that has written its entry takes effect at the next start.       *)
Reset ==
  /\ pc # "down"
  /\ pc' = "down"
  /\ due' = IF pc \in {"sweep", "purge"} THEN due ELSE NoOp
  /\ \/ UNCHANGED banks
     \/ pc = "entry" /\ banks' = [banks EXCEPT ![cur].tail = "torn"]
  /\ UNCHANGED <<cur, arg, at>>

Start == BootWiped \/ BootFailed \/ BootFound

Next ==
  \/ Start
  \/ Format
  \/ PurgeStep
  \/ PurgeDone
  \/ MoveErase
  \/ MoveCopy
  \/ MoveDone
  \/ \E t \in Tags, v \in Vals : Store(t, v)
  \/ NoRoom
  \/ WriteValue
  \/ WriteEntry
  \/ SweepStep
  \/ SweepDone
  \/ \E t \in Tags : DeleteTag(t)
  \/ Reset

Spec == Init /\ [][Next]_vars

-----------------------------------------------------------------------------
(* Properties.                                                             *)

Slots == [tag : Tags \cup {NoTag}, val : Vals]
Ops == {Op(t, v) : t \in Tags, v \in Vals \cup {NoValue}}

(* Types; a log never outgrows its bank.                                   *)
TypeOK ==
  /\ banks \in [{0, 1} -> [header : NoHeader .. 3, log : Seq(Slots),
                           tail : {"erased", "value", "torn"}]]
  /\ \A b \in {0, 1} : Len(banks[b].log) <= Capacity
  /\ cur \in {0, 1}
  /\ pc \in {"down", "format", "purge", "idle", "erase", "copy", "value",
             "entry", "sweep", "unset"}
  /\ {arg, due} \subseteq Ops \cup {NoOp}
  /\ at \in 1 .. Capacity + 1

(* The next start may find nothing: bank 0 does not begin with the magic   *)
(* and epoch 0 (never written, or the log has come back to it), or the log *)
(* of a bank cannot be scanned.                                            *)
Fragile ==
  \/ Wipes
  \/ banks[1].header # NoHeader /\ ScanFails(banks[1])
  \/ ScanFails(banks[0]) /\ (cur = 0 \/ banks[1].header = NoHeader)

Map == INSTANCE DurableMap WITH map <- Visible, fragile <- Fragile

(* The store is a durable map: a store or delete is seen whole or not at   *)
(* all, over any number of resets, and the keys are forgotten only by a    *)
(* start from a fragile memory.                                            *)
KeepsKeys == Map!MapSpec

(* No byte is programmed twice ("Error: offset written twice"): a value is *)
(* written to erased memory only.                                          *)
WritesErased == pc = "value" => banks[cur].tail = "erased"

(* Between calls each tag has one entry at most, so that get_tag and the   *)
(* next move see no old value.                                             *)
OneEntryPerTag ==
  pc \in {"idle", "value", "entry", "unset"} =>
    \A t \in Tags : Cardinality(Live(log, t, Len(log))) <= 1

(* "check both banks for headers and pick the one with the higher epoch":  *)
(* a start goes on with the bank that was current.                         *)
PicksLatest ==
  [][Start /\ Found => cur' = Latest /\ log' = banks[Latest].log]_vars
=============================================================================

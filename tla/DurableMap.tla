----------------------------- MODULE DurableMap -----------------------------
(***************************************************************************)
(* What the key store promises (src/btstack/btstack_tlv_flash_bank.c): a   *)
(* map from tags to values whose store and delete take effect at one       *)
(* moment or not at all, whatever resets happen, and which is forgotten,   *)
(* as a whole, only at moments the store declares itself fragile.          *)
(***************************************************************************)
CONSTANTS Tags, Vals, NoValue

VARIABLES
  map,      (* what get_tag returns for each tag                           *)
  due,      (* the store or delete that has not taken effect, or NoOp      *)
  fragile   (* the next restart may forget                                 *)

mapVars == <<map, due, fragile>>

Op(t, v) == [tag |-> {t}, val |-> v]
NoOp == [tag |-> {}, val |-> NoValue]
Ops == {Op(t, v) : t \in Tags, v \in Vals \cup {NoValue}}
Empty == [t \in Tags |-> NoValue]
After(op) == [t \in Tags |-> IF t \in op.tag THEN op.val ELSE map[t]]

MapInit ==
  /\ map = Empty
  /\ due = NoOp
  /\ fragile \in BOOLEAN

(* store_tag, or delete_tag (of value NoValue), is called.                 *)
Call ==
  /\ due = NoOp
  /\ due' \in Ops
  /\ UNCHANGED map

Apply ==
  /\ due # NoOp
  /\ map' = After(due)
  /\ due' = NoOp

(* No room, or a reset came first.                                         *)
Drop ==
  /\ due' = NoOp
  /\ UNCHANGED map

Forget ==
  /\ fragile
  /\ map' = Empty
  /\ due' = NoOp

(* Only the hazard the map is in changes.                                  *)
Rest == UNCHANGED <<map, due>>

MapNext ==
  /\ Call \/ Apply \/ Drop \/ Forget \/ Rest
  /\ fragile' \in BOOLEAN

MapSpec == MapInit /\ [][MapNext]_mapVars
=============================================================================

-------------------------- MODULE TlvStore_proofs --------------------------
(***************************************************************************)
(* Theorems about TlvStore, for every set of tags and values, every size   *)
(* of the banks, exact fit or not, and any number of calls and resets: the *)
(* store is the durable map of DurableMap.                                 *)
(*                                                                         *)
(* What is visible is the first entry of each tag.  A log has one entry of *)
(* each tag, but in the middle of a store, when its last entry renews an   *)
(* older one: the renewal is then what is due, and it takes effect when    *)
(* the older entry is overwritten, be it by the store or, after a reset,   *)
(* by the next start.                                                      *)
(***************************************************************************)
EXTENDS TlvStore, SequenceTheorems, FiniteSetTheorems, TLAPS

Log == Seq([tag : Tags \cup {NoTag}, val : Vals])

----------------------------------------------------------------------------
(* Logs.                                                                   *)

(* One entry of each tag among the first n.                                *)
OneEach(l, n) ==
  \A i, j \in DOMAIN l :
    i <= n /\ j <= n /\ l[i].tag = l[j].tag /\ l[i].tag # NoTag => i = j
Single(l) == OneEach(l, Len(l))

Holds(l, n, t, v) == \E i \in DOMAIN l : i <= n /\ l[i].tag = t /\ l[i].val = v
Lacks(l, t) == \A i \in DOMAIN l : l[i].tag # t

(* The last entry takes the place of one older one.                        *)
Renewal(l, k) ==
  /\ Len(l) > 0 /\ k \in 1 .. Len(l) - 1
  /\ l[k].tag = l[Len(l)].tag /\ l[k].tag # NoTag
  /\ OneEach(l, Len(l) - 1)

LEMMA LogFacts ==
  ASSUME NEW l \in Log
  PROVE  /\ Len(l) \in Nat /\ DOMAIN l = 1 .. Len(l)
         /\ \A i \in DOMAIN l : /\ l[i] \in [tag : Tags \cup {NoTag}, val : Vals]
                               /\ l[i].val \in Vals
<1> DEFINE S == [tag : Tags \cup {NoTag}, val : Vals]
<1>1. \A e \in S : e.val \in Vals
  OBVIOUS
<1> HIDE DEF S
<1>2. l \in Seq(S)
  BY DEF Log, S
<1>3. \A i \in DOMAIN l : l[i] \in S
  BY <1>2
<1>4. Len(l) \in Nat /\ DOMAIN l = 1 .. Len(l)
  BY <1>2
<1> QED BY <1>1, <1>3, <1>4 DEF S

LEMMA FirstIs ==
  ASSUME NEW S, NEW i \in S, S \subseteq Nat, \A j \in S : i <= j
  PROVE  First(S) = i
<1>1. \E f \in S : \A j \in S : f <= j
  OBVIOUS
<1>2. First(S) \in S /\ \A j \in S : First(S) <= j
  BY <1>1, Zenon DEF First
<1>3. First(S) <= i /\ i <= First(S) /\ First(S) \in Nat /\ i \in Nat
  BY <1>2
<1> QED BY <1>3

(* get_tag finds the first entry, and nothing where there is none.         *)
LEMMA GetFirst ==
  ASSUME NEW l \in Log, NEW t \in Tags, NEW i \in DOMAIN l, l[i].tag = t,
         \A j \in DOMAIN l : l[j].tag = t => i <= j
  PROVE  Get(l, t) = l[i].val
<1> DEFINE S == Live(l, t, Len(l))
<1>1. DOMAIN l = 1 .. Len(l) /\ Len(l) \in Nat
  BY DEF Log
<1>2. S \subseteq Nat /\ i \in S /\ \A j \in S : i <= j
  BY <1>1 DEF Live
<1>4. First(S) = i
  <2> HIDE DEF S
  <2> QED BY <1>2, FirstIs
<1> QED
  BY <1>2, <1>4 DEF Get

LEMMA GetNothing ==
  ASSUME NEW l \in Log, NEW t \in Tags, Lacks(l, t)
  PROVE  Get(l, t) = NoValue
BY DEF Get, Live, Lacks, Log

LEMMA GetSingle ==
  ASSUME NEW l \in Log, NEW t \in Tags, Single(l),
         NEW i \in DOMAIN l, l[i].tag = t
  PROVE  Get(l, t) = l[i].val
<1>1. \A j \in DOMAIN l : l[j].tag = t => i <= j
  BY TlvAssumption DEF Single, OneEach, Log
<1> QED
  BY <1>1, GetFirst

(* With one entry of each tag, who holds the same shows the same.          *)
LEMMA SameHolds ==
  ASSUME NEW l \in Log, NEW m \in Log, Single(l), Single(m),
         \A t \in Tags, v \in Vals : Holds(l, Len(l), t, v) <=> Holds(m, Len(m), t, v)
  PROVE  [t \in Tags |-> Get(l, t)] = [t \in Tags |-> Get(m, t)]
<1> SUFFICES ASSUME NEW t \in Tags PROVE Get(l, t) = Get(m, t)
  OBVIOUS
<1>1. CASE Lacks(l, t)
  <2>1. Lacks(m, t)
    <3>1. ASSUME NEW i \in DOMAIN m, m[i].tag = t PROVE FALSE
      <4>1. Holds(m, Len(m), t, m[i].val) /\ m[i].val \in Vals
        BY <3>1, LogFacts DEF Holds
      <4> QED BY <1>1, <4>1 DEF Holds, Lacks
    <3> QED BY <3>1 DEF Lacks
  <2> QED BY <1>1, <2>1, GetNothing
<1>2. CASE ~Lacks(l, t)
  <2>1. PICK i \in DOMAIN l : l[i].tag = t
    BY <1>2 DEF Lacks
  <2>2. l[i].val \in Vals /\ Holds(l, Len(l), t, l[i].val)
    BY <2>1, LogFacts DEF Holds
  <2>3. PICK j \in DOMAIN m : m[j].tag = t /\ m[j].val = l[i].val
    BY <2>2 DEF Holds
  <2> QED BY <2>1, <2>3, GetSingle
<1> QED BY <1>1, <1>2

(* A new entry is seen if it is the only one of its tag.                   *)
LEMMA GetAppended ==
  ASSUME NEW l \in Log, Single(l), NEW u \in Tags, NEW v \in Vals,
         NEW t \in Tags
  PROVE  Get(Append(l, Slot(u, v)), t) =
           IF t = u /\ Lacks(l, u) THEN v ELSE Get(l, t)
<1> DEFINE m == Append(l, Slot(u, v))
<1>1. /\ m \in Log /\ Len(m) = Len(l) + 1 /\ m[Len(l) + 1] = Slot(u, v)
      /\ DOMAIN m = 1 .. Len(l) + 1 /\ DOMAIN l = 1 .. Len(l) /\ Len(l) \in Nat
      /\ \A i \in 1 .. Len(l) : m[i] = l[i]
  BY DEF Log, Slot
<1> HIDE DEF m
<1>2. CASE Lacks(l, t)
  <2>1. Get(l, t) = NoValue
    BY <1>2, GetNothing
  <2>2. CASE t = u
    <3>1. Get(m, t) = m[Len(l) + 1].val
      BY <1>1, <1>2, <2>2, GetFirst DEF Lacks, Slot
    <3> QED BY <1>1, <1>2, <2>2, <3>1 DEF Slot, m
  <2>3. CASE t # u
    <3>1. Lacks(m, t)
      BY <1>1, <1>2, <2>3 DEF Lacks, Slot
    <3> QED BY <1>1, <2>1, <2>3, <3>1, GetNothing DEF m
  <2> QED BY <2>2, <2>3
<1>3. CASE ~Lacks(l, t)
  <2>1. PICK i \in DOMAIN l : l[i].tag = t
    BY <1>3 DEF Lacks
  <2>2. Get(l, t) = l[i].val
    BY <2>1, GetSingle
  <2>3. \A j \in DOMAIN m : m[j].tag = t => i <= j
    BY <1>1, <2>1, TlvAssumption DEF Single, OneEach
  <2>4. Get(m, t) = l[i].val
    BY <1>1, <2>1, <2>3, GetFirst
  <2> QED BY <1>3, <2>2, <2>4 DEF m
<1> QED BY <1>2, <1>3

LEMMA SingleAppended ==
  ASSUME NEW l \in Log, Single(l), NEW u \in Tags, NEW v \in Vals
  PROVE  LET m == Append(l, Slot(u, v))
         IN  /\ m \in Log /\ Len(m) = Len(l) + 1
             /\ m[Len(m)] = Slot(u, v)
             /\ OneEach(m, Len(m) - 1)
             /\ Lacks(l, u) => Single(m)
             /\ \A k \in DOMAIN l : l[k].tag = u => Renewal(m, k)
<1> DEFINE m == Append(l, Slot(u, v))
<1>1. /\ m \in Log /\ Len(m) = Len(l) + 1 /\ m[Len(l) + 1] = Slot(u, v)
      /\ DOMAIN m = 1 .. Len(l) + 1 /\ DOMAIN l = 1 .. Len(l) /\ Len(l) \in Nat
      /\ \A i \in 1 .. Len(l) : m[i] = l[i]
  BY DEF Log, Slot
<1>2. \A i \in 1 .. Len(l) : Lacks(l, u) => m[i].tag # m[Len(l) + 1].tag
  BY <1>1 DEF Lacks, Slot
<1> HIDE DEF m
<1>3. OneEach(m, Len(m) - 1)
  BY <1>1 DEF Single, OneEach
<1>4. Lacks(l, u) => Single(m)
  BY <1>1, <1>2 DEF Single, OneEach
<1>5. \A k \in DOMAIN l : l[k].tag = u => Renewal(m, k)
  BY <1>1, <1>3, TlvAssumption DEF Renewal, Slot
<1> QED BY <1>1, <1>3, <1>4, <1>5 DEF m

(* A log with the tag of an entry overwritten.                             *)
Blanked(l, k) == [l EXCEPT ![k].tag = NoTag]
LEMMA BlankedLog ==
  ASSUME NEW l \in Log, NEW k \in DOMAIN l
  PROVE  /\ Blanked(l, k) \in Log /\ Len(Blanked(l, k)) = Len(l)
         /\ DOMAIN Blanked(l, k) = DOMAIN l
         /\ \A i \in DOMAIN l :
              /\ Blanked(l, k)[i].val = l[i].val
              /\ Blanked(l, k)[i].tag = IF i = k THEN NoTag ELSE l[i].tag
<1> DEFINE e == [l[k] EXCEPT !.tag = NoTag]
           S == [tag : Tags \cup {NoTag}, val : Vals]
<1>1. DOMAIN l = 1 .. Len(l) /\ Len(l) \in Nat /\ l[k] \in S
  BY LogFacts
<1>2. e \in S /\ e.tag = NoTag /\ e.val = l[k].val
  BY <1>1
<1>3. Blanked(l, k) = [l EXCEPT ![k] = e]
  BY DEF Blanked
<1> HIDE DEF e, S
<1>4. /\ Blanked(l, k) \in Seq(S) /\ Len(Blanked(l, k)) = Len(l)
      /\ \A j \in 1 .. Len(l) : Blanked(l, k)[j] = IF j = k THEN e ELSE l[j]
  BY <1>1, <1>2, <1>3, ExceptSeq DEF Log, S
<1> QED
  BY <1>1, <1>2, <1>4 DEF Log, S

(* With the older entry gone the renewal is seen.                          *)
LEMMA GetRenewed ==
  ASSUME NEW l \in Log, NEW k, Renewal(l, k), NEW t \in Tags
  PROVE  /\ Single(Blanked(l, k))
         /\ Get(Blanked(l, k), t) =
              IF t = l[Len(l)].tag THEN l[Len(l)].val ELSE Get(l, t)
<1> DEFINE m == Blanked(l, k)
           n == Len(l)
<1>1. DOMAIN l = 1 .. n /\ n \in Nat /\ k \in 1 .. n - 1 /\ n \in 1 .. n
  BY DEF Renewal, Log
<1>2. /\ m \in Log /\ Len(m) = n /\ DOMAIN m = 1 .. n
      /\ \A i \in 1 .. n : /\ m[i].val = l[i].val
                           /\ m[i].tag = IF i = k THEN NoTag ELSE l[i].tag
  BY <1>1, BlankedLog
<1> HIDE DEF m
<1>3. Single(m)
  BY <1>1, <1>2 DEF Renewal, Single, OneEach
<1>4. CASE t = l[n].tag
  <2>1. Get(m, t) = m[n].val
    BY <1>1, <1>2, <1>3, <1>4, GetSingle
  <2> QED BY <1>1, <1>2, <1>3, <1>4, <2>1 DEF m
<1>5. CASE t # l[n].tag
  <2>1. CASE Lacks(l, t)
    <3>1. Lacks(m, t)
      BY <1>1, <1>2, <2>1, TlvAssumption DEF Lacks
    <3> QED BY <1>2, <1>3, <1>5, <2>1, <3>1, GetNothing DEF m
  <2>2. CASE ~Lacks(l, t)
    <3>1. PICK i \in DOMAIN l : l[i].tag = t
      BY <2>2 DEF Lacks
    <3>2. i # k /\ i # n
      BY <1>5, <3>1 DEF Renewal
    <3>3. \A j \in DOMAIN l : l[j].tag = t => i <= j
      BY <1>1, <1>5, <3>1, <3>2, TlvAssumption DEF Renewal, OneEach
    <3>4. Get(l, t) = l[i].val
      BY <3>1, <3>3, GetFirst
    <3>5. Get(m, t) = m[i].val
      BY <1>1, <1>2, <1>3, <3>1, <3>2, GetSingle
    <3> QED BY <1>1, <1>2, <1>3, <1>5, <3>4, <3>5 DEF m
  <2> QED BY <2>1, <2>2
<1> QED BY <1>4, <1>5

(* And with the only entry gone nothing is.                                *)
LEMMA GetDeleted ==
  ASSUME NEW l \in Log, Single(l), NEW k \in DOMAIN l, NEW u \in Tags,
         l[k].tag = u, NEW t \in Tags
  PROVE  /\ Single(Blanked(l, k)) /\ Lacks(Blanked(l, k), u)
         /\ Get(Blanked(l, k), t) = IF t = u THEN NoValue ELSE Get(l, t)
<1> DEFINE m == Blanked(l, k)
<1>1. DOMAIN l = 1 .. Len(l) /\ Len(l) \in Nat
  BY DEF Log
<1>2. /\ m \in Log /\ Len(m) = Len(l) /\ DOMAIN m = DOMAIN l
      /\ \A i \in DOMAIN l : /\ m[i].val = l[i].val
                             /\ m[i].tag = IF i = k THEN NoTag ELSE l[i].tag
  BY BlankedLog
<1> HIDE DEF m
<1>3. Single(m) /\ Lacks(m, u)
  BY <1>1, <1>2, TlvAssumption DEF Single, OneEach, Lacks
<1>4. CASE t = u
  BY <1>2, <1>3, <1>4, GetNothing DEF m
<1>5. CASE t # u
  <2>1. CASE Lacks(l, t)
    <3>1. Lacks(m, t)
      BY <1>2, <2>1, TlvAssumption DEF Lacks
    <3> QED BY <1>2, <1>3, <1>5, <2>1, <3>1, GetNothing DEF m
  <2>2. CASE ~Lacks(l, t)
    <3>1. PICK i \in DOMAIN l : l[i].tag = t
      BY <2>2 DEF Lacks
    <3>2. Get(l, t) = l[i].val
      BY <3>1, GetSingle
    <3>3. Get(m, t) = m[i].val
      BY <1>2, <1>3, <1>5, <3>1, GetSingle
    <3> QED BY <1>2, <1>3, <1>5, <3>2, <3>3 DEF m
  <2> QED BY <2>1, <2>2
<1> QED BY <1>4, <1>5

----------------------------------------------------------------------------
(* The inductive invariant.                                                *)

Bank == [header : NoHeader .. 3, log : Log, tail : {"erased", "value", "torn"}]
Calls == Ops \cup {NoOp}
Storing(op) == \E t \in Tags, v \in Vals : op = Op(t, v)

StoreTypes ==
  /\ banks \in [{0, 1} -> Bank]
  /\ cur \in {0, 1}
  /\ at \in Nat \ {0}
  /\ arg \in Calls /\ due \in Calls

(* Bank 0 has even epochs and bank 1 odd ones, so that a bank 0 that is    *)
(* not wiped has epoch 0.  Then the bank with the higher epoch is the      *)
(* current one, or it cannot be scanned.                                   *)
Headers ==
  /\ banks[0].header \in {NoHeader, 0, 2} /\ banks[1].header \in {NoHeader, 1, 3}
  /\ pc \notin {"down", "format"} => banks[cur].header # NoHeader
  /\ pc = "format" => cur = 0 /\ banks[0] = Erased
  /\ pc = "copy" => banks[other].header = NoHeader
  /\ cur = 1 => /\ banks[1].header # NoHeader
                /\ banks[0].header \in {NoHeader, banks[1].header - 1}
  /\ cur = 0 /\ (pc = "format" \/ banks[0].header = 0) /\ banks[1].header = 1 =>
       ScanFails(banks[1])

(* What follows the log when something is written there next.              *)
Tails ==
  /\ pc \in {"idle", "value", "sweep", "unset"} => banks[cur].tail = "erased"
  /\ pc = "copy" => banks[other].tail = "erased"

(* What is due.                                                            *)
CallsDue ==
  /\ pc \in {"idle", "format"} => due = NoOp
  /\ pc = "purge" => arg = NoOp
  /\ pc \in {"erase", "copy"} => due = arg /\ (arg = NoOp \/ Storing(arg))
  /\ pc \in {"value", "entry"} => due = arg /\ Storing(arg)
  /\ pc = "sweep" =>
       /\ Storing(arg)
       /\ Len(log) > 0 /\ arg = Op(log[Len(log)].tag, log[Len(log)].val)
  /\ pc = "unset" =>
       \E t \in Tags : /\ arg = Delete(t)
                       /\ due = arg \/ (due = NoOp /\ Lacks(log, t))

(* One entry of each tag, unless a renewal is due.                         *)
Renewing == due # NoOp /\ pc \in {"sweep", "purge", "down"}
Entries ==
  /\ ~Renewing => Single(log)
  /\ Renewing => \E k \in DOMAIN log :
       Renewal(log, k) /\ due = Op(log[Len(log)].tag, log[Len(log)].val)

(* The copy has what is before "at".                                       *)
Copied ==
  pc = "copy" =>
    /\ Single(banks[other].log)
    /\ \A t \in Tags, v \in Vals :
         Holds(banks[other].log, Len(banks[other].log), t, v)
           <=> Holds(log, at - 1, t, v)

StoreInv == StoreTypes /\ Headers /\ Tails /\ CallsDue /\ Entries /\ Copied

----------------------------------------------------------------------------
(* What a step may do to the map.                                          *)
Seen(op) == [t \in Tags |-> IF t \in op.tag THEN op.val ELSE Visible[t]]
Step ==
  \/ Visible' = Visible /\ due' \in {due, NoOp}
  \/ Visible' = Visible /\ due = NoOp /\ due' \in Ops
  \/ due # NoOp /\ due' = NoOp /\ Visible' = Seen(due)
  \/ Fragile /\ due' = NoOp /\ Visible' = [t \in Tags |-> NoValue]

LEMMA FragileOrNot == Fragile' \in BOOLEAN
BY Zenon DEF Fragile, Wipes

LEMMA StepOfMap == Step => Map!MapNext
<1> SUFFICES ASSUME Step PROVE Map!MapNext
  OBVIOUS
<1>1. NoOp = Map!NoOp /\ Ops = Map!Ops
  BY DEF NoOp, Map!NoOp, Ops, Map!Ops, Op, Map!Op
<1>2. Map!After(due) = Seen(due)
  BY DEF Map!After, Seen
<1>3. Map!Empty = [t \in Tags |-> NoValue]
  BY DEF Map!Empty
<1>4. CASE Visible' = Visible /\ due' \in {due, NoOp}
  BY <1>1, <1>4, FragileOrNot, Zenon DEF Map!MapNext, Map!Drop, Map!Rest
<1>5. CASE Visible' = Visible /\ due = NoOp /\ due' \in Ops
  BY <1>1, <1>5, FragileOrNot, Zenon DEF Map!MapNext, Map!Call
<1>6. CASE due # NoOp /\ due' = NoOp /\ Visible' = Seen(due)
  BY <1>1, <1>2, <1>6, FragileOrNot, Zenon DEF Map!MapNext, Map!Apply
<1>7. CASE Fragile /\ due' = NoOp /\ Visible' = [t \in Tags |-> NoValue]
  BY <1>1, <1>3, <1>7, FragileOrNot, Zenon DEF Map!MapNext, Map!Forget
<1> QED BY <1>4, <1>5, <1>6, <1>7 DEF Step

LEMMA Operations ==
  /\ NoOp \notin Ops
  /\ \A t \in Tags, v \in Vals : Op(t, v) \in Ops /\ Op(t, v) # NoOp
  /\ \A t \in Tags : Delete(t) \in Ops /\ Delete(t) # NoOp
  /\ \A t, u \in Tags, v, w \in Vals : Op(t, v) = Op(u, w) => t = u /\ v = w
  /\ \A t \in Tags, v \in Vals \cup {NoValue} :
       arg = Op(t, v) => ArgTag = t /\ arg.val = v
<1>1. \A t, v : Op(t, v).tag = {t} /\ Op(t, v).val = v
  BY DEF Op
<1>2. NoOp.tag = {}
  BY DEF NoOp
<1>3. \A t \in Tags, v \in Vals \cup {NoValue} : Op(t, v) \in Ops
  BY DEF Ops
<1>4. \A op \in Ops : op # NoOp
  BY <1>2 DEF Ops, Op
<1>5. ASSUME NEW t \in Tags, NEW v \in Vals \cup {NoValue}, arg = Op(t, v)
      PROVE  ArgTag = t /\ arg.val = v
  <2>1. arg.tag = {t}
    BY <1>1, <1>5
  <2> QED BY <1>1, <1>5, <2>1 DEF ArgTag
<1>6. \A t, u \in Tags, v, w \in Vals : Op(t, v) = Op(u, w) => t = u /\ v = w
  <2> SUFFICES ASSUME NEW t \in Tags, NEW u \in Tags, NEW v, NEW w, Op(t, v) = Op(u, w)
               PROVE  t = u /\ v = w
    OBVIOUS
  <2>1. Op(t, v).tag = {t} /\ Op(u, w).tag = {u} /\ Op(t, v).val = v /\ Op(u, w).val = w
    BY <1>1
  <2>2. {t} = {u} /\ v = w
    BY <2>1
  <2> QED BY <2>2
<1> QED BY <1>3, <1>4, <1>5, <1>6 DEF Delete

LEMMA Logs ==
  ASSUME StoreTypes
  PROVE  /\ cur \in {0, 1} /\ other \in {0, 1} /\ other # cur
         /\ \A b \in {0, 1} : /\ banks[b] \in Bank /\ banks[b].log \in Log
                              /\ banks[b].header \in NoHeader .. 3
                              /\ banks[b].tail \in {"erased", "value", "torn"}
         /\ log \in Log
         /\ Len(log) \in Nat /\ DOMAIN log = 1 .. Len(log)
<1>1. cur \in {0, 1} /\ other \in {0, 1} /\ other # cur
  BY DEF StoreTypes, other
<1>2. \A b \in Bank : /\ b.log \in Log /\ b.header \in NoHeader .. 3
                      /\ b.tail \in {"erased", "value", "torn"}
  BY DEF Bank
<1>3. \A b \in {0, 1} : banks[b] \in Bank
  BY DEF StoreTypes
<1>4. log \in Log
  BY <1>1, <1>2, <1>3 DEF log
<1> QED BY <1>1, <1>2, <1>3, <1>4, LogFacts

LEMMA EmptyLog ==
  /\ <<>> \in Log /\ Single(<<>>) /\ Erased \in Bank
  /\ \A t \in Tags : Lacks(<<>>, t) /\ Get(<<>>, t) = NoValue
<1>1. <<>> \in Log /\ Single(<<>>) /\ \A t \in Tags : Lacks(<<>>, t)
  BY DEF Log, Single, OneEach, Lacks
<1>2. Erased \in Bank
  BY <1>1 DEF Erased, Bank, NoHeader
<1> QED BY <1>1, <1>2, GetNothing

----------------------------------------------------------------------------
(* The start.                                                              *)

LEMMA StoreStarts == Init => StoreInv /\ Map!MapInit
<1> SUFFICES ASSUME Init PROVE StoreInv /\ Map!MapInit
  OBVIOUS
<1>1. banks \in [{0, 1} -> Bank] /\ log = <<>>
      /\ \A b \in {0, 1} : banks[b].header = NoHeader
  <2>1. Erased \in Bank /\ [Erased EXCEPT !.tail = "value"] \in Bank
    BY EmptyLog DEF Erased, Bank
  <2> QED BY <2>1 DEF Init, log, Erased
<1>2. cur = 0 /\ pc = "down" /\ at = 1 /\ arg = NoOp /\ due = NoOp
  BY DEF Init
<1>3. StoreTypes /\ Headers
  BY <1>1, <1>2 DEF StoreTypes, Headers, Calls, NoHeader
<1>4. Tails /\ CallsDue /\ Entries /\ Copied
  BY <1>1, <1>2, EmptyLog DEF Tails, CallsDue, Entries, Renewing, Copied
<1>5. Map!MapInit
  <2>1. Visible = Map!Empty
    BY <1>1, EmptyLog DEF Visible, Map!Empty
  <2>2. due = Map!NoOp
    BY <1>2 DEF NoOp, Map!NoOp
  <2>3. Fragile \in BOOLEAN
    BY Zenon DEF Fragile, Wipes
  <2> QED BY <2>1, <2>2, <2>3, Zenon DEF Map!MapInit
<1> QED BY <1>3, <1>4, <1>5 DEF StoreInv

(* Both ways of a fresh start.                                             *)
LEMMA Afresh ==
  ASSUME StoreInv, Fragile, cur' = 0, pc' = "format", arg' = NoOp, due' = NoOp,
         at' = at, banks' \in [{0, 1} -> Bank], banks'[0] = Erased,
         \/ banks'[1] = Erased
         \/ /\ banks'[1] = banks[1]
            /\ banks[1].header = 1 => ScanFails(banks[1])
  PROVE  StoreInv' /\ Step
<1>1. log' = <<>>
  BY DEF log, Erased
<1>2. banks'[0].header = NoHeader /\ Erased.header = NoHeader
  BY DEF Erased
<1>3. StoreTypes'
  BY DEF StoreInv, StoreTypes, Calls
<1>4. Headers'
  BY <1>2 DEF StoreInv, Headers, NoHeader
<1>5. Tails' /\ CallsDue' /\ Entries' /\ Copied'
  BY <1>1, EmptyLog DEF Tails, CallsDue, Entries, Renewing, Copied
<1>6. Visible' = [t \in Tags |-> NoValue]
  BY <1>1, EmptyLog DEF Visible
<1> QED BY <1>3, <1>4, <1>5, <1>6 DEF StoreInv, Step

LEMMA BootWipedKeeps == StoreInv /\ BootWiped => StoreInv' /\ Step
<1> SUFFICES ASSUME StoreInv, BootWiped PROVE StoreInv' /\ Step
  OBVIOUS
<1>1. banks' \in [{0, 1} -> Bank] /\ banks'[0] = Erased /\ banks'[1] = Erased
  BY EmptyLog DEF BootWiped
<1>2. Fragile
  BY Zenon DEF BootWiped, Fragile
<1>3. cur' = 0 /\ pc' = "format" /\ arg' = NoOp /\ due' = NoOp /\ at' = at
  BY DEF BootWiped
<1> QED BY <1>1, <1>2, <1>3, Afresh

(* The bank that is found.                                                 *)
LEMMA LatestIs ==
  ASSUME StoreInv, ~Wipes
  PROVE  /\ banks[1].header = 1 => Latest = 1
         /\ banks[1].header # 1 => Latest = 0 /\ cur = 0
<1>1. banks[0].header = 0 /\ banks[1].header \in {-1, 1, 3}
      /\ (cur = 1 => banks[1].header = 1) /\ cur \in {0, 1}
  BY DEF StoreInv, StoreTypes, Headers, Wipes, NoHeader
<1>2. banks[1].header = 1 => Latest = 1
  BY <1>1 DEF Latest, NoHeader
<1>3. banks[1].header # 1 => Latest = 0
  BY <1>1 DEF Latest, NoHeader
<1> QED BY <1>1, <1>2, <1>3

LEMMA BootFailedKeeps == StoreInv /\ BootFailed => StoreInv' /\ Step
<1> SUFFICES ASSUME StoreInv, BootFailed PROVE StoreInv' /\ Step
  OBVIOUS
<1>1. /\ banks' \in [{0, 1} -> Bank] /\ banks'[0] = Erased /\ banks'[1] = banks[1]
  BY EmptyLog DEF BootFailed, StoreInv, StoreTypes
<1>2. Latest \in {0, 1} /\ ScanFails(banks[Latest])
  BY LatestIs DEF BootFailed, Found
<1>3. banks[1].header = 1 => ScanFails(banks[1])
  BY <1>2, LatestIs DEF BootFailed
<1>4. Fragile
  BY <1>2, <1>3, LatestIs DEF BootFailed, Fragile, NoHeader
<1> QED BY <1>1, <1>3, <1>4, Afresh DEF BootFailed

LEMMA BootFoundKeeps == StoreInv /\ BootFound => StoreInv' /\ Step
<1> SUFFICES ASSUME StoreInv, BootFound PROVE StoreInv' /\ Step
  OBVIOUS
<1>1. Latest = cur /\ banks[cur].header # NoHeader
  BY LatestIs DEF BootFound, StoreInv, StoreTypes, Headers, Found, Wipes, NoHeader
<1>2. banks' = banks /\ cur' = cur /\ at' = at /\ due' = due /\ arg' = NoOp
      /\ pc = "down" /\ pc' = "purge" /\ log' = log
  BY <1>1 DEF BootFound, log
<1>3. StoreTypes' /\ Headers'
  BY <1>1, <1>2 DEF StoreInv, StoreTypes, Headers, Calls, ScanFails
<1>4. Tails' /\ CallsDue' /\ Entries' /\ Copied'
  BY <1>2 DEF StoreInv, Tails, CallsDue, Entries, Renewing, Copied
<1>5. Visible' = Visible
  BY <1>2 DEF Visible
<1> QED BY <1>2, <1>3, <1>4, <1>5 DEF StoreInv, Step

LEMMA FormatKeeps == StoreInv /\ Format => StoreInv' /\ Step
<1> SUFFICES ASSUME StoreInv, Format PROVE StoreInv' /\ Step
  OBVIOUS
<1>1. cur = 0 /\ cur' = 0 /\ banks[0] = Erased /\ due = NoOp /\ due' = NoOp
      /\ arg' = arg /\ at' = at /\ pc = "format" /\ pc' = "idle"
  BY DEF Format, StoreInv, Headers, CallsDue
<1>2. banks' = [banks EXCEPT ![0] = [Erased EXCEPT !.header = 0]]
  BY <1>1 DEF Format, StoreInv, StoreTypes
<1>3. [Erased EXCEPT !.header = 0] \in Bank
  BY EmptyLog DEF Bank, Erased, NoHeader
<1>4. /\ banks' \in [{0, 1} -> Bank] /\ banks'[1] = banks[1]
      /\ banks'[0].header = 0 /\ banks'[0].log = <<>> /\ banks'[0].tail = "erased"
  BY <1>2, <1>3 DEF StoreInv, StoreTypes, Erased
<1>5. log = <<>> /\ log' = <<>>
  BY <1>1, <1>4 DEF log, Erased
<1>6. StoreTypes'
  BY <1>1, <1>4 DEF StoreInv, StoreTypes
<1>7. Headers'
  BY <1>1, <1>4 DEF StoreInv, Headers, NoHeader
<1>8. Tails' /\ CallsDue' /\ Entries' /\ Copied'
  BY <1>1, <1>4, <1>5, EmptyLog DEF Tails, CallsDue, Entries, Renewing, Copied
<1>9. Visible' = Visible
  BY <1>5 DEF Visible
<1> QED BY <1>1, <1>6, <1>7, <1>8, <1>9 DEF StoreInv, Step

----------------------------------------------------------------------------
(* Steps within the current bank.                                          *)

(* The bank keeps its header, and the other bank all it has.               *)
LEMMA WithinBank ==
  ASSUME StoreInv, NEW b \in Bank, b.header = banks[cur].header,
         banks' = [banks EXCEPT ![cur] = b], cur' = cur, at' = at,
         pc' \notin {"format", "copy"}, pc # "format",
         pc' = "down" \/ pc # "down",
         arg' \in Calls, due' \in Calls
  PROVE  StoreTypes' /\ Headers' /\ log' = b.log /\ banks'[cur] = b /\ Copied'
<1>1. cur \in {0, 1} /\ banks \in [{0, 1} -> Bank]
  BY DEF StoreInv, StoreTypes
<1>2. banks'[cur] = b /\ banks'[1 - cur] = banks[1 - cur] /\ banks' \in [{0, 1} -> Bank]
  BY <1>1
<1>3. banks'[0].header = banks[0].header /\ banks'[1].header = banks[1].header
  BY <1>1, <1>2
<1>4. cur = 0 => banks'[1] = banks[1]
  BY <1>2
<1>5. StoreTypes'
  BY <1>1, <1>2 DEF StoreInv, StoreTypes
<1>6. Headers'
  BY <1>1, <1>3, <1>4 DEF StoreInv, Headers
<1> QED BY <1>2, <1>5, <1>6 DEF log, Copied

(* A step that only goes on.                                               *)
LEMMA GoesOn ==
  ASSUME StoreInv, UNCHANGED <<banks, cur, at>>,
         pc \notin {"down", "format"}, pc' \notin {"format", "copy"},
         arg' \in Calls, due' \in Calls
  PROVE  StoreTypes' /\ Headers' /\ log' = log /\ Visible' = Visible /\ Copied'
<1>1. banks' = banks /\ cur' = cur /\ at' = at
  OBVIOUS
<1>2. StoreTypes' /\ log' = log
  BY <1>1 DEF StoreInv, StoreTypes, log
<1>3. Headers'
  BY <1>1 DEF StoreInv, Headers, ScanFails
<1> QED BY <1>2, <1>3 DEF Visible, Copied

(* Overwriting an entry.                                                   *)
LEMMA ZeroedBank ==
  ASSUME StoreTypes, NEW k \in DOMAIN log
  PROVE  \E b \in Bank :
           /\ Zeroed(banks, k) = [banks EXCEPT ![cur] = b]
           /\ b.header = banks[cur].header /\ b.tail = banks[cur].tail
           /\ b.log = Blanked(log, k)
<1> DEFINE c == banks[cur]
           b == [c EXCEPT !.log = Blanked(log, k)]
<1>1. c \in Bank /\ log \in Log /\ c.log = log /\ cur \in {0, 1}
  BY Logs DEF log
<1>2. Blanked(log, k) \in Log
  BY <1>1, BlankedLog
<1>3. b \in Bank /\ b.header = c.header /\ b.tail = c.tail /\ b.log = Blanked(log, k)
  BY <1>1, <1>2 DEF Bank
<1>4. Zeroed(banks, k) = [banks EXCEPT ![cur] = b]
  BY <1>1 DEF Zeroed, Blanked, StoreTypes
<1> QED BY <1>3, <1>4

(* The older entry of a renewal goes, in a store or at the start.          *)
LEMMA RenewalTakesEffect ==
  ASSUME StoreInv, NEW k, Renewal(log, k), pc \in {"sweep", "purge"},
         due = Op(log[Len(log)].tag, log[Len(log)].val),
         banks' = Zeroed(banks, k), due' = NoOp,
         UNCHANGED <<cur, pc, arg, at>>
  PROVE  StoreInv' /\ Step
<1>1. log \in Log /\ Len(log) \in Nat /\ DOMAIN log = 1 .. Len(log)
      /\ k \in DOMAIN log /\ Len(log) \in DOMAIN log /\ k # Len(log)
  <2>1. log \in Log /\ Len(log) \in Nat /\ DOMAIN log = 1 .. Len(log)
    BY Logs DEF StoreInv
  <2>2. Len(log) > 0 /\ k \in 1 .. Len(log) - 1
    BY DEF Renewal
  <2>3. \A n \in Nat : n > 0 /\ k \in 1 .. n - 1 => k \in 1 .. n /\ n \in 1 .. n /\ k # n
    OBVIOUS
  <2> QED BY <2>1, <2>2, <2>3
<1>2. PICK b \in Bank : /\ banks' = [banks EXCEPT ![cur] = b]
                        /\ b.header = banks[cur].header /\ b.tail = banks[cur].tail
                        /\ b.log = Blanked(log, k)
  BY <1>1, ZeroedBank DEF StoreInv
<1>3. StoreTypes' /\ Headers' /\ log' = Blanked(log, k) /\ banks'[cur] = b /\ Copied'
  <2>1. arg' \in Calls /\ due' \in Calls
    BY DEF StoreInv, StoreTypes, Calls
  <2> QED BY <1>2, <2>1, WithinBank
<1>4. Single(log') /\ \A t \in Tags :
        Get(log', t) = IF t = log[Len(log)].tag THEN log[Len(log)].val ELSE Get(log, t)
  <2>1. \A t \in Tags : /\ Single(Blanked(log, k))
                        /\ Get(Blanked(log, k), t) =
                             IF t = log[Len(log)].tag THEN log[Len(log)].val ELSE Get(log, t)
    BY <1>1, GetRenewed
  <2>2. log[Len(log)].tag \in Tags
    <3>1. log[Len(log)].tag \in Tags \cup {NoTag}
      BY <1>1, LogFacts
    <3> QED BY <3>1 DEF Renewal
  <2> QED BY <1>3, <2>1, <2>2
<1>5. Tails' /\ Entries'
  BY <1>2, <1>3, <1>4 DEF StoreInv, Tails, Entries, Renewing
<1>6. CallsDue'
  <2>1. Len(log') = Len(log) /\ log'[Len(log)].val = log[Len(log)].val
        /\ log'[Len(log)].tag = log[Len(log)].tag
    BY <1>1, <1>3, BlankedLog
  <2> QED BY <2>1 DEF StoreInv, CallsDue
<1>7. Step
  <2>1. Visible' = Seen(due)
    BY <1>4 DEF Visible, Seen, Op
  <2>2. due # NoOp
    BY DEF Op, NoOp
  <2> QED BY <2>1, <2>2 DEF Step
<1> QED BY <1>3, <1>5, <1>6, <1>7 DEF StoreInv

(* The entries of the last tag before the last entry: none, or the older   *)
(* one of a renewal.                                                       *)
LEMMA OlderEntries ==
  ASSUME StoreInv, pc \in {"sweep", "purge"}, Len(log) > 0,
         log[Len(log)].tag # NoTag,
         NEW S, S = Live(log, log[Len(log)].tag, Len(log) - 1), S # {}
  PROVE  /\ Renewal(log, First(S))
         /\ due = Op(log[Len(log)].tag, log[Len(log)].val)
<1>1. log \in Log /\ Len(log) \in Nat /\ DOMAIN log = 1 .. Len(log)
  BY Logs DEF StoreInv
<1>2. PICK i \in S : TRUE
  OBVIOUS
<1>3. i \in 1 .. Len(log) - 1 /\ log[i].tag = log[Len(log)].tag
  BY <1>1, <1>2 DEF Live
<1>4. Renewing
  BY <1>1, <1>3 DEF StoreInv, Entries, Single, OneEach
<1>5. PICK k \in DOMAIN log :
        Renewal(log, k) /\ due = Op(log[Len(log)].tag, log[Len(log)].val)
  BY <1>4 DEF StoreInv, Entries
<1>6. \A j \in S : j = k
  BY <1>1, <1>5 DEF Live, Renewal, OneEach
<1>7. First(S) = k
  <2>1. k \in S /\ S \subseteq Nat /\ \A j \in S : k <= j
    BY <1>1, <1>2, <1>6
  <2> QED BY <2>1, FirstIs
<1> QED BY <1>5, <1>7

LEMMA PurgeStepKeeps == StoreInv /\ PurgeStep => StoreInv' /\ Step
<1> SUFFICES ASSUME StoreInv, PurgeStep PROVE StoreInv' /\ Step
  OBVIOUS
<1>1. /\ Len(log) > 0 /\ log[Len(log)].tag # NoTag
      /\ Older = Live(log, log[Len(log)].tag, Len(log) - 1) /\ Older # {}
  <2>1. log \in Log /\ Len(log) \in Nat
    BY Logs DEF StoreInv
  <2> QED BY <2>1 DEF PurgeStep, Older, Log
<1>2. pc = "purge" /\ banks' = Zeroed(banks, First(Older)) /\ due' = NoOp
      /\ UNCHANGED <<cur, pc, arg, at>>
  BY DEF PurgeStep
<1> QED BY <1>1, <1>2, OlderEntries, RenewalTakesEffect

LEMMA PurgeDoneKeeps == StoreInv /\ PurgeDone => StoreInv' /\ Step
<1> SUFFICES ASSUME StoreInv, PurgeDone PROVE StoreInv' /\ Step
  OBVIOUS
<1>1. pc = "purge" /\ pc' = (IF Dirty(banks[cur]) THEN "erase" ELSE "idle")
      /\ Older = {} /\ UNCHANGED <<banks, cur, arg, at, due>>
  BY DEF PurgeDone
<1>2. log \in Log /\ Len(log) \in Nat /\ DOMAIN log = 1 .. Len(log)
  BY Logs DEF StoreInv
<1>3. due = NoOp
  <2> SUFFICES ASSUME due # NoOp PROVE FALSE
    OBVIOUS
  <2>1. PICK k \in DOMAIN log : Renewal(log, k)
    BY <1>1 DEF StoreInv, Entries, Renewing
  <2>2. Len(log) > 0 /\ log # <<>> /\ log[Len(log)].tag # NoTag
        /\ k \in 1 .. Len(log) - 1 /\ log[k].tag = log[Len(log)].tag
    BY <1>2, <2>1 DEF Renewal
  <2>3. k \in Older
    BY <1>2, <2>2 DEF Older, Live
  <2> QED BY <1>1, <2>3
<1>4. StoreTypes' /\ Headers' /\ log' = log /\ Visible' = Visible /\ Copied'
  BY <1>1, GoesOn DEF StoreInv, StoreTypes
<1>5. Tails' /\ Entries'
  BY <1>1, <1>3, <1>4 DEF StoreInv, Tails, Dirty, Entries, Renewing
<1>6. arg = NoOp
  BY <1>1 DEF StoreInv, CallsDue
<1>7. CallsDue'
  BY <1>1, <1>3, <1>6 DEF CallsDue
<1>8. Step
  BY <1>1, <1>4 DEF Step
<1> QED BY <1>4, <1>5, <1>7, <1>8 DEF StoreInv

----------------------------------------------------------------------------
(* store_tag and delete_tag.                                               *)

LEMMA StoreKeeps ==
  ASSUME StoreInv, NEW t \in Tags, NEW v \in Vals, Store(t, v)
  PROVE  StoreInv' /\ Step
<1>1. pc = "idle" /\ due = NoOp /\ arg' = Op(t, v) /\ due' = Op(t, v)
      /\ pc' \in {"erase", "value"} /\ UNCHANGED <<banks, cur, at>>
  BY DEF Store, StoreInv, CallsDue
<1>2. Op(t, v) \in Ops /\ Op(t, v) # NoOp /\ Storing(Op(t, v))
  BY Operations DEF Storing
<1>3. StoreTypes' /\ Headers' /\ log' = log /\ Visible' = Visible /\ Copied'
  BY <1>1, <1>2, GoesOn DEF Calls
<1>4. Tails' /\ CallsDue' /\ Entries'
  BY <1>1, <1>2, <1>3 DEF StoreInv, Tails, CallsDue, Storing, Entries, Renewing
<1>5. Step
  BY <1>1, <1>2, <1>3 DEF Step
<1> QED BY <1>3, <1>4, <1>5 DEF StoreInv

LEMMA DeleteTagKeeps ==
  ASSUME StoreInv, NEW t \in Tags, DeleteTag(t)
  PROVE  StoreInv' /\ Step
<1>1. pc = "idle" /\ due = NoOp /\ arg' = Delete(t) /\ due' = Delete(t)
      /\ pc' = "unset" /\ UNCHANGED <<banks, cur, at>>
  BY DEF DeleteTag, StoreInv, CallsDue
<1>2. Delete(t) \in Ops /\ Delete(t) # NoOp
  BY Operations
<1>3. StoreTypes' /\ Headers' /\ log' = log /\ Visible' = Visible /\ Copied'
  BY <1>1, <1>2, GoesOn DEF Calls
<1>4. Tails' /\ CallsDue' /\ Entries'
  BY <1>1, <1>3 DEF StoreInv, Tails, CallsDue, Entries, Renewing
<1>5. Step
  BY <1>1, <1>2, <1>3 DEF Step
<1> QED BY <1>3, <1>4, <1>5 DEF StoreInv

LEMMA NoRoomKeeps == StoreInv /\ NoRoom => StoreInv' /\ Step
<1> SUFFICES ASSUME StoreInv, NoRoom PROVE StoreInv' /\ Step
  OBVIOUS
<1>1. pc = "value" /\ due' = NoOp /\ arg' = NoOp /\ pc' = "idle"
      /\ UNCHANGED <<banks, cur, at>>
  BY DEF NoRoom
<1>2. StoreTypes' /\ Headers' /\ log' = log /\ Visible' = Visible /\ Copied'
  BY <1>1, GoesOn DEF Calls
<1>3. Tails' /\ CallsDue' /\ Entries'
  BY <1>1, <1>2 DEF StoreInv, Tails, CallsDue, Entries, Renewing
<1>4. Step
  BY <1>1, <1>2 DEF Step
<1> QED BY <1>2, <1>3, <1>4 DEF StoreInv

LEMMA WriteValueKeeps == StoreInv /\ WriteValue => StoreInv' /\ Step
<1> SUFFICES ASSUME StoreInv, WriteValue PROVE StoreInv' /\ Step
  OBVIOUS
<1> DEFINE b == [banks[cur] EXCEPT !.tail = "value"]
<1>1. pc = "value" /\ pc' = "entry" /\ UNCHANGED <<cur, arg, at, due>>
      /\ banks' = [banks EXCEPT ![cur] = b]
  BY DEF WriteValue
<1>2. b \in Bank /\ b.header = banks[cur].header /\ b.log = log
  BY Logs DEF StoreInv, Bank, log
<1>3. StoreTypes' /\ Headers' /\ log' = log /\ Copied'
  <2> HIDE DEF b
  <2> QED BY <1>1, <1>2, WithinBank DEF StoreInv, StoreTypes
<1>4. Tails' /\ CallsDue' /\ Entries'
  BY <1>1, <1>3 DEF StoreInv, Tails, CallsDue, Entries, Renewing
<1>5. Step
  BY <1>1, <1>3 DEF Step, Visible
<1> QED BY <1>3, <1>4, <1>5 DEF StoreInv

LEMMA WriteEntryKeeps == StoreInv /\ WriteEntry => StoreInv' /\ Step
<1> SUFFICES ASSUME StoreInv, WriteEntry PROVE StoreInv' /\ Step
  OBVIOUS
<1>1. pc = "entry" /\ due = arg /\ Storing(arg) /\ Single(log)
  BY DEF WriteEntry, StoreInv, CallsDue, Entries, Renewing
<1>2. PICK t \in Tags, v \in Vals : arg = Op(t, v)
  BY <1>1 DEF Storing
<1>3. ArgTag = t /\ arg.val = v /\ arg \in Ops /\ arg # NoOp
  BY <1>2, Operations
<1> DEFINE m == Append(log, Slot(t, v))
           b == [banks[cur] EXCEPT !.log = m, !.tail = "erased"]
<1>4. log \in Log /\ Len(log) \in Nat /\ DOMAIN log = 1 .. Len(log)
      /\ banks[cur] \in Bank /\ banks[cur].log = log
  BY Logs DEF StoreInv, log
<1>5. /\ m \in Log /\ Len(m) = Len(log) + 1 /\ m[Len(m)] = Slot(t, v)
      /\ Lacks(log, t) => Single(m)
      /\ \A k \in DOMAIN log : log[k].tag = t => Renewal(m, k)
  BY <1>1, <1>4, SingleAppended
<1>6. \A u \in Tags : Get(m, u) = IF u = t /\ Lacks(log, t) THEN v ELSE Get(log, u)
  BY <1>1, <1>4, GetAppended
<1>7. Live(log, t, Len(log)) = {} <=> Lacks(log, t)
  BY <1>4 DEF Live, Lacks
<1>8. pc' = "sweep" /\ due' = (IF Lacks(log, t) THEN NoOp ELSE due)
      /\ UNCHANGED <<cur, arg, at>>
      /\ banks' = [banks EXCEPT ![cur].log = Append(@, Slot(t, v)), ![cur].tail = "erased"]
  BY <1>3, <1>7 DEF WriteEntry
<1>9. banks' = [banks EXCEPT ![cur] = b]
  BY <1>4, <1>8 DEF StoreInv, StoreTypes
<1> HIDE DEF m
<1>10. b \in Bank /\ b.header = banks[cur].header /\ b.log = m /\ b.tail = "erased"
  BY <1>4, <1>5 DEF Bank
<1> HIDE DEF b
<1>11. StoreTypes' /\ Headers' /\ log' = m /\ banks'[cur] = b /\ Copied'
  BY <1>1, <1>8, <1>9, <1>10, WithinBank DEF StoreInv, StoreTypes, Calls
<1>12. Tails'
  BY <1>8, <1>10, <1>11 DEF Tails
<1>13. Len(m) > 0 /\ m[Len(m)].tag = t /\ m[Len(m)].val = v
  BY <1>4, <1>5 DEF Slot
<1>14. CallsDue'
  BY <1>1, <1>2, <1>8, <1>11, <1>13 DEF CallsDue, Storing
<1>15. Entries'
  <2>1. CASE Lacks(log, t)
    BY <1>5, <1>8, <1>11, <2>1 DEF Entries, Renewing
  <2>2. CASE ~Lacks(log, t)
    <3>1. PICK k \in DOMAIN log : log[k].tag = t
      BY <2>2 DEF Lacks
    <3>2. Renewal(m, k) /\ k \in DOMAIN m
      BY <1>4, <1>5, <3>1, LogFacts
    <3> QED BY <1>1, <1>2, <1>3, <1>8, <1>11, <1>13, <2>2, <3>2 DEF Entries, Renewing
  <2> QED BY <2>1, <2>2
<1>16. Step
  <2>1. CASE Lacks(log, t)
    <3>1. Visible' = Seen(due)
      BY <1>1, <1>2, <1>6, <1>11, <2>1 DEF Visible, Seen, Op
    <3> QED BY <1>1, <1>3, <1>8, <2>1, <3>1 DEF Step
  <2>2. CASE ~Lacks(log, t)
    <3>1. Visible' = Visible
      BY <1>6, <1>11, <2>2 DEF Visible
    <3> QED BY <1>8, <2>2, <3>1 DEF Step
  <2> QED BY <2>1, <2>2
<1> QED BY <1>11, <1>12, <1>14, <1>15, <1>16 DEF StoreInv

LEMMA SweepStepKeeps == StoreInv /\ SweepStep => StoreInv' /\ Step
<1> SUFFICES ASSUME StoreInv, SweepStep PROVE StoreInv' /\ Step
  OBVIOUS
<1>1. /\ pc \in {"sweep", "unset"} /\ Swept # {} /\ due' = NoOp
      /\ banks' = Zeroed(banks, First(Swept)) /\ UNCHANGED <<cur, pc, arg, at>>
  BY DEF SweepStep
<1>2. log \in Log /\ Len(log) \in Nat /\ DOMAIN log = 1 .. Len(log)
  BY Logs DEF StoreInv
<1>3. CASE pc = "sweep"
  <2>1. Storing(arg) /\ Len(log) > 0 /\ arg = Op(log[Len(log)].tag, log[Len(log)].val)
    BY <1>3 DEF StoreInv, CallsDue
  <2>2. PICK t \in Tags, v \in Vals : arg = Op(t, v)
    BY <2>1 DEF Storing
  <2>3. ArgTag = t /\ t = log[Len(log)].tag
    <3>1. arg.tag = {t} /\ arg.tag = {log[Len(log)].tag}
      BY <2>1, <2>2 DEF Op
    <3> QED BY <2>2, <3>1, Operations
  <2>4. log[Len(log)].tag # NoTag /\ Swept = Live(log, log[Len(log)].tag, Len(log) - 1)
    BY <1>3, <2>2, <2>3, TlvAssumption DEF Swept, SweepEnd
  <2> QED BY <1>1, <1>3, <2>1, <2>4, OlderEntries, RenewalTakesEffect
<1>4. CASE pc = "unset"
  <2>1. PICK t \in Tags : /\ arg = Delete(t)
                          /\ due = arg \/ (due = NoOp /\ Lacks(log, t))
    BY <1>4 DEF StoreInv, CallsDue
  <2>2. ArgTag = t /\ Delete(t) # NoOp
    BY <2>1, Operations DEF Delete
  <2>3. Swept = {i \in DOMAIN log : log[i].tag = t}
    BY <1>2, <1>4, <2>2 DEF Swept, SweepEnd, Live
  <2>4. PICK k \in DOMAIN log : log[k].tag = t
    BY <1>1, <2>3
  <2>5. Single(log)
    BY <1>4 DEF StoreInv, Entries, Renewing
  <2>6. \A j \in Swept : k <= j
    BY <1>2, <2>3, <2>4, <2>5, TlvAssumption DEF Single, OneEach
  <2>7. First(Swept) = k
    <3>1. k \in Swept /\ Swept \subseteq Nat
      BY <1>2, <2>3, <2>4
    <3> QED BY <2>6, <3>1, FirstIs
  <2>8. due = Delete(t)
    BY <2>1, <2>4 DEF Lacks
  <2>9. PICK b \in Bank : /\ banks' = [banks EXCEPT ![cur] = b]
                          /\ b.header = banks[cur].header /\ b.tail = banks[cur].tail
                          /\ b.log = Blanked(log, k)
    BY <1>1, <2>4, <2>7, ZeroedBank DEF StoreInv
  <2>10. StoreTypes' /\ Headers' /\ log' = Blanked(log, k) /\ banks'[cur] = b /\ Copied'
    <3>1. arg' \in Calls /\ due' \in Calls
      BY <1>1 DEF StoreInv, StoreTypes, Calls
    <3> QED BY <1>1, <1>4, <2>9, <3>1, WithinBank
  <2>11. /\ Single(log') /\ Lacks(log', t)
         /\ \A u \in Tags : Get(log', u) = IF u = t THEN NoValue ELSE Get(log, u)
    BY <1>2, <2>4, <2>5, <2>10, GetDeleted
  <2>12. Tails' /\ Entries'
    BY <1>1, <1>4, <2>9, <2>10, <2>11 DEF StoreInv, Tails, Entries, Renewing
  <2>13. CallsDue'
    BY <1>1, <1>4, <2>1, <2>11 DEF CallsDue
  <2>14. Visible' = Seen(due)
    BY <2>8, <2>11 DEF Visible, Seen, Delete, Op
  <2>15. Step
    BY <1>1, <2>2, <2>8, <2>14 DEF Step
  <2> QED BY <2>10, <2>12, <2>13, <2>15 DEF StoreInv
<1> QED BY <1>1, <1>3, <1>4

LEMMA SweepDoneKeeps == StoreInv /\ SweepDone => StoreInv' /\ Step
<1> SUFFICES ASSUME StoreInv, SweepDone PROVE StoreInv' /\ Step
  OBVIOUS
<1>1. /\ pc \in {"sweep", "unset"} /\ Swept = {} /\ pc' = "idle"
      /\ arg' = NoOp /\ due' = NoOp /\ UNCHANGED <<banks, cur, at>>
  BY DEF SweepDone
<1>2. log \in Log /\ Len(log) \in Nat /\ DOMAIN log = 1 .. Len(log)
  BY Logs DEF StoreInv
<1>3. ~Renewing
  <2> SUFFICES ASSUME Renewing PROVE FALSE
    OBVIOUS
  <2>1. pc = "sweep"
    BY <1>1 DEF Renewing
  <2>2. PICK k \in DOMAIN log : Renewal(log, k)
    BY DEF StoreInv, Entries
  <2>3. Storing(arg) /\ Len(log) > 0 /\ arg = Op(log[Len(log)].tag, log[Len(log)].val)
    BY <2>1 DEF StoreInv, CallsDue
  <2>4. PICK t \in Tags, v \in Vals : arg = Op(t, v)
    BY <2>3 DEF Storing
  <2>5. ArgTag = t /\ t = log[Len(log)].tag
    <3>1. arg.tag = {t} /\ arg.tag = {log[Len(log)].tag}
      BY <2>3, <2>4 DEF Op
    <3> QED BY <2>4, <3>1, Operations
  <2>6. k \in Swept
    BY <1>2, <2>1, <2>2, <2>5 DEF Renewal, Swept, SweepEnd, Live
  <2> QED BY <1>1, <2>6
<1>4. StoreTypes' /\ Headers' /\ log' = log /\ Visible' = Visible /\ Copied'
  BY <1>1, GoesOn DEF Calls
<1>5. Tails' /\ CallsDue' /\ Entries'
  BY <1>1, <1>3, <1>4 DEF StoreInv, Tails, CallsDue, Entries, Renewing
<1>6. Step
  BY <1>1, <1>4 DEF Step
<1> QED BY <1>4, <1>5, <1>6 DEF StoreInv

LEMMA ResetKeeps == StoreInv /\ Reset => StoreInv' /\ Step
<1> SUFFICES ASSUME StoreInv, Reset PROVE StoreInv' /\ Step
  OBVIOUS
<1>1. /\ pc # "down" /\ pc' = "down" /\ UNCHANGED <<cur, arg, at>>
      /\ due' = IF pc \in {"sweep", "purge"} THEN due ELSE NoOp
  BY DEF Reset
<1>2. arg' \in Calls /\ due' \in Calls
  BY <1>1 DEF StoreInv, StoreTypes, Calls
<1>3. StoreTypes' /\ Headers' /\ log' = log /\ Copied'
  <2>1. CASE UNCHANGED banks
    <3>1. StoreTypes' /\ log' = log /\ Copied'
      BY <1>1, <1>2, <2>1 DEF StoreInv, StoreTypes, log, Copied
    <3>2. Headers'
      BY <1>1, <2>1 DEF StoreInv, Headers, ScanFails, Erased, NoHeader
    <3> QED BY <3>1, <3>2
  <2>2. CASE pc = "entry" /\ banks' = [banks EXCEPT ![cur].tail = "torn"]
    <3> DEFINE b == [banks[cur] EXCEPT !.tail = "torn"]
    <3>1. b \in Bank /\ b.header = banks[cur].header /\ b.log = log
      BY Logs DEF StoreInv, Bank, log
    <3>2. banks' = [banks EXCEPT ![cur] = b]
      BY <2>2
    <3> HIDE DEF b
    <3> QED BY <1>1, <1>2, <2>2, <3>1, <3>2, WithinBank
  <2> QED BY <2>1, <2>2 DEF Reset
<1>4. Tails' /\ CallsDue' /\ Entries'
  BY <1>1, <1>3 DEF StoreInv, Tails, CallsDue, Entries, Renewing
<1>5. Step
  BY <1>1, <1>3 DEF Step, Visible
<1> QED BY <1>3, <1>4, <1>5 DEF StoreInv

----------------------------------------------------------------------------
(* The move to the other bank.                                             *)

LEMMA MoveEraseKeeps == StoreInv /\ MoveErase => StoreInv' /\ Step
<1> SUFFICES ASSUME StoreInv, MoveErase PROVE StoreInv' /\ Step
  OBVIOUS
<1>1. pc = "erase" /\ pc' = "copy" /\ at' = 1 /\ UNCHANGED <<cur, arg, due>>
      /\ banks' = [banks EXCEPT ![other] = Erased]
  BY DEF MoveErase
<1>2. cur \in {0, 1} /\ other \in {0, 1} /\ other # cur /\ banks \in [{0, 1} -> Bank]
      /\ other' = other /\ DOMAIN log = 1 .. Len(log)
  BY <1>1, Logs DEF StoreInv, StoreTypes, other
<1>3. /\ banks' \in [{0, 1} -> Bank] /\ banks'[cur] = banks[cur]
      /\ banks'[other] = Erased
  BY <1>1, <1>2, EmptyLog
<1>4. log' = log
  BY <1>1, <1>3 DEF log
<1>5. StoreTypes'
  BY <1>1, <1>3 DEF StoreInv, StoreTypes
<1>6. Headers'
  BY <1>1, <1>2, <1>3 DEF StoreInv, Headers, NoHeader, Erased, other
<1>7. Tails' /\ CallsDue' /\ Entries'
  BY <1>1, <1>2, <1>3, <1>4 DEF StoreInv, Tails, CallsDue, Entries, Renewing, Erased
<1>8. Copied'
  <2>1. banks'[other].log = <<>> /\ at' - 1 = 0
    BY <1>1, <1>3 DEF Erased
  <2>2. \A t, v : ~Holds(<<>>, Len(<<>>), t, v) /\ ~Holds(log, 0, t, v)
    BY <1>2 DEF Holds
  <2> QED BY <1>2, <1>4, <2>1, <2>2, EmptyLog DEF Copied
<1>9. Step
  BY <1>1, <1>4 DEF Step, Visible
<1> QED BY <1>5, <1>6, <1>7, <1>8, <1>9 DEF StoreInv

(* What a log holds grows by one entry at a time.                          *)
LEMMA HoldsAppended ==
  ASSUME NEW l \in Log, NEW m \in Log, NEW n \in Nat, n + 1 \in DOMAIN l,
         l[n + 1].tag # NoTag, Single(l), Single(m),
         \A t \in Tags, v \in Vals : Holds(m, Len(m), t, v) <=> Holds(l, n, t, v)
  PROVE  LET k == Append(m, l[n + 1])
         IN  /\ k \in Log /\ Single(k)
             /\ \A t \in Tags, v \in Vals :
                  Holds(k, Len(k), t, v) <=> Holds(l, n + 1, t, v)
<1> DEFINE e == l[n + 1]
           k == Append(m, e)
<1>1. /\ e.tag \in Tags /\ e.val \in Vals /\ e = Slot(e.tag, e.val)
      /\ e \in [tag : Tags \cup {NoTag}, val : Vals]
  BY LogFacts DEF Slot
<1>2. Len(m) \in Nat /\ DOMAIN m = 1 .. Len(m) /\ DOMAIN l = 1 .. Len(l) /\ Len(l) \in Nat
  BY LogFacts
<1>3. ASSUME NEW j \in DOMAIN m, m[j].tag = e.tag PROVE FALSE
  <2>1. m[j].val \in Vals /\ j <= Len(m)
    BY <1>2, LogFacts
  <2>2. Holds(m, Len(m), e.tag, m[j].val)
    BY <1>3, <2>1 DEF Holds
  <2>3. PICK i \in DOMAIN l : i <= n /\ l[i].tag = e.tag
    BY <1>1, <2>1, <2>2 DEF Holds
  <2> QED BY <1>2, <2>3 DEF Single, OneEach
<1>4. Lacks(m, e.tag)
  BY <1>3 DEF Lacks
<1>5. k \in Log /\ Single(k) /\ Len(k) = Len(m) + 1 /\ k[Len(m) + 1] = e
  <2> HIDE DEF e
  <2>1. LET c == Append(m, Slot(e.tag, e.val))
        IN  c \in Log /\ Single(c) /\ Len(c) = Len(m) + 1 /\ c[Len(c)] = Slot(e.tag, e.val)
    BY <1>1, <1>4, SingleAppended
  <2> QED BY <1>1, <2>1
<1>6. \A i \in DOMAIN m : k[i] = m[i]
  <2> HIDE DEF e
  <2> QED BY <1>1, <1>2 DEF Log
<1>7. DOMAIN k = 1 .. Len(m) + 1
  <2> HIDE DEF k
  <2> QED BY <1>5, LogFacts
<1>8. ASSUME NEW t \in Tags, NEW v \in Vals
      PROVE  Holds(k, Len(k), t, v) <=> Holds(l, n + 1, t, v)
  <2> HIDE DEF k
  <2>1. Holds(k, Len(k), t, v) <=> Holds(m, Len(m), t, v) \/ (e.tag = t /\ e.val = v)
    BY <1>2, <1>5, <1>6, <1>7 DEF Holds
  <2>2. Holds(l, n + 1, t, v) <=> Holds(l, n, t, v) \/ (e.tag = t /\ e.val = v)
    BY <1>2 DEF Holds
  <2> QED BY <2>1, <2>2
<1> QED BY <1>5, <1>8

LEMMA MoveCopyKeeps == StoreInv /\ MoveCopy => StoreInv' /\ Step
<1> SUFFICES ASSUME StoreInv, MoveCopy PROVE StoreInv' /\ Step
  OBVIOUS
<1>1. pc = "copy" /\ pc' = "copy" /\ at' = at + 1 /\ UNCHANGED <<cur, arg, due>>
      /\ at <= Len(log)
      /\ banks' = IF log[at].tag = NoTag THEN banks
                  ELSE [banks EXCEPT ![other].log = Append(@, log[at])]
  BY DEF MoveCopy
<1>2. /\ cur \in {0, 1} /\ other \in {0, 1} /\ other # cur /\ other' = other
      /\ banks \in [{0, 1} -> Bank] /\ banks[other] \in Bank /\ banks[other].log \in Log
      /\ log \in Log /\ Len(log) \in Nat /\ DOMAIN log = 1 .. Len(log)
      /\ at \in Nat \ {0}
  BY <1>1, Logs DEF StoreInv, StoreTypes, other
<1>3. at \in DOMAIN log /\ at - 1 \in Nat /\ at = (at - 1) + 1
  BY <1>1, <1>2
<1>4. /\ Single(log) /\ Single(banks[other].log)
      /\ \A t \in Tags, v \in Vals :
           Holds(banks[other].log, Len(banks[other].log), t, v) <=> Holds(log, at - 1, t, v)
  BY <1>1 DEF StoreInv, Copied, Entries, Renewing
<1>5. \E b \in Bank :
        /\ banks' = [banks EXCEPT ![other] = b]
        /\ b.header = banks[other].header /\ b.tail = banks[other].tail
        /\ Single(b.log)
        /\ \A t \in Tags, v \in Vals :
             Holds(b.log, Len(b.log), t, v) <=> Holds(log, at, t, v)
  <2>1. CASE log[at].tag = NoTag
    <3>1. \A t \in Tags, v \in Vals : Holds(log, at, t, v) <=> Holds(log, at - 1, t, v)
      BY <1>2, <1>3, <2>1, TlvAssumption DEF Holds
    <3>2. banks' = [banks EXCEPT ![other] = banks[other]]
      BY <1>1, <1>2, <2>1
    <3> QED BY <1>2, <1>4, <3>1, <3>2
  <2>2. CASE log[at].tag # NoTag
    <3> DEFINE m == Append(banks[other].log, log[at])
               b == [banks[other] EXCEPT !.log = m]
    <3>1. /\ m \in Log /\ Single(m)
          /\ \A t \in Tags, v \in Vals : Holds(m, Len(m), t, v) <=> Holds(log, at, t, v)
      <4> DEFINE n == at - 1
      <4>1. n \in Nat /\ n + 1 = at /\ n + 1 \in DOMAIN log /\ log[n + 1].tag # NoTag
            /\ \A t \in Tags, v \in Vals :
                 Holds(banks[other].log, Len(banks[other].log), t, v) <=> Holds(log, n, t, v)
        BY <1>3, <1>4, <2>2
      <4>2. m = Append(banks[other].log, log[n + 1])
        BY <4>1
      <4> HIDE DEF m, n
      <4> QED BY <1>2, <1>4, <4>1, <4>2, HoldsAppended
    <3> HIDE DEF m
    <3>2. b \in Bank /\ b.header = banks[other].header /\ b.tail = banks[other].tail
          /\ b.log = m
      BY <1>2, <3>1 DEF Bank
    <3>3. banks' = [banks EXCEPT ![other] = b]
      BY <1>1, <2>2 DEF m
    <3> HIDE DEF b
    <3> QED BY <3>1, <3>2, <3>3
  <2> QED BY <2>1, <2>2
<1>6. PICK b \in Bank :
        /\ banks' = [banks EXCEPT ![other] = b]
        /\ b.header = banks[other].header /\ b.tail = banks[other].tail
        /\ Single(b.log)
        /\ \A t \in Tags, v \in Vals :
             Holds(b.log, Len(b.log), t, v) <=> Holds(log, at, t, v)
  BY <1>5
<1>7. banks' \in [{0, 1} -> Bank] /\ banks'[other] = b /\ banks'[cur] = banks[cur]
  BY <1>2, <1>6
<1>8. log' = log
  BY <1>1, <1>7 DEF log
<1>9. StoreTypes'
  BY <1>1, <1>2, <1>7 DEF StoreInv, StoreTypes
<1>10. Headers'
  BY <1>1, <1>2, <1>6, <1>7 DEF StoreInv, Headers, NoHeader, other
<1>11. Tails' /\ CallsDue' /\ Entries'
  BY <1>1, <1>2, <1>6, <1>7, <1>8 DEF StoreInv, Tails, CallsDue, Entries, Renewing
<1>12. Copied'
  <2>1. at' - 1 = at
    BY <1>1, <1>2
  <2> QED BY <1>2, <1>6, <1>7, <1>8, <2>1 DEF Copied
<1>13. Step
  BY <1>1, <1>8 DEF Step, Visible
<1> QED BY <1>9, <1>10, <1>11, <1>12, <1>13 DEF StoreInv

LEMMA MoveDoneKeeps == StoreInv /\ MoveDone => StoreInv' /\ Step
<1> SUFFICES ASSUME StoreInv, MoveDone PROVE StoreInv' /\ Step
  OBVIOUS
<1> DEFINE h == NextEpoch(banks[cur].header)
           b == [banks[other] EXCEPT !.header = h]
<1>1. pc = "copy" /\ at > Len(log) /\ cur' = other /\ UNCHANGED <<arg, at, due>>
      /\ pc' = (IF arg = NoOp THEN "idle" ELSE "value")
      /\ banks' = [banks EXCEPT ![other].header = h]
  BY DEF MoveDone
<1>2. /\ cur \in {0, 1} /\ other \in {0, 1} /\ other # cur /\ other = 1 - cur
      /\ banks \in [{0, 1} -> Bank] /\ banks[other] \in Bank /\ banks[other].log \in Log
      /\ log \in Log /\ Len(log) \in Nat /\ DOMAIN log = 1 .. Len(log)
      /\ at \in Nat \ {0}
  BY Logs DEF StoreInv, StoreTypes, other
<1>3. /\ cur = 0 => banks[0].header \in {0, 2} /\ h = banks[0].header + 1
      /\ cur = 1 => banks[1].header \in {1, 3} /\ h = IF banks[1].header = 3 THEN 0 ELSE 2
  BY <1>1, <1>2 DEF StoreInv, Headers, NoHeader, NextEpoch
<1>4. h \in 0 .. 3
  BY <1>2, <1>3
<1> HIDE DEF h
<1>5. b \in Bank /\ b.header = h /\ b.tail = "erased" /\ b.log = banks[other].log
  BY <1>1, <1>2, <1>4 DEF Bank, NoHeader, StoreInv, Tails
<1>6. banks' = [banks EXCEPT ![other] = b]
  BY <1>1
<1> HIDE DEF b
<1>7. banks' \in [{0, 1} -> Bank] /\ banks'[other] = b /\ banks'[cur] = banks[cur]
  BY <1>2, <1>5, <1>6
<1>8. log' = b.log
  BY <1>1, <1>7 DEF log
<1>9. StoreTypes'
  BY <1>1, <1>2, <1>7 DEF StoreInv, StoreTypes
<1>10. Headers'
  <2>1. CASE cur = 0
    BY <1>1, <1>2, <1>3, <1>5, <1>7, <2>1 DEF StoreInv, Headers, NoHeader, other
  <2>2. CASE cur = 1
    BY <1>1, <1>2, <1>3, <1>5, <1>7, <2>2 DEF StoreInv, Headers, NoHeader, other
  <2> QED BY <1>2, <2>1, <2>2
<1>11. Tails' /\ Copied' /\ CallsDue'
  BY <1>1, <1>5, <1>7 DEF StoreInv, Tails, Copied, CallsDue, Storing
<1>12. /\ Single(log) /\ Single(b.log)
       /\ \A t \in Tags, v \in Vals :
            Holds(b.log, Len(b.log), t, v) <=> Holds(log, Len(log), t, v)
  <2>1. \A t, v : Holds(log, at - 1, t, v) <=> Holds(log, Len(log), t, v)
    BY <1>1, <1>2 DEF Holds
  <2> QED BY <1>1, <1>5, <2>1 DEF StoreInv, Copied, Entries, Renewing
<1>13. Entries'
  BY <1>1, <1>8, <1>12 DEF Entries, Renewing
<1>14. Visible' = Visible
  BY <1>2, <1>5, <1>8, <1>12, SameHolds DEF Visible
<1>15. Step
  BY <1>1, <1>14 DEF Step
<1> QED BY <1>9, <1>10, <1>11, <1>13, <1>15 DEF StoreInv

----------------------------------------------------------------------------
LEMMA StoreSteps == StoreInv /\ [Next]_vars => StoreInv' /\ [Map!MapNext]_(Map!mapVars)
<1> SUFFICES ASSUME StoreInv, [Next]_vars
             PROVE  StoreInv' /\ [Map!MapNext]_(Map!mapVars)
  OBVIOUS
<1>1. CASE Next
  <2>1. StoreInv' /\ Step
    BY <1>1, BootWipedKeeps, BootFailedKeeps, BootFoundKeeps, FormatKeeps,
       PurgeStepKeeps, PurgeDoneKeeps, MoveEraseKeeps, MoveCopyKeeps, MoveDoneKeeps,
       StoreKeeps, NoRoomKeeps, WriteValueKeeps, WriteEntryKeeps, SweepStepKeeps,
       SweepDoneKeeps, DeleteTagKeeps, ResetKeeps
    DEF Next, Start
  <2> QED BY <2>1, StepOfMap
<1>2. CASE UNCHANGED vars
  <2>1. banks' = banks /\ cur' = cur /\ pc' = pc /\ arg' = arg /\ at' = at /\ due' = due
    BY <1>2 DEF vars
  <2>2. log' = log /\ other' = other
    BY <2>1 DEF log, other
  <2>3. StoreInv'
    BY <2>1, <2>2 DEF StoreInv, StoreTypes, Headers, ScanFails, Tails, CallsDue,
                      Entries, Renewing, Copied
  <2>4. Visible' = Visible /\ Fragile' = Fragile
    BY <2>1, <2>2 DEF Visible, Fragile, Wipes, ScanFails
  <2> QED BY <2>1, <2>3, <2>4 DEF Map!mapVars
<1> QED BY <1>1, <1>2

LEMMA OneAtMost ==
  ASSUME NEW S, \A i, j \in S : i = j
  PROVE  Cardinality(S) <= 1
<1>1. CASE S = {}
  BY <1>1, FS_EmptySet
<1>2. CASE S # {}
  <2>1. PICK i \in S : S = {i}
    BY <1>2
  <2>2. Cardinality({i}) = 1
    BY FS_Singleton, Zenon
  <2> QED BY <2>1, <2>2
<1> QED BY <1>1, <1>2

(* The key store is a map that survives resets: over any number of them at *)
(* any moment, a store or delete is seen whole or not at all, no key comes *)
(* back or is lost by a move or by a start, and all are forgotten only by  *)
(* a start from a memory that is fragile.                                  *)
THEOREM StoreIsDurable == Spec => KeepsKeys
<1>1. Init => StoreInv /\ Map!MapInit
  BY StoreStarts
<1>2. StoreInv /\ [Next]_vars => StoreInv' /\ [Map!MapNext]_(Map!mapVars)
  BY StoreSteps
<1> QED
  BY <1>1, <1>2, PTL DEF Spec, KeepsKeys, Map!MapSpec

(* A value is written to erased memory only.                               *)
THEOREM NothingWrittenTwice == Spec => []WritesErased
<1>1. Init => StoreInv
  BY StoreStarts
<1>2. StoreInv /\ [Next]_vars => StoreInv'
  BY StoreSteps
<1>3. StoreInv => WritesErased
  BY DEF StoreInv, Tails, WritesErased
<1> QED
  BY <1>1, <1>2, <1>3, PTL DEF Spec

(* Between calls a tag has one entry at most, for get_tag and the next     *)
(* move to find.                                                           *)
THEOREM NoOldValues == Spec => []OneEntryPerTag
<1>1. Init => StoreInv
  BY StoreStarts
<1>2. StoreInv /\ [Next]_vars => StoreInv'
  BY StoreSteps
<1>3. StoreInv => OneEntryPerTag
  <2> SUFFICES ASSUME StoreInv, pc \in {"idle", "value", "entry", "unset"}, NEW t \in Tags
               PROVE  Cardinality(Live(log, t, Len(log))) <= 1
    BY DEF OneEntryPerTag
  <2> DEFINE S == Live(log, t, Len(log))
  <2>1. Single(log)
    BY DEF StoreInv, Entries, Renewing
  <2>2. \A i, j \in S : i = j
    BY <2>1, Logs, TlvAssumption DEF StoreInv, Live, Single, OneEach
  <2> HIDE DEF S
  <2>3. Cardinality(S) <= 1
    BY <2>2, OneAtMost
  <2> QED BY <2>3 DEF S
<1> QED
  BY <1>1, <1>2, <1>3, PTL DEF Spec
=============================================================================

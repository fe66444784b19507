------------------------------ MODULE DenialLog ------------------------------
(***************************************************************************)
(* socket/lib/denials.js: the aggregated denials that /stats reports.  The  *)
(* rows are a Map, so they are kept here as a sequence in insertion order.  *)
(* A channel name is the sequence of its parts between the dots, <<>> where *)
(* there is none.                                                           *)
(***************************************************************************)
EXTENDS Naturals, Sequences, FiniteSets, SequencesExt, FiniteSetsExt

CONSTANTS
  Clients,      \* client tags, NoClient where there is none
  ChannelNames,
  Families,     \* first parts that look like a channel family
  Reasons,
  MaxRows,      \* max
  MaxDenials,   \* bound: denials recorded
  MaxNow        \* bound: when the clock stops

BoundsAssumption ==
  MaxRows \in Nat \ {0} /\ {MaxDenials, MaxNow} \subseteq Nat
NamesAssumption ==
  ChannelNames \subseteq Seq(Families \cup {"odd"}) /\ "odd" \notin Families

VARIABLES
  now,
  rows,     \* Denials.rows, in Map order
  recorded  \* history: how often each row was recorded

vars == <<now, rows, recorded>>

RowPrefixes == Families \cup {"other", "null"}

(* channelPrefix(): the part before the first dot, where it looks like a     *)
(* channel family.                                                           *)
ChannelPrefix_AnyPart(channel) == IF channel = <<>> THEN "null" ELSE channel[1]
ChannelPrefix(channel) ==
  IF channel = <<>> THEN "null"
  ELSE IF Len(channel) > 1 /\ channel[1] \in Families THEN channel[1]
  ELSE "other"

RowKeys == Clients \X RowPrefixes \X Reasons

TypeOK ==
  /\ now \in 0..MaxNow
  /\ rows \in Seq([key : RowKeys, count : Nat \ {0}, lastAt : 0..MaxNow])
  /\ recorded \in [RowKeys -> Nat]
  /\ Len(rows) <= MaxRows
  /\ \A i, j \in DOMAIN rows : rows[i].key = rows[j].key => i = j

Init ==
  /\ now = 0
  /\ rows = <<>>
  /\ recorded = [key \in RowKeys |-> 0]
-----------------------------------------------------------------------------
RowsOf(key) == {i \in DOMAIN rows : rows[i].key = key}

(* evict(): the first of the rows with the lowest count.                     *)
Victim_Oldest(list) == 1
Victim(list) ==
  Min({i \in DOMAIN list : \A j \in DOMAIN list : list[i].count <= list[j].count})

Full == Len(rows) >= MaxRows
Room == IF Full THEN RemoveAt(rows, Victim(rows)) ELSE rows

FirstCount_Carried == IF Full THEN rows[Victim(rows)].count + 1 ELSE 1
FirstCount == 1

MoreToCome == FoldFunction(+, 0, recorded) < MaxDenials

Record(client, channel, reason) ==
  LET key == <<client, ChannelPrefix(channel), reason>> IN
  /\ MoreToCome
  /\ recorded' = [recorded EXCEPT ![key] = @ + 1]
  /\ rows' = IF RowsOf(key) # {}
       THEN [i \in DOMAIN rows |->
              IF i \in RowsOf(key)
                THEN [key |-> key, count |-> rows[i].count + 1, lastAt |-> now]
                ELSE rows[i]]
       ELSE Append(Room, [key |-> key, count |-> FirstCount, lastAt |-> now])
  /\ UNCHANGED now

(* top(), for GET /stats, reads the rows and leaves them alone.              *)
ReadTop == UNCHANGED vars

Tick == now < MaxNow /\ now' = now + 1 /\ UNCHANGED <<rows, recorded>>

Next ==
  \/ \E client \in Clients, channel \in ChannelNames, reason \in Reasons :
       Record(client, channel, reason)
  \/ ReadTop
  \/ Tick

-----------------------------------------------------------------------------
(* Properties. *)

(* No row counts a denial that did not happen, and until more kinds of       *)
(* denials than the cap were seen every count is exact.                      *)
CountsAreHonest ==
  /\ \A i \in DOMAIN rows : rows[i].count <= recorded[rows[i].key]
  /\ Cardinality({key \in RowKeys : recorded[key] > 0}) <= MaxRows =>
       \A key \in RowKeys : recorded[key] > 0 =>
         \E i \in DOMAIN rows : rows[i] = [key |-> key, count |-> recorded[key],
                                           lastAt |-> rows[i].lastAt]

(* A full log never gives up a row while it keeps one with a lower count:    *)
(* what occurs most is never lost to a stream of new kinds of denials.       *)
FrequentRowsStay ==
  \A i, j \in DOMAIN rows :
    rows[i].count > rows[j].count =>
      \E k \in DOMAIN rows' : rows'[k].key = rows[i].key
=============================================================================

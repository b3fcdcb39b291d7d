------------------------------ MODULE KxHashTable ------------------------------
(***************************************************************************)
(* core/container/kx_hashtable.c: a table of items in order, any of which  *)
(* may have a key.  The items are a doubly linked list of value entries;   *)
(* the keys are entries in buckets, doubly linked too, each pointing at a  *)
(* value entry.  `table' is the struct and the memory behind it.           *)
(*                                                                         *)
(* Hash gives the bucket of a key; keys are told apart by their hash,      *)
(* length and verify codes, taken to differ when the keys do.  There is    *)
(* never a second key entry for a key, so that keys name their entries.    *)
(* Following a pointer to freed memory, and a walk that goes round for     *)
(* ever, raise `fault'.                                                    *)
(***************************************************************************)
EXTENDS Integers, Sequences, FiniteSets, SequencesExt

CONSTANTS Keys, Values, Buckets,
          Hash,     \* KeyHashIndex of each key
          Entries,  \* bound: the value entries there is memory for
          Nil,      \* KX_HASH_TABLE_NIL
          NoKey,    \* the null key of an item that has none
          Undef     \* KX_HASH_TABLE_UNDEF

ASSUME HashAssumption == Hash \in [Keys -> Buckets] /\ IsFiniteSet(Keys)

ASSUME EntriesAssumption ==
  /\ IsFiniteSet(Entries) /\ Entries \cap Keys = {}
  /\ Nil \notin Entries \cup Keys /\ NoKey \notin Keys

VARIABLES table, returned

vars == <<table, returned>>

BlankKey == [prev |-> Nil, next |-> Nil, valEntry |-> Nil]
BlankVal == [prev |-> Nil, next |-> Nil, key |-> NoKey, val |-> Undef]

EmptyTable ==
  [buckets |-> [b \in Buckets |-> Nil], itemNum |-> 0,
   valListHead |-> Nil, valListTail |-> Nil,
   keyEntry |-> [k \in Keys |-> BlankKey], liveKeys |-> {},
   valEntry |-> [e \in Entries |-> BlankVal], liveVals |-> {}, fault |-> FALSE]

Init == table = EmptyTable /\ returned = Undef

-------------------------------------------------------------------------------
\* Memory.  A field of no entry (Nil) is not set; one of a freed entry must not be.
Fault(t) == [t EXCEPT !.fault = TRUE]

LinkKey(t, k, field, x) ==
  IF k = Nil THEN t
  ELSE IF k \in t.liveKeys THEN [t EXCEPT !.keyEntry[k][field] = x] ELSE Fault(t)

LinkVal(t, e, field, x) ==
  IF e = Nil THEN t
  ELSE IF e \in t.liveVals THEN [t EXCEPT !.valEntry[e][field] = x] ELSE Fault(t)

FreeKey(t, k) ==
  IF k \in t.liveKeys THEN [t EXCEPT !.liveKeys = @ \ {k}, !.keyEntry[k] = BlankKey] ELSE Fault(t)

FreeVal(t, e) ==
  IF e \in t.liveVals THEN [t EXCEPT !.liveVals = @ \ {e}, !.valEntry[e] = BlankVal] ELSE Fault(t)

\* The first n places a walk from x comes to, Nil once it has come to the end.
Walk(t, x, n, field) ==
  LET at[j \in 1 .. n] ==
        IF j = 1 THEN x
        ELSE IF at[j - 1] \in t.liveKeys THEN t.keyEntry[at[j - 1]][field]
        ELSE IF at[j - 1] \in t.liveVals THEN t.valEntry[at[j - 1]][field] ELSE Nil
  IN  at

Chain(t, b) == Walk(t, t.buckets[b], Cardinality(Keys) + 1, "next")

\* GetKeyEntry: the entry of k comes before the end of its bucket.
HasEntry(t, k) ==
  LET at == Chain(t, Hash[k])
  IN  \E j \in DOMAIN at : at[j] = k /\ k \in t.liveKeys

\* The search for k neither finds it nor comes to the end.
SearchFails(t, k) ==
  LET at == Chain(t, Hash[k])
  IN  /\ ~HasEntry(t, k)
      /\ \/ at[Cardinality(Keys) + 1] # Nil
         \/ \E j \in DOMAIN at : at[j] # Nil /\ at[j] \notin t.liveKeys

Searched(t, k) == IF SearchFails(t, k) THEN Fault(t) ELSE t

NewKeyEntry(t, k, e) ==
  [t EXCEPT !.liveKeys = @ \cup {k}, !.keyEntry[k] = [BlankKey EXCEPT !.valEntry = e]]

NewValEntry(t, e, v) ==
  [t EXCEPT !.liveVals = @ \cup {e}, !.valEntry[e] = [BlankVal EXCEPT !.val = v]]

\* Unlinks and frees a key entry.  Of bucketUsed, which only the rehashing that
\* never happens would read, the model keeps nothing; CheckRehash does nothing.
DelKeyEntry(t, k) ==
  LET prev == t.keyEntry[k].prev
      next == t.keyEntry[k].next
      first == IF t.buckets[Hash[k]] = k
               THEN [t EXCEPT !.buckets[Hash[k]] = next] ELSE t
  IN  FreeKey(LinkKey(LinkKey(first, next, "prev", prev), prev, "next", next), k)

\* The value entry at the end or at the front of the list.
PushValEntry(t, e) ==
  [LinkVal(LinkVal(t, t.valListTail, "next", e), e, "prev", t.valListTail) EXCEPT
     !.valListHead = IF @ = Nil THEN e ELSE @, !.valListTail = e, !.itemNum = @ + 1]

\* A mutant: the old head keeps no link to the new one.
UnshiftValEntryOneWay(t, e) ==
  [LinkVal(t, e, "next", t.valListHead) EXCEPT
     !.valListTail = IF @ = Nil THEN e ELSE @, !.valListHead = e, !.itemNum = @ + 1]

UnshiftValEntry(t, e) ==
  [LinkVal(LinkVal(t, t.valListHead, "prev", e), e, "next", t.valListHead) EXCEPT
     !.valListTail = IF @ = Nil THEN e ELSE @, !.valListHead = e, !.itemNum = @ + 1]

\* A mutant: the item that had the key keeps it.
AddKeyEntryToBoth(t, k, e) ==
  LET t1 == Searched(LinkVal(t, e, "key", k), k)
      first == t1.buckets[Hash[k]]
      t2 == NewKeyEntry(LinkKey(t1, first, "prev", k), k, e)
      t3 == IF first # Nil THEN LinkKey(t2, k, "next", k) ELSE t2
  IN  IF t1.fault THEN t1
      ELSE IF HasEntry(t1, k) THEN [t1 EXCEPT !.keyEntry[k].valEntry = e]
      ELSE [t3 EXCEPT !.buckets[Hash[k]] = k]

\* Gives e the key k.  The item that had the key loses it, e too when it is
\* that item.  A new key entry is put before a bucket's first by linking it to
\* its own prev, that is to itself.
AddOrUpdateKeyEntry(t, k, e) ==
  LET t1 == Searched(LinkVal(t, e, "key", k), k)
      first == t1.buckets[Hash[k]]
      t2 == NewKeyEntry(LinkKey(t1, first, "prev", k), k, e)
      t3 == IF first # Nil THEN LinkKey(t2, k, "next", k) ELSE t2
  IN  IF t1.fault THEN t1
      ELSE IF HasEntry(t1, k)
      THEN [LinkVal(t1, t1.keyEntry[k].valEntry, "key", NoKey) EXCEPT !.keyEntry[k].valEntry = e]
      ELSE [t3 EXCEPT !.buckets[Hash[k]] = k]

\* SetKeyAtIndex writes the item's key once more.
SetKey(t, e, k) == LinkVal(AddOrUpdateKeyEntry(t, k, e), e, "key", k)

\* A mutant: the key's entry stays in its bucket.
DelValEntryButKey(t, e) ==
  LET prev == t.valEntry[e].prev
      next == t.valEntry[e].next
  IN  [FreeVal(LinkVal(LinkVal(t, prev, "next", next), next, "prev", prev), e) EXCEPT
         !.itemNum = @ - 1]

\* The item loses its key's entry and its neighbours are linked; neither the
\* head nor the tail of the list is moved.
DelValEntry(t, e) ==
  LET k == t.valEntry[e].key
      t1 == IF k = NoKey THEN t ELSE Searched(t, k)
      t2 == IF k # NoKey /\ ~t1.fault /\ HasEntry(t1, k) THEN DelKeyEntry(t1, k) ELSE t1
      prev == t.valEntry[e].prev
      next == t.valEntry[e].next
  IN  [FreeVal(LinkVal(LinkVal(t2, prev, "next", next), next, "prev", prev), e) EXCEPT
         !.itemNum = @ - 1]

-------------------------------------------------------------------------------
\* A mutant: from the tail it goes one entry too few.
EntryAtBehind(t, i) ==
  LET fromTail == i >= t.itemNum \div 2
      steps == IF fromTail /\ i < t.itemNum - 1 THEN t.itemNum - 2 - i
               ELSE IF fromTail THEN 0 ELSE i
      walk == Walk(t, IF fromTail THEN t.valListTail ELSE t.valListHead, steps + 1,
                   IF fromTail THEN "prev" ELSE "next")
  IN  IF i \in 0 .. (t.itemNum - 1) THEN walk[steps + 1] ELSE Nil

\* ValEntryAtIndex comes from the nearer end; Nil stands for its null result.
EntryAt(t, i) ==
  LET fromTail == i >= t.itemNum \div 2
      steps == IF fromTail THEN t.itemNum - 1 - i ELSE i
      walk == Walk(t, IF fromTail THEN t.valListTail ELSE t.valListHead, steps + 1,
                   IF fromTail THEN "prev" ELSE "next")
  IN  IF i \in 0 .. (t.itemNum - 1) THEN walk[steps + 1] ELSE Nil

\* On the way there an entry that was freed is read.
WalkFails(t, i) ==
  /\ i \in 0 .. (t.itemNum - 1)
  /\ \E j \in 0 .. (t.itemNum - 1) :
       /\ IF i >= t.itemNum \div 2 THEN i <= j ELSE j <= i
       /\ (j >= t.itemNum \div 2) = (i >= t.itemNum \div 2)
       /\ EntryAt(t, j) \notin t.liveVals

\* A table that was changed, or the fault met on the way to changing it.  What
\* such a call returns says only that it was made.
Becomes(t) == table' = t /\ returned' = Undef

Free == Entries \ table.liveVals

PushVal(v) == \E e \in Free : Becomes(PushValEntry(NewValEntry(table, e, v), e))

UnshiftVal(v) == \E e \in Free : Becomes(UnshiftValEntry(NewValEntry(table, e, v), e))

PushKv(k, v) ==
  \E e \in Free : Becomes(PushValEntry(AddOrUpdateKeyEntry(NewValEntry(table, e, v), k, e), e))

UnshiftKv(k, v) ==
  \E e \in Free : Becomes(UnshiftValEntry(AddOrUpdateKeyEntry(NewValEntry(table, e, v), k, e), e))

\* A new key's entry is put before the first of its bucket.
PutKv(k, v) ==
  \/ /\ HasEntry(table, k)
     /\ LET e == table.keyEntry[k].valEntry
        IN  Becomes(LinkVal(LinkVal(table, e, "val", v), e, "key", k))
  \/ /\ ~HasEntry(table, k)
     /\ LET first == table.buckets[Hash[k]]
            added(e) ==
              LinkKey(LinkKey(NewKeyEntry(NewValEntry(Searched(table, k), e, v), k, e),
                              first, "prev", k), k, "next", first)
        IN  \E e \in Free :
              Becomes(PushValEntry([LinkVal(added(e), e, "key", k) EXCEPT
                                      !.buckets[Hash[k]] = k], e))

SetKeyAtIndex(i, k) ==
  Becomes(IF WalkFails(table, i) THEN Fault(table)
          ELSE IF EntryAt(table, i) = Nil THEN table ELSE SetKey(table, EntryAt(table, i), k))

SetValAtIndex(i, v) ==
  Becomes(IF WalkFails(table, i) THEN Fault(table) ELSE LinkVal(table, EntryAt(table, i), "val", v))

SetKvAtIndex(i, k, v) ==
  Becomes(IF WalkFails(table, i) THEN Fault(table)
          ELSE IF EntryAt(table, i) = Nil THEN table
          ELSE SetKey(LinkVal(table, EntryAt(table, i), "val", v), EntryAt(table, i), k))

DelByIndex(i) ==
  Becomes(IF WalkFails(table, i) THEN Fault(table)
          ELSE IF EntryAt(table, i) = Nil THEN table ELSE DelValEntry(table, EntryAt(table, i)))

DelByKey(k) ==
  Becomes(IF SearchFails(table, k) THEN Fault(table)
          ELSE IF ~HasEntry(table, k) THEN table
          ELSE LET e == table.keyEntry[k].valEntry
               IN  IF e \in table.liveVals THEN DelValEntry(table, e) ELSE Fault(table))

\* Frees the keys, and forgets the items: nothing frees or finds them again,
\* so that the model takes their memory back.
Clear ==
  LET looping == \E b \in Buckets :
        \/ Chain(table, b)[Cardinality(Keys) + 1] # Nil
        \/ \E j \in DOMAIN Chain(table, b) :
             /\ Chain(table, b)[j] # Nil
             /\ \/ Chain(table, b)[j] \notin table.liveKeys
                \/ table.keyEntry[Chain(table, b)[j]].valEntry \notin table.liveVals
  IN  Becomes(IF looping THEN Fault(table) ELSE EmptyTable)

\* The clone's items are pushed in order, with the keys they have.
ShadowClone ==
  LET order == Walk(table, table.valListHead, table.itemNum, "next")
      Copy(t, e) ==
        IF e \notin table.liveVals THEN Fault(t)
        ELSE LET v == NewValEntry(t, e, table.valEntry[e].val)
             IN  PushValEntry(IF table.valEntry[e].key = NoKey THEN v
                              ELSE AddOrUpdateKeyEntry(v, table.valEntry[e].key, e), e)
      made[j \in 0 .. table.itemNum] ==
        IF j = 0 THEN EmptyTable ELSE Copy(made[j - 1], order[j])
  IN  Becomes(made[table.itemNum])

\* Reads.
AtKey(k) ==
  /\ returned' = IF HasEntry(table, k) /\ table.keyEntry[k].valEntry \in table.liveVals
                 THEN table.valEntry[table.keyEntry[k].valEntry].val ELSE Undef
  /\ table' = IF SearchFails(table, k)
                 \/ (HasEntry(table, k) /\ table.keyEntry[k].valEntry \notin table.liveVals)
              THEN Fault(table) ELSE table

ValAtIndex(i) ==
  /\ returned' = IF EntryAt(table, i) \in table.liveVals
                 THEN table.valEntry[EntryAt(table, i)].val ELSE Undef
  /\ table' = IF WalkFails(table, i) THEN Fault(table) ELSE table

KeyAtIndex(i) ==
  /\ returned' = IF EntryAt(table, i) \in table.liveVals
                 THEN table.valEntry[EntryAt(table, i)].key ELSE NoKey
  /\ table' = IF WalkFails(table, i) THEN Fault(table) ELSE table

\* The ends of an empty table are no entries, and are read all the same.
EndVal(e) ==
  /\ returned' = IF e \in table.liveVals THEN table.valEntry[e].val ELSE Undef
  /\ table' = IF e \in table.liveVals THEN table ELSE Fault(table)

FirstVal == EndVal(table.valListHead)

LastVal == EndVal(table.valListTail)

\* By an iterator, which is a value entry.
IterSetKey(e, k) == Becomes(SetKey(table, e, k))

IterSetVal(e, v) == Becomes(LinkVal(table, e, "val", v))

DelByIter(e) == Becomes(DelValEntry(table, e))

\* The old neighbour is looked up after it was overwritten: the new entry's
\* neighbour on either side is itself.
BeforeIter(e, n, v) ==
  [NewValEntry(table, n, v) EXCEPT
     !.valEntry[n].next = n, !.valEntry[n].prev = n, !.valEntry[e].prev = n,
     !.valListHead = IF @ = e THEN n ELSE @, !.itemNum = @ + 1]

AfterIter(e, n, v) ==
  [NewValEntry(table, n, v) EXCEPT
     !.valEntry[n].next = n, !.valEntry[n].prev = n, !.valEntry[e].next = n,
     !.valListTail = IF @ = e THEN n ELSE @, !.itemNum = @ + 1]

InsertValBeforeIter(e, v) == \E n \in Free : Becomes(BeforeIter(e, n, v))

InsertValAfterIter(e, v) == \E n \in Free : Becomes(AfterIter(e, n, v))

InsertKvBeforIter(e, k, v) ==
  \E n \in Free : Becomes(AddOrUpdateKeyEntry(BeforeIter(e, n, v), k, n))

InsertKvAfterIter(e, k, v) ==
  \E n \in Free : Becomes(AddOrUpdateKeyEntry(AfterIter(e, n, v), k, n))

-------------------------------------------------------------------------------
Indices == -1 .. Cardinality(Entries)

\* The calls that are right whatever the table holds.
SafeNext ==
  \/ \E v \in Values : PushVal(v) \/ UnshiftVal(v)
  \/ \E k \in Keys, v \in Values : PutKv(k, v)
  \/ \E i \in Indices, v \in Values : SetValAtIndex(i, v)
  \/ \E e \in table.liveVals, v \in Values : IterSetVal(e, v)
  \/ Clear
  \/ \E k \in Keys : AtKey(k)
  \/ \E i \in Indices : ValAtIndex(i) \/ KeyAtIndex(i)

\* Another key may be added: PushKv and its like lose the rest of a bucket.
MayAdd(k) == HasEntry(table, k) \/ table.buckets[Hash[k]] = Nil

\* An item may be given the key: its old one would go on finding it.
MayRename(e, k) == MayAdd(k) /\ (e \in table.liveVals => table.valEntry[e].key \in {NoKey, k})

\* An item may be deleted: the ends of the list do not move.
MayDelete(e) == e \notin {table.valListHead, table.valListTail}

\* Pushing the items one by one loses no key.
MayClone ==
  \A k1, k2 \in {table.valEntry[e].key : e \in table.liveVals} \ {NoKey} :
    Hash[k1] = Hash[k2] => k1 = k2

\* The other calls, where they are right too.
CarefulNext ==
  \/ \E k \in Keys, v \in Values : MayAdd(k) /\ (PushKv(k, v) \/ UnshiftKv(k, v))
  \/ \E i \in Indices, k \in Keys :
       /\ MayRename(EntryAt(table, i), k)
       /\ SetKeyAtIndex(i, k) \/ \E v \in Values : SetKvAtIndex(i, k, v)
  \/ \E e \in table.liveVals, k \in Keys : MayRename(e, k) /\ IterSetKey(e, k)
  \/ \E i \in Indices : MayDelete(EntryAt(table, i)) /\ DelByIndex(i)
  \/ \E e \in table.liveVals : MayDelete(e) /\ DelByIter(e)
  \/ \E k \in Keys : (HasEntry(table, k) => MayDelete(table.keyEntry[k].valEntry)) /\ DelByKey(k)
  \/ MayClone /\ ShadowClone
  \/ table.itemNum > 0 /\ (FirstVal \/ LastVal)

CarefulSpec == Init /\ [][~table.fault /\ (SafeNext \/ CarefulNext)]_vars

\* Every call, made without care.
CarelessNext ==
  \/ \E k \in Keys, v \in Values : PushKv(k, v) \/ UnshiftKv(k, v)
  \/ \E i \in Indices, k \in Keys : SetKeyAtIndex(i, k) \/ \E v \in Values : SetKvAtIndex(i, k, v)
  \/ \E i \in Indices : DelByIndex(i)
  \/ \E k \in Keys : DelByKey(k)
  \/ \E e \in table.liveVals :
       \/ DelByIter(e)
       \/ \E k \in Keys : IterSetKey(e, k)
       \/ \E v \in Values :
            \/ InsertValBeforeIter(e, v) \/ InsertValAfterIter(e, v)
            \/ \E k \in Keys : InsertKvBeforIter(e, k, v) \/ InsertKvAfterIter(e, k, v)
  \/ ShadowClone \/ FirstVal \/ LastVal

CarelessSpec == Init /\ [][~table.fault /\ (SafeNext \/ CarelessNext)]_vars

-------------------------------------------------------------------------------
\* No call follows a pointer to an entry that was freed, or goes round a bucket
\* for ever: an item that is deleted takes its key's entry with it, and both
\* are unlinked on either side.
NoFault == ~table.fault

Order == Walk(table, table.valListHead, table.itemNum, "next")

\* The items are as many as itemNum says, each once, whether they are walked
\* from the head or from the tail (ValEntryAtIndex does either), and nothing
\* deleted is among them.
EndsAgree ==
  /\ table.liveVals = {Order[j] : j \in DOMAIN Order}
  /\ Walk(table, table.valListTail, table.itemNum, "prev") = Reverse([j \in 1 .. table.itemNum |-> Order[j]])

\* A key that an item carries leads to that item and to no other; a key entry
\* that is found leads to an item that carries the key, and every key entry is
\* found in its bucket.  Both the item and the key entry are changed by
\* AddOrUpdateKeyEntry, PutKv and DelValEntry.
KeysFindItems ==
  /\ \A e \in table.liveVals :
       table.valEntry[e].key # NoKey =>
         HasEntry(table, table.valEntry[e].key) /\ table.keyEntry[table.valEntry[e].key].valEntry = e
  /\ \A k \in table.liveKeys :
       /\ HasEntry(table, k)
       /\ table.keyEntry[k].valEntry \in table.liveVals
       /\ table.valEntry[table.keyEntry[k].valEntry].key = k

\* The items in order: what the table stands for.
Items == [j \in 1 .. table.itemNum |->
            IF Order[j] \in table.liveVals
            THEN [key |-> table.valEntry[Order[j]].key, val |-> table.valEntry[Order[j]].val]
            ELSE [key |-> NoKey, val |-> Undef]]

Contents == INSTANCE AbstractTable WITH items <- Items

\* Used with care, the buckets and the two linked lists are a sequence of items
\* whose keys find them; so is a clone.
IsTable == Contents!Spec

\* Calls by key and by index are the abstract steps they are named for: the item
\* meant is the one found, whether its key comes first in its bucket and from
\* whichever end its index is counted (kx_hashtable.c:225-675).
CallsMatch ==
  [][/\ \A k \in Keys :
          /\ \A v \in Values : PutKv(k, v) => Contents!Put(k, v)
          /\ AtKey(k) => Contents!AtKey(k)
          /\ DelByKey(k) => ~\E j \in DOMAIN Items' : Items'[j].key = k
     /\ \A i \in Indices :
          /\ ValAtIndex(i) => Contents!ValAt(i)
          /\ DelByIndex(i) => IF i + 1 \in DOMAIN Items THEN Contents!Delete(i + 1)
                              ELSE Contents!Keep]_vars

\* kx_hashtable.h:76: "get value by key string".
KeyFindsItem ==
  \A e \in table.liveVals : table.valEntry[e].key # NoKey => HasEntry(table, table.valEntry[e].key)
===============================================================================

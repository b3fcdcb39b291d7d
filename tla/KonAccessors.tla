----------------------------- MODULE KonAccessors -----------------------------
(***************************************************************************)
(* Accessors, boxes that are a property (a value) or a directory of slots: *)
(* KonAccessor in core/node.c, the native procedures of                    *)
(* core/module/kon_accessor.c and UnBoxAccessorValue of the evaluator.     *)
(* The mode flags but "is a directory" are never read and are left out.    *)
(***************************************************************************)
EXTENDS KonTrampoline

\* The table of slots is absent in a property, and destroyed, though still
\* pointed to, once a directory is assigned a value.
AccessorsOf(W) == [isDir : BOOLEAN, value : W, table : {"none", "open", "freed"},
                   slots : [Names -> W], setter : W, dispatcher : Int]

MakePropertyAccessor(v, setter) ==
  [isDir |-> FALSE, value |-> v, table |-> "none", slots |-> NoBindings,
   setter |-> setter, dispatcher |-> 31]
MakeDirAccessor(slots) ==
  [isDir |-> TRUE, value |-> Nil, table |-> "open", slots |-> slots, setter |-> Undef,
   dispatcher |-> 31]

IsProperty(w) == IsAccessor(w) /\ ~accessors[w.id].isDir
IsDir(w) == IsAccessor(w) /\ accessors[w.id].isDir

Opened(w) == IF IsProperty(w) THEN accessors[w.id].value ELSE w

\* Follow the values of properties, as often as there are accessors: the loop
\* of the code is in a cycle if that leads to a property.
UnBoxAccessorValue(w) ==
  LET unboxed[n \in 0 .. Len(accessors)] ==
        IF n = 0 THEN w ELSE Opened(unboxed[n - 1])
  IN  unboxed[Len(accessors)]
UnboxingLoops(w) == IsProperty(UnBoxAccessorValue(w))

\* An allocation, with the new accessor or #true as the answer.
AllocAccessor(a, k) ==
  /\ accessors' = Append(accessors, a)
  /\ Bounce(Run(AccessorRef(Len(accessors) + 1), k))
  /\ UNCHANGED <<nodes, envs, conts, memos, registry, currCode>>

\* A value in place of what the accessor held.
Assign(w, v, table, answer, k) ==
  /\ accessors' = [accessors EXCEPT ![w.id].isDir = FALSE, ![w.id].value = v,
                                    ![w.id].table = table]
  /\ Bounce(Run(answer, k))
  /\ UNCHANGED <<nodes, envs, conts, memos, registry, currCode>>

\* KN_DirAccessorPutKeyProperty with an accessor to put, or one that wraps the
\* value to put.
PutKeyProp(w, key, prop, k) ==
  \/ /\ IsDir(w) /\ IsAccessor(prop)
     /\ accessors' = [accessors EXCEPT ![w.id].slots[NameOf(key)] = prop]
     /\ Bounce(Run(True, k))
     /\ UNCHANGED <<nodes, envs, conts, memos, registry, currCode>>
  \/ ~(IsDir(w) /\ IsAccessor(prop)) /\ GoOn(False, k)

PutKeyVal(w, key, v, setter, k) ==
  /\ LET prop == Append(accessors, MakePropertyAccessor(v, setter)) IN
       \/ /\ IsDir(w)
          /\ accessors' = [prop EXCEPT ![w.id].slots[NameOf(key)] = AccessorRef(Len(prop))]
          /\ Bounce(Run(True, k))
       \/ /\ ~IsDir(w)
          /\ accessors' = prop
          /\ Bounce(Run(False, k))
  /\ UNCHANGED <<nodes, envs, conts, memos, registry, currCode>>

IsKey(w) == IsSymbol(w) \/ HasTag(w, "string")
TableRead(w) == IsAccessor(w) /\ accessors[w.id].table # "freed"

\* A table that is absent has no key.
HasKey(w, key) ==
  IF accessors[w.id].slots[NameOf(key)] # Undef THEN True ELSE False
AtKey(w, key) == accessors[w.id].slots[NameOf(key)]
=============================================================================

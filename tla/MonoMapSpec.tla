----------------------------- MODULE MonoMapSpec -----------------------------
(***************************************************************************)
(* What MonoMap promises its users, without copies, log or epochs: the     *)
(* writer's operations collect in its own version of the map, a refresh    *)
(* publishes that version in one step, and a read sees one published       *)
(* version from its beginning to its end.                                  *)
(***************************************************************************)
CONSTANTS Map, Meta, Handle, Writes, Apply(_, _), EmptyMap, InitMeta

VARIABLES
  current, curMeta,  \* the writer's version, published or not
  published,         \* the version readers are sent to
  view               \* per handle, the version its read in progress sees

vars == <<current, curMeta, published, view>>

Closed  == [kind |-> "closed"]    \* the map was destroyed
NoView  == [kind |-> "none"]

Init ==
  /\ current = EmptyMap /\ curMeta = InitMeta
  /\ published = [kind |-> "unready", map |-> EmptyMap, meta |-> InitMeta]
  /\ view = [h \in Handle |-> NoView]

Write(op) ==
  /\ current' = Apply(current, op)
  /\ UNCHANGED <<curMeta, published, view>>

SetMeta(m) ==
  /\ curMeta' = m
  /\ UNCHANGED <<current, published, view>>

Refresh ==
  /\ published # Closed
  /\ published' = [kind |-> "ready", map |-> current, meta |-> curMeta]
  /\ UNCHANGED <<current, curMeta, view>>

Destroy ==
  /\ published' = Closed
  /\ UNCHANGED <<current, curMeta, view>>

Open(h) ==
  /\ view[h] = NoView
  /\ view' = [view EXCEPT ![h] = published]
  /\ UNCHANGED <<current, curMeta, published>>

Shut(h) ==
  /\ view[h] # NoView
  /\ view' = [view EXCEPT ![h] = NoView]
  /\ UNCHANGED <<current, curMeta, published>>

Next ==
  \/ \E op \in Writes : Write(op)
  \/ \E m \in Meta : SetMeta(m)
  \/ Refresh \/ Destroy
  \/ \E h \in Handle : Open(h) \/ Shut(h)

Spec == Init /\ [][Next]_vars
=============================================================================

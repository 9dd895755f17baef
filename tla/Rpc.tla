-------------------------------- MODULE Rpc --------------------------------
(***************************************************************************)
(* What callers of internal/dbus rely on: calls run one after the other,   *)
(* and each gets one outcome that is never revised: its own answer (of the *)
(* expected type or not), its own refusal (a CallError), or an error of    *)
(* the transport.                                                          *)
(***************************************************************************)
EXTENDS Naturals, Sequences

VARIABLES pending,   \* is a call in progress?
          outcomes   \* the outcomes of the finished calls, in order

Own(n) == [kind : {"reply", "mismatch", "callError"}, of : {n}]
          \cup [kind : {"transport"}, of : {0}]

Init == pending = FALSE /\ outcomes = << >>

Begin == ~pending /\ pending' = TRUE /\ UNCHANGED outcomes

End ==
  /\ pending /\ pending' = FALSE
  /\ \E o \in Own(Len(outcomes) + 1) : outcomes' = Append(outcomes, o)

Next == Begin \/ End

Spec == Init /\ [][Next]_<<pending, outcomes>>
=============================================================================

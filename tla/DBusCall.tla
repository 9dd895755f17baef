------------------------------ MODULE DBusCall ------------------------------
(***************************************************************************)
(* internal/dbus: one connection to the system bus, Dial and Call.  A Call *)
(* numbers its request, writes it and reads messages until one carries its *)
(* number.  Between the two the bus may deliver signals, and replies to    *)
(* calls that were given up: a message that cannot be decoded ends the     *)
(* Call that reads it, with the reply still to come, and callers such as   *)
(* sysupdate.Apply go on to use the connection.                            *)
(*                                                                         *)
(* Calls are counted 1, 2, ... (Hello is the first); a message carries the *)
(* count of the call it answers as well as its serial.  There is one Call  *)
(* at a time on a connection: every caller opens its own.                  *)
(***************************************************************************)
EXTENDS Naturals, Sequences

CONSTANTS SerialWidth, \* bits of a serial: 32 in the code
          MaxCalls,    \* bound: calls on one connection
          MaxSignals,  \* bound: signals sent to us
          MaxGarbled   \* bound: messages that readMessage cannot decode

(* No caller makes more than a handful of calls: serials do not wrap. *)
ASSUME CallBounds ==
  /\ SerialWidth \in Nat /\ MaxCalls \in Nat
  /\ MaxSignals \in Nat /\ MaxGarbled \in Nat
  /\ MaxCalls < 2 ^ SerialWidth

VARIABLES pc,        \* "auth", "idle", "unsent", "reading" or "closed"
          serial,    \* Conn.serial
          broken,    \* the socket is gone
          requests,  \* calls the services have not answered yet
          inbox,     \* messages sent to us and not read
          outcomes,  \* outcome of call 1, 2, ...
          signals, garbled

callVars == <<pc, serial, broken, requests, inbox, outcomes, signals, garbled>>

Reply(kind, r, readable) == [kind |-> kind, replySerial |-> r.serial, of |-> r.of,
                             readable |-> readable]
Signal == [kind |-> "signal", replySerial |-> 0, of |-> 0, readable |-> TRUE]
Transport == [kind |-> "transport", of |-> 0]

Init ==
  /\ pc = "auth"
  /\ serial = 0
  /\ broken = FALSE
  /\ requests = {}
  /\ inbox = << >>
  /\ outcomes = << >>
  /\ signals = 0 /\ garbled = 0

(* The SASL exchange, accepted or not. *)
Authenticate ==
  /\ pc = "auth"
  /\ pc' \in IF broken THEN {"closed"} ELSE {"idle", "closed"}
  /\ UNCHANGED <<serial, broken, requests, inbox, outcomes, signals, garbled>>

(* Mutant: a serial is taken back when its call failed. *)
Mut_nextSerial == IF outcomes # << >> /\ outcomes[Len(outcomes)] = Transport
                  THEN serial ELSE (serial + 1) % 2 ^ SerialWidth

nextSerial == (serial + 1) % 2 ^ SerialWidth

(* Call: the request is written, or it is not: its arguments cannot be     *)
(* encoded or the socket is gone.  The serial is used up either way.       *)
Call ==
  /\ pc = "idle"
  /\ Len(outcomes) < MaxCalls
  /\ serial' = nextSerial
  /\ \/ /\ ~broken
        /\ requests' = requests \cup {[serial |-> nextSerial, of |-> Len(outcomes) + 1]}
        /\ pc' = "reading"
     \/ pc' = "unsent" /\ UNCHANGED requests
  /\ UNCHANGED <<broken, inbox, outcomes, signals, garbled>>

(* Mutant: Dial hands out the connection whatever Hello answered. *)
Mut_ReturnIgnoresHello(o) == outcomes' = Append(outcomes, o) /\ pc' = "idle"

(* Dial closes the connection if Hello, the first call, has an error. *)
Return(o) ==
  /\ outcomes' = Append(outcomes, o)
  /\ pc' = IF outcomes = << >> /\ o.kind # "reply" THEN "closed" ELSE "idle"

(* Encoding or writing failed, or the stream ended while reading. *)
TransportFails ==
  /\ pc = "unsent" \/ (pc = "reading" /\ broken /\ inbox = << >>)
  /\ Return(Transport)
  /\ UNCHANGED <<serial, broken, requests, inbox, signals, garbled>>

(* Mutant: an error reply is skipped like a signal. *)
Mut_ReadReplySkipsErrors ==
  /\ pc = "reading" /\ inbox # << >>
  /\ LET m == Head(inbox) IN
       \/ ~m.readable /\ Return(Transport)
       \/ m.readable /\ (m.replySerial # serial \/ m.kind = "error") /\ UNCHANGED <<pc, outcomes>>
       \/ m.readable /\ m.replySerial = serial /\ m.kind = "return" /\ Return([kind |-> "reply", of |-> m.of])
  /\ inbox' = Tail(inbox)
  /\ UNCHANGED <<serial, broken, requests, signals, garbled>>

(* One turn of Call's loop: readMessage takes a whole message off the      *)
(* socket even if it cannot decode it; decodeInto may find that a reply's  *)
(* body is not what the caller expects.                                    *)
ReadReply ==
  /\ pc = "reading" /\ inbox # << >>
  /\ LET m == Head(inbox) IN
       \/ ~m.readable /\ Return(Transport)
       \/ m.readable /\ m.replySerial # serial /\ UNCHANGED <<pc, outcomes>>
       \/ /\ m.readable /\ m.replySerial = serial
          /\ \E kind \in IF m.kind = "error" THEN {"callError"} ELSE {"reply", "mismatch"} :
               Return([kind |-> kind, of |-> m.of])
  /\ inbox' = Tail(inbox)
  /\ UNCHANGED <<serial, broken, requests, signals, garbled>>

---------------------------------------------------------------------------
(* The bus and the services.                                               *)

Answer(n) ==
  \E r \in requests, kind \in {"return", "error"}, readable \in BOOLEAN :
    /\ r.of = n
    /\ readable \/ garbled < MaxGarbled
    /\ garbled' = IF readable THEN garbled ELSE garbled + 1
    /\ requests' = requests \ {r}
    /\ inbox' = Append(inbox, Reply(kind, r, readable))
    /\ UNCHANGED <<pc, serial, broken, outcomes, signals>>

(* NameAcquired follows the answer to Hello; others may come at any time. *)
SendSignal ==
  /\ signals < MaxSignals
  /\ serial > 0
  /\ signals' = signals + 1
  /\ \/ inbox' = Append(inbox, Signal) /\ UNCHANGED garbled
     \/ /\ garbled < MaxGarbled /\ garbled' = garbled + 1
        /\ inbox' = Append(inbox, [Signal EXCEPT !.readable = FALSE])
  /\ UNCHANGED <<pc, serial, broken, requests, outcomes>>

Disconnect ==
  /\ ~broken /\ pc # "closed"
  /\ broken' = TRUE
  /\ requests' = {}
  /\ UNCHANGED <<pc, serial, inbox, outcomes, signals, garbled>>

Close ==
  /\ pc = "idle" /\ outcomes # << >>
  /\ pc' = "closed"
  /\ UNCHANGED <<serial, broken, requests, inbox, outcomes, signals, garbled>>

Next ==
  \/ Authenticate \/ Call \/ TransportFails \/ ReadReply \/ Close
  \/ (\E n \in 1..MaxCalls : Answer(n)) \/ SendSignal \/ Disconnect

Spec == Init /\ [][Next]_callVars

(* A Call reads what is there to read, and the services answer: Call has   *)
(* no deadline of its own.                                                 *)
CallFairness ==
  /\ WF_callVars(ReadReply \/ TransportFails)
  /\ \A n \in 1..MaxCalls : WF_callVars(Answer(n))

FairSpec == Spec /\ CallFairness

---------------------------------------------------------------------------
(* Properties.                                                             *)

Serials == 0..(2 ^ SerialWidth - 1)
Messages == [kind : {"return", "error", "signal"}, replySerial : Serials,
             of : 0..MaxCalls, readable : BOOLEAN]
Outcomes == [kind : {"reply", "mismatch", "callError", "transport"}, of : 0..MaxCalls]

(* Every variable has its type, and a connection in use is one whose       *)
(* Hello was answered.                                                     *)
TypeOK ==
  /\ pc \in {"auth", "idle", "unsent", "reading", "closed"}
  /\ serial \in 0..MaxCalls
  /\ broken \in BOOLEAN
  /\ requests \in SUBSET [serial : Serials, of : 1..MaxCalls]
  /\ inbox \in Seq(Messages)
  /\ outcomes \in Seq(Outcomes)
  /\ Len(outcomes) <= MaxCalls
  /\ pc = "idle" /\ outcomes # << >> => outcomes[1].kind = "reply"
  /\ signals \in 0..MaxSignals /\ garbled \in 0..MaxGarbled

R == INSTANCE Rpc WITH pending <- pc \in {"unsent", "reading"}

(* Seen by its callers a connection is Rpc: a Call ends with the answer to *)
(* that very call or with an error, and never with what was meant for a    *)
(* call given up before it, whatever signals, late replies and undecodable *)
(* messages lie between ("Not our reply ... keep reading", dbus.go:127).   *)
CallsAreRpc == R!Spec

(* While the services answer or the bus hangs up, every Call returns: no   *)
(* order of signals, errors and undecodable messages leaves it reading for *)
(* a reply that has passed.                                                *)
CallReturns == pc = "reading" ~> pc # "reading"

---------------------------------------------------------------------------
(* The inductive invariant behind TypeOK and CallsAreRpc (DBusCallProofs). *)

InCall == pc \in {"unsent", "reading"}

(* A serial is used up by every call and by nothing else. *)
SerialCounts == serial = IF InCall THEN Len(outcomes) + 1 ELSE Len(outcomes)

(* A request, and an answer on its way to us, have the serial of the call  *)
(* they belong to, a call already made; a signal has none.                 *)
SerialsNameCalls ==
  /\ \A r \in requests : r.serial = r.of /\ r.of <= serial
  /\ \A i \in DOMAIN inbox : inbox[i].replySerial = inbox[i].of /\ inbox[i].of <= serial

(* Until the connection is closed there is a Hello that was answered, or   *)
(* no call that has ended.                                                 *)
HelloFirst ==
  /\ pc = "auth" => outcomes = << >>
  /\ pc # "closed" /\ outcomes # << >> => outcomes[1].kind = "reply"

IInv == TypeOK /\ SerialCounts /\ SerialsNameCalls /\ HelloFirst
=============================================================================

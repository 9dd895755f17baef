--------------------------- MODULE DBusCallProofs ---------------------------
(* Proofs about module DBusCall, for any number of calls that serials can  *)
(* number, and any number of signals and undecodable messages.             *)
EXTENDS DBusCall, SequenceTheorems, TLAPS

(* nextSerial does not wrap on the calls a connection makes. *)
LEMMA NoWrap ==
  ASSUME serial \in Nat, serial < MaxCalls
  PROVE  nextSerial = serial + 1 /\ nextSerial \in Serials
<1>1. 2 ^ SerialWidth \in Nat
  BY CallBounds
<1>2. serial + 1 < 2 ^ SerialWidth
  BY <1>1, CallBounds
<1> QED
  BY <1>1, <1>2 DEF nextSerial, Serials

(* A message taken off the inbox is one of the messages that were there,   *)
(* and so are the ones that stay.                                          *)
LEMMA TakeMessage ==
  ASSUME IInv, inbox # << >>
  PROVE  /\ Head(inbox) \in Messages
         /\ Head(inbox).replySerial = Head(inbox).of
         /\ Tail(inbox) \in Seq(Messages)
         /\ \A i \in DOMAIN Tail(inbox) :
              Tail(inbox)[i].replySerial = Tail(inbox)[i].of /\ Tail(inbox)[i].of <= serial
<1>1. inbox \in Seq(Messages) /\ SerialsNameCalls
  BY DEF IInv, TypeOK
<1>2. Head(inbox) = inbox[1] /\ 1 \in DOMAIN inbox
  BY <1>1, LenProperties, EmptySeq
<1>3. /\ Head(inbox) \in Messages /\ Tail(inbox) \in Seq(Messages)
      /\ Len(Tail(inbox)) = Len(inbox) - 1
      /\ \A i \in 1..Len(Tail(inbox)) : Tail(inbox)[i] = inbox[i + 1]
  BY <1>1, HeadTailProperties
<1>4. DOMAIN inbox = 1..Len(inbox) /\ DOMAIN Tail(inbox) = 1..Len(Tail(inbox)) /\ Len(inbox) \in Nat
  BY <1>1, <1>3, LenProperties
<1>5. \A i \in DOMAIN Tail(inbox) : Tail(inbox)[i] = inbox[i + 1] /\ i + 1 \in DOMAIN inbox
  BY <1>3, <1>4
<1> QED
  BY <1>1, <1>2, <1>3, <1>5 DEF SerialsNameCalls

(* A message put into the inbox leaves the others where they are. *)
LEMMA AddMessage ==
  ASSUME IInv, NEW m \in Messages, m.replySerial = m.of, m.of <= serial
  PROVE  /\ Append(inbox, m) \in Seq(Messages)
         /\ \A i \in DOMAIN Append(inbox, m) :
              /\ Append(inbox, m)[i].replySerial = Append(inbox, m)[i].of
              /\ Append(inbox, m)[i].of <= serial
<1>1. inbox \in Seq(Messages) /\ SerialsNameCalls
  BY DEF IInv, TypeOK
<1>2. /\ Append(inbox, m) \in Seq(Messages)
      /\ Len(Append(inbox, m)) = Len(inbox) + 1
      /\ \A i \in 1..Len(inbox) : Append(inbox, m)[i] = inbox[i]
      /\ Append(inbox, m)[Len(inbox) + 1] = m
  BY <1>1, AppendProperties
<1>3. /\ DOMAIN inbox = 1..Len(inbox) /\ Len(inbox) \in Nat
      /\ DOMAIN Append(inbox, m) = 1..(Len(inbox) + 1)
  BY <1>1, <1>2, LenProperties
<1>4. ASSUME NEW i \in DOMAIN Append(inbox, m)
      PROVE  (i \in DOMAIN inbox /\ Append(inbox, m)[i] = inbox[i]) \/ Append(inbox, m)[i] = m
  BY <1>2, <1>3
<1> QED
  BY <1>1, <1>2, <1>4 DEF SerialsNameCalls

(* The end of a call: its outcome is counted, and Hello's decides whether  *)
(* the connection is used.                                                 *)
LEMMA CallEnds ==
  ASSUME IInv, InCall, NEW o \in Outcomes, Return(o), serial' = serial
  PROVE  /\ outcomes' \in Seq(Outcomes) /\ Len(outcomes') <= MaxCalls
         /\ pc' \in {"idle", "closed"}
         /\ SerialCounts' /\ HelloFirst'
         /\ pc' = "idle" /\ outcomes' # << >> => outcomes'[1].kind = "reply"
<1>1. /\ outcomes \in Seq(Outcomes) /\ SerialCounts /\ HelloFirst
      /\ serial \in 0..MaxCalls /\ Len(outcomes) \in Nat
  BY DEF IInv, TypeOK
<1>2. /\ outcomes' \in Seq(Outcomes) /\ Len(outcomes') = Len(outcomes) + 1
      /\ \A i \in 1..Len(outcomes) : outcomes'[i] = outcomes[i]
      /\ outcomes'[Len(outcomes) + 1] = o
  BY <1>1, AppendProperties DEF Return
<1>3. pc' \in {"idle", "closed"} /\ (pc' = "idle" => outcomes # << >> \/ o.kind = "reply")
  BY DEF Return
<1>4. serial = Len(outcomes) + 1
  BY <1>1 DEF SerialCounts
<1>5. SerialCounts' /\ Len(outcomes') <= MaxCalls
  BY <1>1, <1>2, <1>3, <1>4, CallBounds DEF SerialCounts, InCall
<1>6. pc' = "idle" => outcomes'[1].kind = "reply"
  <2>1. CASE outcomes = << >>
    BY <2>1, <1>2, <1>3
  <2>2. CASE outcomes # << >>
    <3>1. outcomes[1].kind = "reply"
      BY <1>1, <2>2 DEF HelloFirst, InCall
    <3>2. 1 \in 1..Len(outcomes)
      BY <1>1, <2>2, EmptySeq
    <3> QED
      BY <1>2, <3>1, <3>2
  <2> QED
    BY <2>1, <2>2
<1> QED
  BY <1>2, <1>3, <1>5, <1>6 DEF HelloFirst

(* The invariant is inductive. *)
LEMMA InvInductive ==
  /\ Init => IInv
  /\ IInv /\ [Next]_callVars => IInv'
<1> USE CallBounds
<1>1. Init => IInv
  <2> SUFFICES ASSUME Init PROVE IInv
    OBVIOUS
  <2>1. broken \in BOOLEAN
    BY Zenon DEF Init
  <2>2. /\ pc = "auth" /\ serial = 0 /\ requests = {} /\ inbox = << >> /\ outcomes = << >>
        /\ signals = 0 /\ garbled = 0
    BY Zenon DEF Init
  <2>3. << >> \in Seq(Messages) /\ << >> \in Seq(Outcomes) /\ Len(<< >>) = 0
    BY EmptySeq
  <2>4. TypeOK
    BY <2>1, <2>2, <2>3 DEF TypeOK
  <2>5. SerialCounts /\ SerialsNameCalls /\ HelloFirst
    BY <2>2, <2>3 DEF SerialCounts, SerialsNameCalls, HelloFirst, InCall
  <2> QED
    BY <2>4, <2>5 DEF IInv
<1>2. IInv /\ [Next]_callVars => IInv'
  <2> SUFFICES ASSUME IInv, [Next]_callVars PROVE IInv'
    OBVIOUS
  <2>0. TypeOK /\ SerialCounts /\ SerialsNameCalls /\ HelloFirst
    BY DEF IInv
  <2>1. CASE UNCHANGED callVars
    BY <2>0, <2>1 DEF callVars, IInv, TypeOK, SerialCounts, SerialsNameCalls, HelloFirst, InCall
  <2>2. CASE Authenticate \/ Close \/ Disconnect
    <3>1. /\ UNCHANGED <<serial, inbox, outcomes, signals, garbled>>
          /\ requests' \subseteq requests
      BY <2>2 DEF Authenticate, Close, Disconnect
    <3>2. \/ pc' = pc
          \/ pc' \in {"idle", "closed"} /\ pc \in {"auth", "idle"}
      BY <2>2 DEF Authenticate, Close, Disconnect
    <3>3. broken' \in BOOLEAN
      BY <2>0, <2>2, Zenon DEF Authenticate, Close, Disconnect, TypeOK
    <3>4. TypeOK'
      BY <2>0, <3>1, <3>2, <3>3 DEF TypeOK, HelloFirst
    <3>5. SerialCounts' /\ SerialsNameCalls' /\ HelloFirst'
      BY <2>0, <3>1, <3>2 DEF SerialCounts, SerialsNameCalls, HelloFirst, InCall
    <3> QED
      BY <3>4, <3>5 DEF IInv
  <2>3. CASE Call
    <3>1. /\ pc = "idle" /\ serial = Len(outcomes) /\ serial \in Nat /\ serial < MaxCalls
      BY <2>0, <2>3 DEF Call, SerialCounts, InCall, TypeOK
    <3>2. serial' = serial + 1 /\ serial' \in Serials
      BY <2>3, <3>1, NoWrap DEF Call
    <3>3. pc' \in {"unsent", "reading"} /\ UNCHANGED <<broken, inbox, outcomes, signals, garbled>>
      BY <2>3 DEF Call
    <3>4. \A r \in requests' : r \in requests \/ r = [serial |-> serial', of |-> Len(outcomes) + 1]
      BY <2>3 DEF Call
    <3>5. requests' \in SUBSET [serial : Serials, of : 1..MaxCalls]
      BY <2>0, <3>1, <3>2, <3>4 DEF TypeOK
    <3>6. TypeOK'
      BY <2>0, <3>1, <3>2, <3>3, <3>5 DEF TypeOK
    <3>7. \A r \in requests' : r.serial = r.of /\ r.of <= serial'
      BY <2>0, <3>1, <3>2, <3>4 DEF SerialsNameCalls, TypeOK
    <3>8. \A i \in DOMAIN inbox : inbox[i].of \in Nat
      <4>1. inbox \in Seq(Messages)
        BY <2>0 DEF TypeOK
      <4>2. \A i \in DOMAIN inbox : inbox[i] \in Messages
        BY <4>1, ElementOfSeq, LenProperties
      <4> QED
        BY <4>2 DEF Messages
    <3>9. SerialCounts' /\ SerialsNameCalls' /\ HelloFirst'
      BY <2>0, <3>1, <3>2, <3>3, <3>7, <3>8
         DEF SerialCounts, SerialsNameCalls, HelloFirst, InCall
    <3> QED
      BY <3>6, <3>9 DEF IInv
  <2>4. CASE TransportFails
    <3>1. InCall /\ Return(Transport) /\ UNCHANGED <<serial, broken, requests, inbox, signals, garbled>>
      BY <2>4 DEF TransportFails, InCall
    <3>2. Transport \in Outcomes
      BY DEF Transport, Outcomes
    <3> QED
      BY <2>0, <3>1, <3>2, CallEnds DEF IInv, TypeOK, SerialsNameCalls
  <2>5. CASE ReadReply
    <3>1. /\ pc = "reading" /\ inbox # << >> /\ inbox' = Tail(inbox)
          /\ UNCHANGED <<serial, broken, requests, signals, garbled>>
      BY <2>5 DEF ReadReply
    <3>2. inbox' \in Seq(Messages) /\ SerialsNameCalls'
      BY <2>0, <3>1, TakeMessage DEF SerialsNameCalls
    <3>3. CASE UNCHANGED <<pc, outcomes>>
      BY <2>0, <3>1, <3>2, <3>3 DEF IInv, TypeOK, SerialCounts, HelloFirst, InCall
    <3>4. CASE \E o \in Outcomes : Return(o)
      BY <2>0, <3>1, <3>2, <3>4, CallEnds DEF IInv, TypeOK, InCall
    <3>5. Head(inbox).of \in 0..MaxCalls
      BY <3>1, TakeMessage DEF Messages
    <3>6. Transport \in Outcomes
      BY DEF Transport, Outcomes
    <3>7. \A kind \in {"reply", "mismatch", "callError"} :
            [kind |-> kind, of |-> Head(inbox).of] \in Outcomes
      BY <3>5 DEF Outcomes
    <3>8. \/ UNCHANGED <<pc, outcomes>>
          \/ Return(Transport)
          \/ \E kind \in {"reply", "mismatch", "callError"} :
               Return([kind |-> kind, of |-> Head(inbox).of])
      BY <2>5 DEF ReadReply
    <3> QED
      BY <3>3, <3>4, <3>6, <3>7, <3>8
  <2>6. CASE \E n \in 1..MaxCalls : Answer(n)
    <3>1. PICK r \in requests, kind \in {"return", "error"}, readable \in BOOLEAN :
            /\ readable \/ garbled < MaxGarbled
            /\ garbled' = IF readable THEN garbled ELSE garbled + 1
            /\ requests' = requests \ {r}
            /\ inbox' = Append(inbox, Reply(kind, r, readable))
            /\ UNCHANGED <<pc, serial, broken, outcomes, signals>>
      BY <2>6 DEF Answer
    <3>2. /\ r.serial \in Serials /\ r.of \in 1..MaxCalls
          /\ r.serial = r.of /\ r.of <= serial
      BY <2>0 DEF TypeOK, SerialsNameCalls
    <3>3. /\ Reply(kind, r, readable) \in Messages
          /\ Reply(kind, r, readable).replySerial = r.serial
          /\ Reply(kind, r, readable).of = r.of
      BY <3>2 DEF Reply, Messages
    <3>4. inbox' \in Seq(Messages) /\ SerialsNameCalls'
      BY <2>0, <3>1, <3>2, <3>3, AddMessage DEF SerialsNameCalls
    <3>5. garbled' \in 0..MaxGarbled
      BY <2>0, <3>1 DEF TypeOK
    <3> QED
      BY <2>0, <3>1, <3>4, <3>5 DEF IInv, TypeOK, SerialCounts, HelloFirst, InCall
  <2>7. CASE SendSignal
    <3>1. 0 \in Serials /\ serial \in Nat
      BY <2>0 DEF TypeOK, Serials
    <3>2. PICK m \in {Signal, [Signal EXCEPT !.readable = FALSE]} : inbox' = Append(inbox, m)
      BY <2>7 DEF SendSignal
    <3>3. m \in Messages /\ m.replySerial = 0 /\ m.of = 0
      <4>1. CASE m = Signal
        BY <3>1, <4>1 DEF Signal, Messages
      <4>2. CASE m = [Signal EXCEPT !.readable = FALSE]
        <5>1. m = [kind |-> "signal", replySerial |-> 0, of |-> 0, readable |-> FALSE]
          BY <4>2 DEF Signal
        <5> QED
          BY <3>1, <5>1 DEF Messages
      <4> QED
        BY <4>1, <4>2
    <3>4. /\ UNCHANGED <<pc, serial, broken, requests, outcomes>>
          /\ signals' \in 0..MaxSignals /\ garbled' \in 0..MaxGarbled
      BY <2>0, <2>7 DEF SendSignal, TypeOK
    <3>5. inbox' \in Seq(Messages) /\ SerialsNameCalls'
      BY <2>0, <3>1, <3>2, <3>3, <3>4, AddMessage DEF SerialsNameCalls
    <3> QED
      BY <2>0, <3>4, <3>5 DEF IInv, TypeOK, SerialCounts, HelloFirst, InCall
  <2> QED
    BY <2>1, <2>2, <2>3, <2>4, <2>5, <2>6, <2>7 DEF Next
<1> QED
  BY <1>1, <1>2

(* Every variable keeps its type, serials count up without a wrap, and a   *)
(* connection that Dial has handed out is one whose Hello was answered.    *)
THEOREM TypeCorrect == Spec => []TypeOK
<1>1. IInv => TypeOK
  BY DEF IInv
<1> QED
  BY <1>1, InvInductive, PTL DEF Spec

(* The connection implements Rpc: every Call ends with the answer to that  *)
(* very call or with an error, whatever lies between request and reply,    *)
(* and no outcome is revised (Conn.Call, dbus.go).                         *)
THEOREM ImplementsRpc == Spec => CallsAreRpc
<1>1. Init => R!Init
  BY DEF Init, R!Init
<1>2. IInv /\ [Next]_callVars => [R!Next]_<<pc \in {"unsent", "reading"}, outcomes>>
  <2> SUFFICES ASSUME IInv, [Next]_callVars
               PROVE  [R!Next]_<<pc \in {"unsent", "reading"}, outcomes>>
    OBVIOUS
  <2>0. TypeOK /\ SerialCounts
    BY DEF IInv
  <2>1. ASSUME InCall, NEW o \in R!Own(Len(outcomes) + 1), Return(o)
        PROVE  R!End
    <3>1. pc' \in {"idle", "closed"} /\ outcomes' = Append(outcomes, o)
      BY <2>1 DEF Return
    <3> QED
      BY <2>1, <3>1 DEF R!End, InCall
  <2>2. CASE UNCHANGED callVars
    BY <2>2 DEF callVars
  <2>3. CASE Authenticate \/ Close
    BY <2>3 DEF Authenticate, Close
  <2>4. CASE Call
    BY <2>4 DEF Call, R!Next, R!Begin
  <2>5. CASE TransportFails
    <3>1. InCall /\ Return(Transport)
      BY <2>5 DEF TransportFails, InCall
    <3>2. Transport \in R!Own(Len(outcomes) + 1)
      BY DEF Transport, R!Own
    <3> QED
      BY <2>1, <3>1, <3>2 DEF R!Next
  <2>6. CASE ReadReply
    <3>1. pc = "reading" /\ inbox # << >>
      BY <2>6 DEF ReadReply
    <3>2. serial = Len(outcomes) + 1 /\ Head(inbox).replySerial = Head(inbox).of
      BY <2>0, <3>1, TakeMessage DEF SerialCounts, InCall
    <3>3. Transport \in R!Own(Len(outcomes) + 1)
      BY DEF Transport, R!Own
    <3>4. CASE UNCHANGED <<pc, outcomes>>
      BY <3>4
    <3>5. CASE \E o \in R!Own(Len(outcomes) + 1) : Return(o)
      BY <2>1, <3>1, <3>5 DEF InCall, R!Next
    <3> QED
      BY <2>6, <3>2, <3>3, <3>4, <3>5 DEF ReadReply, R!Own
  <2>7. CASE (\E n \in 1..MaxCalls : Answer(n)) \/ SendSignal \/ Disconnect
    BY <2>7 DEF Answer, SendSignal, Disconnect
  <2> QED
    BY <2>2, <2>3, <2>4, <2>5, <2>6, <2>7 DEF Next
<1> QED
  BY <1>1, <1>2, InvInductive, PTL DEF Spec, CallsAreRpc, R!Spec
=============================================================================

---------------------------- MODULE DBusMessages ----------------------------
(***************************************************************************)
(* internal/dbus, message.go: a method call is encoded for a peer that     *)
(* follows the D-Bus standard, and the peer's messages are read off the    *)
(* stream one after the other and handed to the caller's variables.        *)
(***************************************************************************)
EXTENDS DBusWire

CONSTANTS Calls,       \* calls slfhst may make: [dest, sig, args], with
                       \* valid and read: is it well-typed, what it says
          Replies(_),  \* messages the peer may send after a call: [type,
                       \* of, name, sig, args], what the caller asks for:
                       \* [outSig, dest], with readable and expect: the
                       \* types slfhst knows, what the caller gets
          MaxMessages  \* bound: messages the peer sends

VARIABLES pc,        \* "idle", "refused", "written", "open", "ended" or "closed"
          call,      \* the call that was encoded: << >> or <<c>>
          wire,      \* its bytes
          heard,     \* what the peer read of it, or Err
          sent,      \* messages the peer sent
          whole,     \* how many of them arrive in full
          stream,    \* bytes that were sent and not read
          received   \* what slfhst made of each message

msgVars == <<pc, call, wire, heard, sent, whole, stream, received>>

msgType == [call |-> 1, return |-> 2, error |-> 3, signal |-> 4]
(* The codes slfhst has names for, and sender, which only its peers write. *)
field == [path |-> 1, interface |-> 2, member |-> 3, errorName |-> 4,
          replySerial |-> 5, destination |-> 6, sender |-> 7, signature |-> 8]

Init ==
  /\ pc = "idle"
  /\ call = << >> /\ wire = << >> /\ heard = Err
  /\ sent = << >> /\ whole = 0
  /\ stream = << >>
  /\ received = << >>

---------------------------------------------------------------------------
(* Messages.                                                               *)

Field(code, sig, val) == Go("[]any", <<Go("byte", code), Variant(sig, val)>>)
FieldsSig == <<"a", "(", "y", "v", ")">>

(* Mutant: an aligned header is padded all the same. *)
Mut_headerPad(pos) == 8 - (pos % 8)

headerPad(pos) == (8 - (pos % 8)) % 8

(* The fixed part, the header fields, padding, the body. *)
Message(al, type, serial, fields, sig, args) ==
  LET body == encodeMembers(al, Ok(<< >>), Types(sig), args)
      fixed == <<108, msgType[type], 0, 1>> \o LE(Len(body.buf), 4) \o LE(serial, 4)
      header == encodeValue(al, fixed, FieldsSig, Go("[]any", fields))
  IN  IF body.ok /\ header.ok THEN Ok(Pad(header.buf, 8) \o body.buf) ELSE Err

SignatureField(sig) ==
  IF sig = << >> THEN << >> ELSE <<Field(field.signature, <<"g">>, Str(sig))>>

(* Path, interface and method are one-byte names. *)
CallFields(j) ==
  << Field(field.path, <<"o">>, Str(<<1>>)), Field(field.interface, <<"s">>, Str(<<2>>)),
     Field(field.member, <<"s">>, Str(<<3>>)) >>
  \o (IF j.dest = << >> THEN << >> ELSE <<Field(field.destination, <<"s">>, Str(j.dest))>>)
  \o SignatureField(j.sig)

encodeMethodCall(j) == Message(alignmentOf, "call", 1, CallFields(j), j.sig, j.args)

(* The last field with this code whose value has this type. *)
FieldValue(items, code, type, default) ==
  LET hits == {k \in DOMAIN items : items[k].v[1].v = code /\ items[k].v[2].v.go = type}
  IN  IF hits = {} THEN default ELSE items[Max(hits)].v[2].v.v

FieldsLen(bytes) == FromLE(SubSeq(bytes, 13, 16))
BodyLen(bytes) == FromLE(SubSeq(bytes, 5, 8))
BodyStart(bytes) == 16 + FieldsLen(bytes) + headerPad(16 + FieldsLen(bytes))
MessageLen(bytes) == BodyStart(bytes) + BodyLen(bytes)

(* Are there enough bytes for io.ReadFull not to wait? *)
Complete(bytes) == Len(bytes) >= 16 /\ Len(bytes) >= MessageLen(bytes)

(* The body by the signature of the header; none is read if it is empty. *)
DecodedBody(al, fields, rest, type) ==
  Then(decodeMembers(al, rest, 0,
         IF rest = << >> THEN << >>
         ELSE Types(FieldValue(fields, field.signature, "string", << >>)), << >>), LAMBDA b :
    [ok |-> TRUE, type |-> type, fields |-> fields, body |-> b.val,
     replySerial |-> FieldValue(fields, field.replySerial, "uint32", 0),
     errorName |-> FieldValue(fields, field.errorName, "string", << >>)])

(* readMessage on a message that is there: decoded after it was read.      *)
(* Little-endian ('l') is the only byte order on the machines slfhst runs. *)
Decoded(al, bytes) ==
  LET fields == SubSeq(bytes, 17, 16 + FieldsLen(bytes))
  IN  Then(decodeElements(al, fields, 0, Tail(FieldsSig), Len(fields), << >>), LAMBDA f :
        DecodedBody(al, f.val, SubSeq(bytes, BodyStart(bytes) + 1, MessageLen(bytes)), bytes[2]))

(* assign, by the type dest points to. *)
assign(dest, val) ==
  CASE dest \in {"string", "bool", "uint32", "uint64", "map"} /\ val.go = dest -> Got(0, val)
    [] dest = "[]string" /\ val.go = "[]any" /\ (\A k \in DOMAIN val.v : val.v[k].go = "string") ->
         Got(0, Go("[]string", [k \in DOMAIN val.v |-> val.v[k].v]))
    [] dest = "[]any" -> Got(0, IF val.go = "[]any" THEN val ELSE Go("[]any", << >>))
    [] dest = "any" -> Got(0, val)
    [] OTHER -> Err

decodeInto(body, outSig, dest) ==
  LET n == Len(Types(outSig))
      out == [k \in 1..n |-> IF k \in DOMAIN body \cap DOMAIN dest
                             THEN assign(dest[k], body[k]) ELSE Err]
  IN  IF \A k \in 1..n : out[k].ok THEN [k \in 1..n |-> out[k].val] ELSE <<"error">>

---------------------------------------------------------------------------
(* slfhst and its peer.                                                    *)

EncodeMethodCall(j) ==
  /\ pc = "idle"
  /\ call' = <<j>>
  /\ LET m == encodeMethodCall(j) IN
       \/ m.ok /\ pc' = "written" /\ wire' = m.buf
       \/ ~m.ok /\ pc' = "refused" /\ UNCHANGED wire
  /\ UNCHANGED <<heard, sent, whole, stream, received>>

PeerReads ==
  /\ pc = "written"
  /\ pc' = "open"
  /\ heard' = IF Complete(wire) /\ Len(wire) = MessageLen(wire)
              THEN Decoded(StandardAlignment, wire) ELSE Err
  /\ UNCHANGED <<call, wire, sent, whole, stream, received>>

ReplyFields(j) ==
  (IF j.type = "error" THEN <<Field(field.errorName, <<"s">>, Str(j.name))>> ELSE << >>)
  \o (IF j.of = 0 THEN << >> ELSE <<Field(field.replySerial, <<"u">>, Go("uint32", j.of))>>)
  \o <<Field(field.sender, <<"s">>, Str(<<4>>))>>
  \o SignatureField(j.sig)

PeerMessage(j) ==
  Message(StandardAlignment, j.type, 9, ReplyFields(j), j.sig, j.args).buf

PeerSends(j) ==
  /\ pc = "open"
  /\ Len(sent) < MaxMessages
  /\ sent' = Append(sent, j)
  /\ whole' = whole + 1
  /\ stream' = stream \o PeerMessage(j)
  /\ UNCHANGED <<pc, call, wire, heard, received>>

HangUp ==
  /\ pc = "open"
  /\ pc' = "ended"
  /\ UNCHANGED <<call, wire, heard, sent, whole, stream, received>>

(* The peer goes away and the last n bytes of its last message are lost. *)
CutOff(n) ==
  /\ pc = "open"
  /\ Len(received) < Len(sent)
  /\ n \in 1..Len(PeerMessage(sent[Len(sent)]))
  /\ pc' = "ended"
  /\ stream' = SubSeq(stream, 1, Len(stream) - n)
  /\ whole' = whole - 1
  /\ UNCHANGED <<call, wire, heard, sent, received>>

(* One turn of Call's loop, but for the test of the serial: an error, a    *)
(* CallError, or the caller's variables.                                   *)
ReadMessage ==
  /\ pc \in {"open", "ended"}
  /\ Complete(stream)
  /\ LET m == Decoded(alignmentOf, stream)
         j == sent[Len(received) + 1]
     IN  received' = Append(received,
           IF ~m.ok THEN Err
           ELSE [ok |-> TRUE, type |-> m.type, replySerial |-> m.replySerial,
                 errorName |-> m.errorName, body |-> m.body,
                 out |-> IF m.type = msgType.return
                         THEN decodeInto(m.body, j.outSig, j.dest) ELSE << >>])
  /\ stream' = SubSeq(stream, MessageLen(stream) + 1, Len(stream))
  /\ UNCHANGED <<pc, call, wire, heard, sent, whole>>

(* io.ReadFull comes to the end of the stream. *)
ReadFails ==
  /\ pc = "ended"
  /\ ~Complete(stream)
  /\ received' = Append(received, Err)
  /\ pc' = "closed"
  /\ UNCHANGED <<call, wire, heard, sent, whole, stream>>

Next ==
  \/ \E j \in Calls : EncodeMethodCall(j)
  \/ PeerReads
  \/ pc = "open" /\ \E j \in Replies(call[1]) : PeerSends(j)
  \/ HangUp
  \/ \E n \in 1..Len(stream) : CutOff(n)
  \/ ReadMessage \/ ReadFails

Spec == Init /\ [][Next]_msgVars

---------------------------------------------------------------------------
(* Properties.                                                             *)

(* Every variable has its type, and no more was read than was sent. *)
TypeOK ==
  /\ pc \in {"idle", "refused", "written", "open", "ended", "closed"}
  /\ Len(call) = (IF pc = "idle" THEN 0 ELSE 1)
  /\ \A k \in DOMAIN wire : wire[k] \in 0..255
  /\ heard.ok \in BOOLEAN
  /\ Len(sent) <= MaxMessages
  /\ whole \in (Len(sent) - 1)..Len(sent)
  /\ \A k \in DOMAIN stream : stream[k] \in 0..255
  /\ Len(received) <= Len(sent) + 1

(* "See the D-Bus specification, 'Marshaling (Wire Format)', for the       *)
(* authoritative rules this implements" (marshal.go:12-14): a call is      *)
(* refused only if its arguments are not what the signature says, and what *)
(* is written says the same to a peer that goes by that specification, to  *)
(* the last byte, wherever the padding falls.                              *)
CallUnderstood ==
  /\ pc = "refused" => ~call[1].valid
  /\ pc \in {"open", "ended", "closed"} =>
       LET j == call[1] IN
       /\ heard.ok
       /\ heard.type = msgType.call
       /\ heard.fields = CallFields(j)
       /\ heard.body = j.read

Expected(j) ==
  IF ~j.readable THEN Err
  ELSE [ok |-> TRUE, type |-> msgType[j.type], replySerial |-> j.of,
        errorName |-> j.name, body |-> j.args, out |-> j.expect]

(* Whatever the peer sends is read message by message: each is decoded to  *)
(* what was sent or refused as a whole, with the next one still readable   *)
(* behind it, and one that was cut off is never taken for a message.       *)
StreamInStep ==
  /\ \A k \in DOMAIN received :
       received[k] = IF k <= whole THEN Expected(sent[k]) ELSE Err
  /\ pc = "open" /\ stream = << >> => Len(received) = Len(sent)

(* No part of a body passes for a body: a value of any type that ends      *)
(* early is an error and not a shorter value.                              *)
PrefixRefused ==
  \A k \in DOMAIN sent :
    LET j == sent[k]
        body == encodeMembers(StandardAlignment, Ok(<< >>), Types(j.sig), j.args).buf
    IN  \A n \in 0..(Len(body) - 1) :
          ~decodeMembers(alignmentOf, SubSeq(body, 1, n), 0, Types(j.sig), << >>).ok
=============================================================================

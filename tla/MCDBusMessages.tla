-------------------------- MODULE MCDBusMessages --------------------------
(* The calls slfhst makes and the replies it gets, with strings of every   *)
(* length modulo the alignments, and one value of every other type.        *)
EXTENDS DBusMessages

Text(n) == [k \in 1..n |-> 7]
Texts == {Text(n) : n \in 0..3}
Any(vals) == Go("[]any", vals)
Strs(texts) == Go("[]string", texts)
AnyStrs(texts) == Any([k \in DOMAIN texts |-> Str(texts[k])])
U64(n) == Go("uint64", n)

(* A call and what it says; one that is not well-typed. *)
Says(dest, sig, args, read) == [dest |-> dest, sig |-> sig, args |-> args, read |-> read, valid |-> TRUE]
Wrong(sig, args) == [dest |-> << >>, sig |-> sig, args |-> args, read |-> args, valid |-> FALSE]

(* addIPSet: s(ssssa{ss}as) *)
IPSet(dest, name, options, entries) ==
  LET Settings(list) == Any(<<Str(<< >>), Str(name), Str(name), Str(Text(2)), Go("map", options), list>>)
  IN  Says(dest, <<"s", "(", "s", "s", "s", "s", "a", "{", "s", "s", "}", "a", "s", ")">>,
           <<Str(name), Settings(Strs(entries))>>, <<Str(name), Settings(AnyStrs(entries))>>)

Option(key, value) == Any(<<Str(key), Str(value)>>)

Same(sig, args) == Says(Text(2), sig, args, args)

Scalar(c, type, values) == {Same(<<"y", c>>, <<Go("byte", 255), Go(type, v)>>) : v \in values}

FirewallCalls ==
  {IPSet(dest, name, options, entries) :
     dest \in {<< >>, Text(1)}, name \in Texts,
     options \in {<< >>} \cup {<<Option(Text(1), v)>> : v \in Texts}
                 \cup {<<Option(Text(2), Text(3)), Option(Text(1), << >>)>>},
     entries \in {<< >>} \cup {<<t>> : t \in Texts} \cup {<<Text(1), Text(2)>>}}
  \cup {Says(Text(3), <<"a", "s">>, <<Strs(<<t, Text(1)>>)>>, <<AnyStrs(<<t, Text(1)>>)>>) : t \in Texts}
  \cup {Says(Text(3), << >>, << >>, << >>)}

(* Update: st; and every code that marshal.go implements. *)
OtherCalls ==
  {Same(<<"s", "t">>, <<Str(t), U64(0)>>) : t \in Texts}
  \cup Scalar("b", "bool", BOOLEAN) \cup Scalar("n", "int16", {-32768, -1234, 32767})
  \cup Scalar("q", "uint16", {0, 54321}) \cup Scalar("i", "int32", {-123456789, 123456789})
  \cup Scalar("u", "uint32", {1, 2000000000}) \cup Scalar("x", "int64", {-1, -2000000000, 5})
  \cup Scalar("t", "uint64", {5}) \cup Scalar("d", "float64", {5}) \cup Scalar("o", "string", Texts)
  \cup {Same(<<"y", "g">>, <<Go("byte", 1), Str(<<"a", "(", "y", "v", ")">>)>>),
        Says(<< >>, <<"y", "a", "y">>, <<Go("byte", 1), Go("[]byte", <<2, 3>>)>>,
             <<Go("byte", 1), Any(<<Go("byte", 2), Go("byte", 3)>>)>>),
        Same(<<"y", "a", "t">>, <<Go("byte", 1), Any(<<U64(7)>>)>>),
        Same(<<"s", "a", "t", "y">>, <<Str(Text(1)), Any(<< >>), Go("byte", 1)>>),
        Same(<<"y", "(", "y", "(", "q", "y", ")", "a", "a", "s", ")">>,
             <<Go("byte", 1), Any(<<Go("byte", 2), Any(<<Go("uint16", 3), Go("byte", 4)>>),
                                    Any(<<AnyStrs(<<Text(2)>>), AnyStrs(<< >>)>>)>>)>>),
        Same(<<"a", "{", "s", "v", "}">>,
             <<Go("map", <<Any(<<Str(Text(1)), Variant(<<"t">>, U64(1))>>),
                           Any(<<Str(Text(2)), Variant(<<"a", "s">>, AnyStrs(<<Text(1)>>))>>)>>)>>)}

WrongCalls ==
  {Wrong(<<"s", "t">>, <<Str(Text(1))>>), Wrong(<<"t">>, <<Str(Text(1))>>),
   Wrong(<<"a", "s">>, <<Str(Text(1))>>), Wrong(<<"a", "{", "s", "s", "}">>, <<Any(<< >>)>>),
   Wrong(<<"(", "s", "s", ")">>, <<Any(<<Str(Text(1))>>)>>), Wrong(<<"v">>, <<Str(Text(1))>>),
   Wrong(<<"(", "s">>, <<Any(<<Str(Text(1))>>)>>), Wrong(<<"a">>, <<Any(<< >>)>>),
   Wrong(<<"h">>, <<Go("uint32", 1)>>)}

(* The call whose replies are looked at. *)
Hello == Same(<<"s">>, <<Str(Text(1))>>)

MCCalls == FirewallCalls \cup OtherCalls \cup WrongCalls \cup {Hello}

Reply(sig, args, outSig, dest, expect) ==
  [type |-> "return", of |-> 1, name |-> << >>, sig |-> sig, args |-> args,
   outSig |-> outSig, dest |-> dest, readable |-> TRUE, expect |-> expect]
Given(sig, args, dest) == Reply(sig, args, sig, dest, args)

Target(n) == Any(<<Str(Text(n)), Str(Text(1)), Str(Text(2))>>)

AllReplies ==
  {Given(<<"s">>, <<Str(t)>>, <<"string">>) : t \in Texts}
  \cup {Given(<<"s", "t", "o">>, <<Str(Text(1)), U64(3), Str(Text(2))>>, <<"string", "uint64", "string">>),
        Given(<<"a", "(", "s", "s", "o", ")">>, <<Any(<<Target(1), Target(2)>>)>>, <<"[]any">>),
        Given(<<"a", "(", "s", "s", "o", ")">>, <<Any(<< >>)>>, <<"[]any">>),
        Given(<<"b", "u", "v">>, <<Go("bool", TRUE), Go("uint32", 4), Variant(<<"x">>, Go("int64", -2))>>,
              <<"bool", "uint32", "any">>),
        Reply(<<"a", "s">>, <<AnyStrs(<<Text(1), << >>>>)>>, <<"a", "s">>, <<"[]string">>, <<Strs(<<Text(1), << >>>>)>>),
        Given(<<"a", "{", "s", "v", "}">>, <<Go("map", <<Any(<<Str(Text(1)), Variant(<<"q">>, Go("uint16", 9))>>)>>)>>, <<"map">>),
        Reply(<<"s">>, <<Str(Text(1))>>, << >>, << >>, << >>),
        Reply(<<"s">>, <<Str(Text(1))>>, <<"s", "t">>, <<"string", "uint64">>, <<"error">>),
        Reply(<<"u">>, <<Go("uint32", 5)>>, <<"s">>, <<"string">>, <<"error">>),
        [Reply(<<"s">>, <<Str(Text(3))>>, << >>, << >>, << >>) EXCEPT !.type = "error", !.name = Text(2)],
        [Reply(<<"s">>, <<Str(Text(2))>>, << >>, << >>, << >>) EXCEPT !.type = "signal", !.of = 0],
        [Reply(<<"a", "{", "u", "s", "}">>,
               <<Go("map", <<Any(<<Go("uint32", 5), Str(Text(1))>>)>>)>>, << >>, << >>, << >>)
           EXCEPT !.type = "signal", !.of = 0, !.readable = FALSE]}

MCReplies(c) == IF c = Hello THEN AllReplies ELSE {}
=============================================================================

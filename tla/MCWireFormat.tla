---------------------------- MODULE MCWireFormat ----------------------------
EXTENDS WireMeaning, JsonMeaning

Field(number, kind, t, flags) ==
    [number |-> number, kind |-> kind, type |-> t, flags |-> flags]

MCTypes == [
    Tree |-> <<Field(1, "sint", "", {}),
               Field(2, "message", "Tree", {"Message", "ExplicitPresence"}),
               Field(3, "list", "", {"Repeated"})>>,
    Forest |-> <<Field(1, "enum", "", {"Enum"}),
                 Field(2, "messages", "Tree", {"Message", "Repeated"}),
                 Field(3, "list", "", {"Repeated", "NonPacked"})>>,
    Strict |-> <<Field(1, "fixed", "", {"Required"}),
                 Field(2, "bytes", "", {"Optional", "ExplicitPresence"}),
                 Field(3, "message", "Leaf", {"Required", "Message", "ExplicitPresence"})>>,
    Leaf |-> <<Field(1, "int", "", {"Required"})>>,
    Table |-> <<Field(1, "map", "Entry", {"Map"}),
                Field(2, "handled", "Value", {"Message", "ExplicitPresence"}),
                Field(3, "enums", "", {"Enum", "Repeated"})>>,
    Value |-> <<Field(1, "int", "", {}), Field(2, "uint", "", {})>>,
    Entry |-> <<Field(1, "int", "", {"Optional"}),
                Field(2, "uint", "", {"Optional"})>>,
    Ring |-> <<Field(1, "message", "Ring", {"Required", "Message", "ExplicitPresence"})>>,
    Wood |-> <<Field(1, "messages", "Node", {"Message", "Repeated"}),
               Field(2, "map", "Entry", {"Map"}),
               Field(3, "enum", "", {"Enum"})>>,
    Node |-> <<Field(1, "enums", "", {"Enum", "Repeated"}),
               Field(2, "message", "Node", {"Message", "ExplicitPresence"}),
               Field(3, "int", "", {"Optional", "ExplicitPresence"})>>,
    Scalars |-> <<Field(1, "double", "", {}), Field(2, "uint", "", {}),
                  Field(3, "bytes", "", {}), Field(4, "bool", "", {}),
                  Field(5, "string", "", {}), Field(6, "fixed", "", {}),
                  Field(7, "list", "", {"Repeated"})>>,
    Times |-> <<Field(1, "message", "Duration", {"Message", "ExplicitPresence"}),
                Field(2, "messages", "Duration", {"Message", "Repeated"}),
                Field(3, "message", "Timestamp", {"Message", "ExplicitPresence"}),
                Field(4, "message", "Wrapper", {"Message", "ExplicitPresence"}),
                Field(5, "enum", "", {"Enum"})>>,
    Duration |-> <<Field(1, "int", "", {}), Field(2, "int", "", {})>>,
    Timestamp |-> <<Field(1, "int", "", {}), Field(2, "int", "", {})>>,
    Wrapper |-> <<Field(1, "int", "", {})>>]

(* Byte strings in which no varint is longer than two bytes. *)
Strings(bytes, n) ==
    {s \in UNION {[1 .. k -> bytes] : k \in 0 .. n} :
        \A i \in 1 .. Len(s) - 1 : s[i] < 128 \/ s[i + 1] < 128}

MCInputs == [
    Tree |-> Strings({0, 1, 2, 3, 8, 18, 26, 42, 129}, 4)
             \cup Strings({1, 2, 3, 8, 18, 26}, 6),
    Forest |-> Strings({0, 1, 2, 8, 10, 18, 24, 26, 130}, 4)
               \cup Strings({1, 2, 8, 18, 24, 26}, 5),
    Strict |-> Strings({0, 1, 2, 3, 8, 13, 18, 26}, 4)
               \cup {<<13, 1, 2>> \o s : s \in Strings({0, 1, 2, 3, 8, 18, 26}, 4)},
    Table |-> Strings({0, 1, 2, 8, 10, 16, 18, 26, 41, 45}, 4)
              \cup {<<10, 4, 8>> \o s : s \in Strings({0, 1, 10, 16, 18}, 5)}
              \cup {<<18, 2, 8, 1, 18>> \o s : s \in Strings({0, 1, 2, 8, 16}, 2)},
    Ring |-> Strings({0, 1, 10}, 3)]

(* Documents: every choice of values for the keys. *)
Docs(choices) ==
    LET With1(k, fs) == fs \cup {(k :> v) @@ f : v \in choices[k], f \in fs}
    IN  {Object(f) : f \in FoldSet(With1, {EmptyObject}, DOMAIN choices)}

N(i) == <<"name", i>>
S(i) == <<"snake", i>>
Num(n) == <<"integer", n>>
Array(s) == <<"array", s>>
Keyed(k, v) == Object(k :> v)

Atoms == {Num(1), Num(64), <<"digits", 1>>, <<"fraction", 1>>, <<"real", 2>>, JsonNull}

Nodes ==
    LET inner == Docs((N(1) :> {Array(<< <<"enum", 1>> >>), Array(<< <<"text", 1>> >>)})
                      @@ (N(3) :> {Num(1), <<"fraction", 1>>}))
    IN  Docs((N(1) :> {Array(<<>>), Array(<< <<"enum", 2>>, <<"enum", 1>> >>), Num(1)})
             @@ (S(2) :> inner \cup {Array(<<>>), Num(3)})
             @@ (S(3) :> {Num(-64), <<"text", 1>>}))

FewNodes == {Object(EmptyObject), Keyed(N(3), Num(1)), Keyed(N(3), <<"text", 1>>),
             Keyed(N(2), Keyed(N(1), Array(<< <<"text", 1>> >>))),
             Keyed(N(2), Keyed(S(3), Num(2))), Keyed(N(1), Num(1)), Num(1), JsonNull}

MCJsonInputs == [
    Node |-> Nodes,
    Wood |-> Docs((N(1) :> {Array(s) : s \in UNION {[1 .. k -> FewNodes] : k \in 0 .. 2}}
                           \cup {Num(1)})
                  @@ (N(2) :> {Object(EmptyObject), Keyed(<<"digits", 1>>, Num(2)), Num(1),
                               Object((<<"digits", 1>> :> Num(2)) @@ (<<"digits", 2>> :> Num(3))),
                               Keyed(<<"text", 1>>, Num(2)), Keyed(<<"digits", 1>>, Array(<<>>))})
                  @@ (N(3) :> {<<"enum", 1>>, Num(7)}) @@ (S(3) :> {<<"text", 1>>})),
    Scalars |-> UNION {Docs(N(i) :> Atoms \cup {Num(-1), <<"digits", -1>>, <<"bool", TRUE>>,
                    <<"boolean", TRUE>>, <<"special", 1>>, <<"base64", <<1>> >>,
                    Array(<<>>), Array(<<Num(1), <<"digits", 2>> >>), Object(EmptyObject)}
                    \cup IF i = 3 THEN {} ELSE {<<"text", 1>>}) : i \in 1 .. 6}
               \cup Docs((N(7) :> {Array(<<Num(1), <<"text", 1>>, Num(2)>>), Array(<<Num(1)>>),
                                    Array(<<>>), Num(1), JsonNull}) @@ (N(6) :> {Num(5), Num(65536)})),
    Times |-> LET durations == {<<"duration", <<minus, 1, digits>> >> : minus \in BOOLEAN,
                                    digits \in {<<>>, <<0, 5>>, <<5>>, <<1, 2, 3>>}}
                               \cup {<<"duration", <<FALSE, 4, <<>> >> >>}
              IN  Docs((N(1) :> durations \cup {Num(1), Keyed(N(1), Num(1))})
                       @@ (N(2) :> {Array(<<d>>) : d \in durations}
                                   \cup {Array(<<d, <<"text", 1>> >>) : d \in durations}
                                   \cup {Array(<<d, Keyed(N(2), Num(3))>>) : d \in durations})
                       @@ (N(3) :> {<<"timestamp", -5>>, <<"timestamp", 15>>, <<"text", 1>>})
                       @@ (N(4) :> {Num(3), <<"text", 1>>, Keyed(N(1), Num(3))})
                       @@ (N(5) :> {<<"enum", 1>>}))]

With(m, index, values) == {setMessageProperty(m, index, v) : v \in values}
Duration(s, n) == WithTime(New("Duration"), s, n)
Timestamp(s, n) == WithTime(New("Timestamp"), s, n)
Entry(k, v) == setMessageProperty(setMessageProperty(New("Entry"), 0, k), 1, v)

MCMessages == [t \in DOMAIN MCInputs \cup DOMAIN MCJsonInputs |->
    CASE t \in {"Strict", "Ring"} -> {New(t)}
      [] t = "Tree" -> {setMessageProperty(setMessageProperty(New(t), 0, v), 2, <<0, 200>>) : v \in {-64, -1, 0, 63}}
      [] t = "Forest" -> {setMessageProperty(New(t), 0, v) : v \in {-1, 5}}
      [] t = "Table" -> {setMessageProperty(New(t), 1, setMessageProperty(New("Value"), 0, v)) : v \in {-64, 0, 63}}
      [] t = "Node" -> LET inner == With(setMessageProperty(New(t), 0, <<2, 0>>), 2, {0, 5})
                       IN  With(New(t), 1, inner)
      [] t = "Wood" -> LET node == setMessageProperty(New("Node"), 2, 0)
                       IN  With(setMessageProperty(New(t), 2, 2), 0, {<<node>>, <<New("Node"), node>>})
                           \cup With(New(t), 1, {{Entry(-1, 0)}, {Entry(1, 2), Entry(0, 5)}})
      [] t = "Scalars" -> With(New(t), 0, {<<"special", 1>>, <<"fraction", -1>>, <<"integer", 3>>})
                          \cup With(New(t), 1, {0, 2 ^ 14 - 1}) \cup With(New(t), 2, {<<0, 200>>})
                          \cup With(New(t), 3, {TRUE}) \cup With(New(t), 4, {<<"digits", 1>>})
                          \cup With(New(t), 5, {65535}) \cup With(New(t), 6, {<<0, 7>>})
      [] t = "Times" -> With(New(t), 0, {Duration(s, n) : s \in {0, 1}, n \in {0, 5, 50, 99}}
                                        \cup {Duration(s, n) : s \in {0, -1}, n \in {-5, -50, -99}})
                        \cup With(New(t), 1, {<<Duration(0, -7), Duration(2, 30)>>})
                        \cup With(New(t), 2, {Timestamp(s, n) : s \in {-2, -1, 0, 1}, n \in {0, 10, 90}})
                        \cup With(New(t), 3, {New("Wrapper")})]
=============================================================================

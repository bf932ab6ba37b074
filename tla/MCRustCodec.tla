---------------------------- MODULE MCRustCodec -----------------------------
EXTENDS RustCodec

MCPieces == [
    structure |-> {<<91>>, <<93>>, <<123>>, <<125>>, <<44>>, <<32>>, <<34, 34>>, <<58>>,
                   <<34, 34, 58, 48>>, NullText, <<116, 114, 117>>, <<101>>},
    number    |-> {<<45>>, <<48>>, <<56>>, <<46>>, <<101>>, <<43>>},
    string    |-> {<<34>>, <<92>>, <<110>>, <<1, 10>>, <<233>>, <<92, 117, 68, 56, 51, 100>>,
                   <<92, 117, 100, 69, 48, 48>>, <<92, 117, 48, 48, 101, 57>>},
    blob      |-> {<<65, 65>>, <<47>>, <<81>>, <<61>>, <<61, 61>>, <<42>>}]
MCMaxPieces == [structure |-> 5, number |-> 6, string |-> 5, blob |-> 6]

MCParams ==
    {NullValue, Integer(MinInt), Integer(0), Integer(MaxInt)}
    \cup {Real(Finite(neg, <<>>, 0)) : neg \in BOOLEAN}             \* 0.0, -0.0
    \cup {Real(Finite(TRUE, <<56, 56>>, 0)),                        \* -88.0
          Real(Finite(FALSE, <<53>>, 0 - 1)),                       \* 0.5
          Real(Finite(FALSE, <<49, 50>>, 20)), Real(Finite(FALSE, <<53>>, 0 - 7)),
          Real(Infinite(FALSE)), Real(NaN)}
    \cup {Text(<<>>), Text(<<10, 34, 92>>), Text(<<1, 233, 128512>>), Text(<<97, 13, 9>>)}
    \cup {Blob(<<>>), Blob(<<0>>), Blob(<<255, 63>>), Blob(<<0, 255, 10, 34>>)}

Wire(codes, means) == [wire |-> codes, means |-> means]
Empty == <<>>
MCSamples == {
    Wire(NullText, [optional |-> NullValue]),
    Wire(TrueText, [bool |-> TRUE]),
    Wire(FalseText, [bool |-> FALSE]),
    Wire(<<45, 48>>, [int |-> 0, optional |-> 0]),
    Wire(<<45, 56>>, [int |-> 0 - 8, optional |-> 0 - 8]),
    Wire(<<55>>, [int |-> 7, optional |-> 7]),
    Wire(<<56>>, Empty),                                            \* 8: out of range
    Wire(<<55, 46, 48>>, Empty),                                    \* 7.0 is no integer
    Wire(<<34, 92, 110, 233, 34>>, [str |-> <<10, 233>>]),
    Wire(<<91, 93>>, [strings |-> <<>>, rows |-> <<>>]),
    Wire(<<91, 34, 34, 93>>, [strings |-> <<<<>>>>]),               \* [""]
    Wire(<<91, 34, 34, 44, 56, 93>>, Empty),                        \* ["",8]
    Wire(<<91, 91, 55, 44, 55, 46, 48, 93, 44, 91, 93, 93>>,        \* [[7,7.0],[]]
         [rows |-> <<<<Integer(7), Real(Finite(FALSE, <<55>>, 0))>>, <<>>>>]),
    Wire(<<91, 91, 45, 57, 101, 51, 48, 56, 93, 93>>,               \* [[-9e308]]
         [rows |-> <<<<Real(Infinite(TRUE))>>>>]),
    Wire(<<91, 91, 91, 34, 47, 119, 61, 61, 34, 93, 93, 93>>,       \* [[["/w=="]]]
         [rows |-> <<<<Blob(<<255>>)>>>>]),
    Wire(<<91, 91, 91, 34, 47, 119, 61, 34, 93, 93, 93>>, Empty),   \* [[["/w="]]]
    Wire(<<91, 91, 91, 93, 93, 93>>, Empty),                        \* [[[]]]
    Wire(<<91, 91, 56, 93, 93>>, Empty),                            \* [[8]]
    Wire(<<91, 91>> \o TrueText \o <<93, 93>>, Empty),              \* [[true]]
    Wire(<<123, 34, 99, 34, 58, 34, 34, 44, 34, 109, 34, 58, 34, 109, 34, 125>>,
         [error |-> [code |-> <<>>, message |-> <<109>>]]),         \* {"c":"","m":"m"}
    Wire(<<123, 34, 99, 34, 58, 34, 34, 125>>, Empty),              \* {"c":""}
    Wire(<<123, 34, 99, 34, 58, 55, 44, 34, 109, 34, 58, 34, 34, 125>>, Empty)}
=============================================================================

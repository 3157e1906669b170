----------------------------- MODULE MCRpcClient -----------------------------
(***************************************************************************)
(* Values for the constants of RpcClient: command lines of every option,   *)
(* cut short everywhere, and messages with every integer of IntBits bits   *)
(* and with strings on both sides of what an octet can hold.               *)
(***************************************************************************)
EXTENDS RpcClient

As(n) == [i \in 1..n |-> 97]

\* The words that are data: their bytes.
TextWords == [hello |-> As(5), a127 |-> As(127), a128 |-> As(128),
              a255 |-> As(255), a300 |-> As(300)]
NumberWords == [n7 |-> 7, n3 |-> 3, minus5 |-> -5, zero |-> 0]

Names == {"plus", "division", "power", "square", "identity", "concat",
          "string_length", "documentation", "nothing"}
Returns == {"-int", "-str", "-void", "-integer"}

\* The ends of the lines: what follows the return type.
Arguments ==
  {<< >>, <<"-void">>, <<"-void", "hello">>, <<"hello">>, <<"-int", "n7">>}
    \cup {<<"-int", a, "-int", b>> : a, b \in DOMAIN NumberWords}
    \cup {<<"-str", a>> : a \in DOMAIN TextWords \cup {"-int"}}
    \cup {<<"-str", a, "-str", b>> : a, b \in DOMAIN TextWords}
    \cup {<<"-int", "n7", "-str", "hello">>, <<"-int", "hello", "-int", "n3">>}

CommandLines ==
  {<<"client", "-c", n, "-ret", r>> \o a : n \in Names, r \in Returns, a \in Arguments}
    \cup {<<"client", "--command", "plus", r, "-int", "-int", "n7", "-int">> :
            r \in {"-ret", "-int"}}

OtherLines ==
  {<<"client", "-s", "hello", "--shutdown", "a128", "-l">>,
   <<"client", "-s", "hello", "-c", "plus", "-ret", "-int", "-int", "n7", "-int", "n3">>,
   <<"client", "--list", "-h">>, <<"client", "-h">>, <<"client", "hello">>}

\* Every line, and every line that ends too early.
MCLines ==
  UNION {{SubSeq(l, 1, n) : n \in DOMAIN l} : l \in CommandLines \cup OtherLines}

Words == UNION {{l[i] : i \in DOMAIN l} : l \in MCLines}
MCText == [w \in Words |-> IF w \in DOMAIN TextWords THEN TextWords[w] ELSE As(2)]
MCNumber == [w \in Words |-> IF w \in DOMAIN NumberWords THEN NumberWords[w] ELSE 0]

-----------------------------------------------------------------------------
Integer(n) == [typ |-> Int32, data |-> n]
String(n) == [typ |-> Str, data |-> As(n)]
Nothing == [typ |-> Void, data |-> NULL]

Least == -(2^(IntBits - 1))
Largest == 2^(IntBits - 1) - 1
Edges == {Integer(n) : n \in {Least, -10, -1, 0, 9, Largest}}
Strings == {String(n) : n \in {0, 1, 127, 128, 254, 255, 256, 300, 383, 384}}

MCMessages ==
  {Message("plus", Int32, <<Integer(n), Integer(0)>>) : n \in Least..Largest}
    \cup {Message(f, Int32, <<a, b>>) :
            f \in {"minus", "multiplication", "division"}, a, b \in Edges}
    \cup {Message("power", Int32, <<a, Integer(b)>>) : a \in Edges, b \in {Least, -1, 0, 1, 9}}
    \cup {Message("concat", Str, <<a, b>>) : a, b \in Strings}
    \cup {Message("identity", r, <<a>>) :
            r \in {Void, Int32, Str}, a \in Strings \cup Edges \cup {Nothing}}
    \cup {Message("string_length", Int32, <<Nothing, a, b>>) : a \in Edges, b \in Strings}
    \cup {Message("documentation", Str, << >>)}

\* Memory that was never set: one byte throughout, or the arguments of other
\* messages, whole and broken.
Zeroes == {<<0>>}
MCGarbage == {<<0>>, <<2>>, <<97>>, <<2, 3, 98, 99, 100, 1, 2, 45, 55, -1, 0>>}

\* One string at a time.
Identities == {Message("identity", Str, <<s>>) : s \in Strings}
=============================================================================

--------------------------- MODULE MCConfigEditor ---------------------------
(* The configuration tool for TLC: two names, one valid address and one     *)
(* text for each way the check can turn one away; hand-written files with   *)
(* services that are repeated or do not convert, with some of the keys and  *)
(* with a port that is no number of 16 bits.                                *)
EXTENDS ConfigEditor

One    == Number(1, FALSE, 1)
Zero   == Number(1, TRUE, 0)
Top    == Number(3, FALSE, 255)
Good   == <<One, Top, Zero, Number(2, FALSE, 25)>>
MCIps  == {Good, <<EmptyPart>>,
           Good \o <<EmptyPart>>,                       \* 1.255.0.25.
           Good \o <<One>>, <<One, Zero, Zero>>,
           <<One, EmptyPart, Zero, Zero>>,
           <<One, Zero, Zero, Number(3, FALSE, 256)>>,
           <<One, Zero, Zero, Number(2, TRUE, 1)>>,      \* 01
           <<One, Zero, Zero, Number(4, FALSE, 1000)>>,
           <<One, Zero, Zero, [One EXCEPT !.digits = FALSE]>>}

MCHandWritten == {[name |-> "a", ip |-> Good, port |-> 80]}

\* Some of the keys, and a port that is no 16-bit number
MCHandKeys ==
    {Keys(<<>>, <<80>>, <<"consistent-hash">>),
     Keys(<<<<One>>>>, Unreadable, <<"consistent-hash">>)}

\* 65616 is 80 in 16 bits.
MCHandToml == {NoToml, Toml(Keys(<<>>, <<65616>>, <<"round-robin">>))}
=============================================================================

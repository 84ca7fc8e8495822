---------------------------- MODULE ServiceNode ----------------------------
(* The address check of lib/model/ServiceNode.cpp.  A text is the sequence  *)
(* of its parts between dots; of a part only what the check looks at is     *)
(* kept: its size, whether it is all digits, whether it begins with '0' and *)
(* its value.                                                               *)
EXTENDS Integers, Sequences, SequencesExt

Number(size, zero, value) == [size |-> size, digits |-> TRUE, zero |-> zero, value |-> value]
EmptyPart == Number(0, FALSE, 0)

\* A number of more than three digits that does not begin with '0' is large.
Parts == {p \in [size : Nat, digits : BOOLEAN, zero : BOOLEAN, value : Nat] :
            /\ p.size = 0 => p = EmptyPart
            /\ p.size > 3 /\ p.digits /\ ~p.zero => p.value > 255}
Texts == Seq(Parts) \ {<<>>}

\* What getline() yields: no token for the empty part behind a last dot
Tokens(ip) == IF Last(ip) = EmptyPart THEN Front(ip) ELSE ip

\* The body of the loop
IsOctet(token) ==
    /\ token.size # 0 /\ token.size <= 3
    /\ token.size > 1 => ~token.zero
    /\ token.digits
    /\ token.value <= 255

\* Mutant: does not look at the last character.
IsValidIpv4TrailingDot(ip) == Len(Tokens(ip)) = 4 /\ \A i \in DOMAIN Tokens(ip) : IsOctet(Tokens(ip)[i])

IsValidIpv4(ip) ==
    /\ \A i \in DOMAIN Tokens(ip) : IsOctet(Tokens(ip)[i])
    /\ Len(Tokens(ip)) = 4
    /\ Last(ip) # EmptyPart

\* What make_address() takes, of texts without a colon: four decimal numbers
\* up to 255, as inet_pton() reads them
MakeAddress(ip) ==
    /\ Len(ip) = 4
    /\ \A i \in 1..4 : /\ ip[i].digits /\ ip[i].size > 0 /\ ip[i].value \in 0..255
                       /\ ip[i].zero => ip[i].size = 1
=============================================================================

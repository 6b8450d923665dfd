------------------------------- MODULE MCFormat -------------------------------
(***************************************************************************)
(* Every number of eight signed or ten unsigned bits in every base and     *)
(* conversion, the longest decimal "-128" and the longest hexadecimal      *)
(* "3ff", and formats that mix pieces.                                     *)
(***************************************************************************)
EXTENDS Format

Piece(conv, n) == [conv |-> conv, num |-> n, text |-> <<>>]
Quote(text) == [conv |-> LowerS, num |-> 0, text |-> text]
Plain(char) == Piece(NUL, char)
Text(pieces) == [call |-> "vsprintf", pieces |-> pieces, num |-> 0, base |-> 0]
Convert(call, n, b) == [call |-> call, pieces |-> <<>>, num |-> n, base |-> b]

Single == {Piece(LowerD, n) : n \in Ints}
          \cup {Piece(x, n) : x \in {LowerX, UpperX}, n \in Words}

Few == {Plain(65), Piece(LowerC, 322), Piece(LowerC, -219), Quote(<<67, 37, 100>>),
        Quote(<<>>), Quote(NULL), Piece(LowerD, 0), Piece(LowerD, -57),
        Piece(LowerX, 0), Piece(UpperX, 171), Piece(Percent, NUL), Piece(113, NUL)}

MCJobs ==
  {Text(<<p>>) : p \in Single}
  \cup {Text(<<p, q, r>>) : p \in Few, q \in Few, r \in Few}
  \cup {Text(<<>>), Text(<<Plain(65), Plain(Percent)>>)}
  \cup {Convert("itoa", n, b) : n \in Ints, b \in {2, 10, 16}}
  \cup {Convert("ulltoa", n, b) : n \in Words, b \in {2, 10, 16}}
=============================================================================

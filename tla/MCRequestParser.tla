--------------------------- MODULE MCRequestParser ---------------------------
(* RequestParser for TLC: the requests, one dimension at a time *)
EXTENDS RequestParser

H(name, val) == [name |-> name, val |-> val]
Lengths10 == {<<>>, <<" ">>, <<"0">>, <<" ", "3">>, <<"1", "2">>, <<"-", "0">>, <<"-", "2">>,
              <<"+", "1">>, <<"+">>, <<"3", "1">>, <<"3", "2">>, <<"2", "9", "9">>, <<"1", "x">>}
Codings == {<<>>, <<"x">>, <<"chunked">>, <<"x", " ", "CHUNKED">>}
AllHeaders ==
    {H("x", Text(n)) : n \in {0, 8, 9, 10, 11, 12, 13}}
        \cup {H("Content-Length:", v) : v \in Lengths10}
        \cup {H("Transfer-Encoding:", v) : v \in Codings}
ChunkKinds == {[size |-> s, ext |-> e] :
                  s \in {<<"1">>, <<"0", "2">>, <<"a">>, <<"1", "d">>, <<"1", "e">>,
                         <<"2", "0">>, <<"x">>, <<>>},
                  e \in {<<>>, <<" ", ";", "x">>}}
R(hs, cs, t) == [headers |-> hs, chunks |-> cs, trailer |-> t]

(* Requests with one or two headers; bodies of at most one chunk, and, for  *)
(* the plainest header, two.                                                *)
TE == H("Transfer-Encoding:", <<"chunked">>)
MCRequests ==
    {R(hs, <<>>, <<>>) : hs \in UNION {[1..n -> AllHeaders] : n \in 1..2}}
        \cup {R(<<TE>>, cs, t) : cs \in UNION {[1..n -> ChunkKinds] : n \in 0..2},
                                 t \in {<<>>, <<"x">> \o CRLF}}
MCTails == {<<>>, <<"request">> \o CRLF \o <<"x">> \o headerEnd}

(* A request line and nothing else *)
BareRequests == {R(<<>>, <<>>, <<>>)}
=============================================================================

------------------------------- MODULE MCItems ------------------------------
(* Instances of Items for TLC. *)
EXTENDS Items, TLC

Payload(name, price) == [name |-> name, price |-> price, stock |-> 0]
Tea == Payload(<<1>>, 0)
Padded == Payload(<<0, 2>>, 1)
Bad == Payload(<<0>>, 1)

MCContents == {Tea, Padded, Bad}

New(content) == [id |-> NoId, content |-> content]
Old(id, content) == [id |-> id, content |-> content]

Import(rows) == [op |-> "import", rows |-> rows]

MCRequests ==
    {[op |-> "create", rows |-> <<New(content)>>] : content \in {Tea, Bad}}
    \cup {[op |-> "update", rows |-> <<Old(1, Padded)>>], [op |-> "delete", rows |-> <<Old(1, Tea)>>]}
    \cup {Import(rows) : rows \in {<<>>, <<New(Tea), Old(1, Padded)>>, <<Old(1, Tea), Old(2, Padded)>>,
                                   <<Old(2, Tea), New(Bad)>>, <<New(Tea), New(Tea), New(Tea)>>}}

MCMatches == {{Stored(Padded)}}

Symmetry == Permutations(Calls)

=============================================================================

---------------------------- MODULE MCProviders -----------------------------
(* Instances of Providers for TLC: a column of numbers and one of texts.   *)
(* Characters 1 and 2 are the upper case of 3 and 4, character 5 is %, 6   *)
(* and 7 are digits; 8 is the upper case of 9, which SQLite does not know. *)
EXTENDS Providers

MCLower == <<3, 4, 3, 4, 5, 6, 7, 8, 9>>
MCJsLower == <<3, 4, 3, 4, 5, 6, 7, 9, 9>>
MCNumeral == <<<<6>>, <<7>>>>

(* Digits first, letters without their case, and of two texts that differ  *)
(* in case only the one in lower case                                      *)
MCLocaleLess(s, t) ==
    LET base(text) == [i \in DOMAIN text |-> <<6, 8, 6, 8, 1, 2, 3, 7, 7>>[text[i]]]
        case(text) == [i \in DOMAIN text |-> <<2, 2, 1, 1, 1, 1, 1, 2, 1>>[text[i]]]
    IN  \/ TextLess(base(s), base(t))
        \/ base(s) = base(t) /\ TextLess(case(s), case(t))

Content(number, text) == [column \in {"stock", "name"} |-> IF column = "stock" THEN number ELSE text]
MCContents == {Content(1, <<3>>), Content(2, <<1, 5>>), Content(2, Null), Content(Null, <<4, 9>>)}

By(field, direction) == [field |-> field, direction |-> direction]
If(field, op, value) == [field |-> field, op |-> op, value |-> value]

Sorts == {<<>>, <<By("colour", "asc")>>, <<By("name", "asc"), By("stock", "desc")>>,
          <<By("stock", "asc")>>, <<By("stock", "desc"), By("name", "desc")>>}

Filters ==
    {If("stock", op, n) : op \in {"eq", "ne", "lt", "lte", "gt", "gte"}, n \in {Null, 1}}
    \cup {If("name", op, text) : op \in {"eq", "ne", "contains", "starts_with"}, text \in {<<>>, <<3>>, <<5>>}}
    \cup {If("name", "contains", text) : text \in {<<8>>, <<9>>}}
    \cup {If("stock", op, <<7>>) : op \in {"contains", "starts_with"}}
    \cup {If(field, op, Null) : field \in {"stock", "name"}, op \in {"is_null", "not_null"}}
    \cup {If("stock", "in", list) : list \in {<<>>, <<1, Null>>, <<2>>}}
    \cup {If("colour", "eq", 1)}

Pages == {NoPage} \cup {[offset |-> offset, limit |-> limit] : offset \in {0, 1, 6}, limit \in {2, 7}}

Query(sorts, filters, page) == [sort |-> sorts, filters |-> filters, pagination |-> page]

MCQueries ==
    {Query(sorts, <<>>, page) : sorts \in Sorts, page \in Pages}
    \cup {Query(<<By("stock", "desc")>>, <<filter>>, page) : filter \in Filters, page \in {NoPage, [offset |-> 1, limit |-> 1]}}
    \cup {Query(<<>>, <<If("stock", "gte", 1), If("name", "contains", <<1>>)>>, NoPage)}

=============================================================================

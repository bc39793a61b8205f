---------------------------- MODULE MCExpansion -----------------------------
(***************************************************************************)
(* Expansion over eight addresses.  Flat lists: every list of up to three  *)
(* members, over graphs with cycles, shared groups, an empty group and     *)
(* names of no group.  Scopes: every choice of names for two scopes.       *)
(***************************************************************************)
EXTENDS Expansion, TLC

\* Nested, overlapping and touching prefixes, one at the end of the space, one
\* that is all of it, host bits not always clear.
MCEncode(m) ==
    CASE m = "half" -> [addr |-> 1, bits |-> 1]
      [] m = "quarter" -> [addr |-> 0, bits |-> 2]
      [] m = "next" -> [addr |-> 4, bits |-> 3]
      [] m = "top" -> [addr |-> 7, bits |-> 3]
      [] m = "any" -> [addr |-> 5, bits |-> 0]
      [] OTHER -> [addr |-> 6, bits |-> 3]

MCSiteSpaces == {[addr |-> 2, bits |-> 2], [addr |-> 6, bits |-> 2]}

MCGraphs ==
    { <<>>,
      ("g" :> <<"g", "half">>),
      ("g" :> <<"h", "quarter">>) @@ ("h" :> <<"g", "top">>),
      ("g" :> <<"h", "h">>) @@ ("h" :> <<"!*">>) @@ ("k" :> <<"h", "g", "k">>),
      ("g" :> <<>>) @@ ("k" :> <<"h", "next", "g">>) }

ListsUpTo(n, S) == UNION {[1 .. k -> S] : k \in 0 .. n}

Flat == [scoped : {FALSE}, allow : ListsUpTo(3, Members), scopes : {<<>>}]

MCLowerOf == [l \in {"", "a", "A", "b", "B", "*"} |->
                 CASE l = "A" -> "a" [] l = "B" -> "b" [] OTHER -> l]

\* No name, the empty name, exact names, wildcards over one and two labels, a
\* bare "*." and a "*" that is not in front.
NameLists == { <<>>, <<<<"">>>>, <<<<"A", "b">>>>, <<<<"*", "b">>>>, <<<<"*", "">>>>,
               <<<<"*", "a", "b">>>>, <<<<"a", "*">>>>,
               <<<<"b">>, <<"*", "A", "b">>>>, <<<<"*", "b">>, <<"b", "a", "b">>>> }

Scoped == [scoped : {TRUE}, allow : {<<>>},
           scopes : {<<>>} \union
              {<<[sni |-> x, allow |-> <<"k", "g">>], [sni |-> y, allow |-> <<"g", "top">>]>> :
                  x \in NameLists, y \in NameLists}]

MCRawConfigs == Flat \union Scoped

MCServerNames == {<<x>> : x \in {"a", "A", "b", ""}} \union
    {<<x, y>> : x \in {"a", "A", "b", "", "*"}, y \in {"b", "A", ""}} \union
    {<<"b", "a", "B">>, <<"b", "A", "b">>, <<"b", "b", "b">>, <<"A", "a", "a">>}

=============================================================================

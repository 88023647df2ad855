------------------------------ MODULE MCSchema ------------------------------
(***************************************************************************)
(* Instances of SchemaWalk: every shape of three nested values, every      *)
(* short argument list on two fields, and definitions that refer to each   *)
(* other through lists.                                                    *)
(***************************************************************************)
EXTENDS SchemaWalk

MCPriority == {0, 1, 2}

Plain(kind, kids) ==
  [kind |-> kind, nullable |-> FALSE, blob |-> NoAttr, meta |-> NoAttr,
   checkable |-> kind = "scalar", kids |-> kids]

Nullable(v) == [v EXCEPT !.nullable = TRUE]
WithBlob(v) == [v EXCEPT !.blob = <<"good">>]
WithAttrs(v, blob, meta) == [v EXCEPT !.blob = blob, !.meta = meta]

Edge(name, to, role) == [name |-> name, to |-> to, role |-> role]

----------------------------------------------------------------------------
(* A root with one field, its child, and the child's child.                *)

NameOf(role) == IF role = "definition" THEN "#D" ELSE IF role \in {"element", "ellipsis"} THEN "[]" ELSE "a"

Decorated(v) == {v, Nullable(v), WithBlob(v), WithBlob(Nullable(v))}

\* One link of the chain: a value of the kind whose only child is node x.
Link(kind, x) ==
  UNION { Decorated(Plain(kind, <<Edge(NameOf(r), x, r)>>)) : r \in RoleIn(kind) }

Leaf == Decorated(Plain("scalar", << >>))
Inner(x) == Link("struct", x) \cup Link("list", x)

Chains ==
  {[root |-> 0, value |-> <<v1, v2, v3>> @@ 0 :> Plain("struct", <<Edge(NameOf(r), 1, r)>>)] :
     r \in RoleIn("struct"), v1 \in Inner(2), v2 \in Inner(3) \cup Leaf, v3 \in Leaf}

\* The same with a second child beside the last one.
Forks ==
  {[root |-> 0, value |-> <<v1, v2, v3>> @@
      0 :> Plain("struct", <<Edge("a", 1, "field"), Edge("b", 2, r)>>)] :
     r \in {"field", "optional"}, v1 \in Inner(3), v2 \in Inner(3) \cup Leaf, v3 \in Leaf}

\* A list with an element before its ellipsis.
Mixed ==
  {[root |-> 0, value |-> <<v1, v2>> @@
      0 :> Plain("struct", <<Edge("a", 3, "field")>>) @@
      3 :> Plain("list", <<Edge("a", 1, "element"), Edge("b", 2, "ellipsis")>>)] :
     v1 \in Leaf, v2 \in Leaf}

----------------------------------------------------------------------------
(* Two fields with arguments.                                              *)

Flag(key) == [key |-> key, whole |-> FALSE, value |-> "empty", n |-> 0]
Whole(a) == [a EXCEPT !.whole = TRUE]
Valued(key, value, n) == [key |-> key, whole |-> FALSE, value |-> value, n |-> n]

MCArgs == {Valued("priority", "good", 1), Valued("priority", "good", 2),
           Valued("priority", "bad", 0), Flag("priority"), Whole(Valued("priority", "good", 2)),
           Flag("conditional"), Whole(Flag("optional")), Flag("skip_empty"), Flag("fail_fast"),
           Valued("required_if", "good", 0), Whole(Valued("skip_if", "good", 0)),
           Flag("required_if"), Flag("unknown")}

Metas == {NoAttr} \cup {<<x>> : x \in MCArgs} \cup {<<x, y>> : x, y \in MCArgs}
Blobs == {NoAttr, <<"good">>, <<"good", "blank", "good">>, <<"blank">>, <<"good", "bad">>}

Annotated ==
  {[root |-> 0, value |-> <<WithAttrs(Plain("scalar", << >>), b, m),
                            WithAttrs(Plain("scalar", << >>), <<"good">>, m2)>> @@
      0 :> Plain("struct", <<Edge("a", 1, "optional"), Edge("b", 2, "field")>>)] :
     b \in Blobs, m \in Metas, m2 \in {NoAttr, <<Valued("priority", "good", 1)>>}}

----------------------------------------------------------------------------
(* #A: {a: [...#B]} with #B: {a: [...#A]}.                                 *)

Recursive ==
  {[root |-> 0, value |-> <<Plain("list", <<Edge("[]", 2, "ellipsis")>>), v2,
                            Plain("list", <<Edge("[]", 0, "ellipsis")>>)>> @@
      0 :> Plain("struct", <<Edge("a", 1, "field")>>)] :
     v2 \in Decorated(Plain("struct", <<Edge("a", 3, "field")>>))}

\* Lists and structs in turn, down to the depth limit and past it.
Towers ==
  {[root |-> 0, value |-> <<Plain("list", <<Edge("[]", 2, "ellipsis")>>), v2, v3, v4, v5>> @@
      0 :> Plain("struct", <<Edge("a", 1, "field")>>)] :
     v2 \in Decorated(Plain("struct", <<Edge("a", 3, "field")>>)),
     v3 \in Decorated(Plain("list", <<Edge("[]", 4, "element")>>)),
     v4 \in Inner(5) \cup Leaf, v5 \in Leaf}

\* {a: null | {a: string @blob(...)}}
Nulled ==
  {[root |-> 0, value |-> <<Nullable(Plain("struct", <<Edge("a", 2, "field")>>)),
                            WithBlob(Plain("scalar", << >>))>> @@
      0 :> Plain("struct", <<Edge("a", 1, "field")>>)]}

\* A schema that is not a struct: a list or scalar embedded in the file.
Bare ==
  {[root |-> 0, value |-> <<v1, v2>> @@ 0 :> v] :
     v \in {Plain("scalar", << >>)} \cup {Plain("list", <<Edge("[]", 1, r)>>) : r \in RoleIn("list")},
     v1 \in Inner(2) \cup Leaf, v2 \in Leaf}

MCSources == Bare \cup Chains \cup Forks \cup Mixed \cup Annotated \cup Recursive \cup Towers
=============================================================================

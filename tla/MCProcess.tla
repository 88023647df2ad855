----------------------------- MODULE MCProcess -----------------------------
(***************************************************************************)
(* Instances of ProcessEngine: a struct with a child, a list with one      *)
(* element, and scalars, under hand-picked schemas in which each control   *)
(* of the loop has something to decide.                                    *)
(***************************************************************************)
EXTENDS ProcessProperties

MCPath == {"a", "a.b", "x", "l"}
MCElement == {"l[0]"}
MCBelow == {<<"a.b", "a">>, <<"l[0]", "l">>}
MCPriority == {-2, -1, 0, 1, 2}

Plain(p) == [priority |-> p, failFast |-> FALSE, skipIf |-> FALSE, skipEmpty |-> FALSE,
             omitEmpty |-> FALSE, omitIfSkip |-> FALSE, optional |-> FALSE, requiredIf |-> FALSE]

Blob(path, m) == [path |-> path, exec |-> TRUE, meta |-> m]
MetaOnly(path, m) == [path |-> path, exec |-> FALSE, meta |-> m]

Scalar(path, p) == [path |-> path, parent |-> "", kind |-> "scalar", optional |-> FALSE,
                    nullable |-> FALSE, hasBlob |-> FALSE, fast |-> TRUE, priority |-> p]
Ruled(f) == [f EXCEPT !.hasBlob = TRUE, !.fast = FALSE]
Optional(f) == [f EXCEPT !.optional = TRUE, !.nullable = TRUE]
Struct(path, p) == [Scalar(path, p) EXCEPT !.kind = "struct", !.fast = FALSE]
List(path, p) == [Scalar(path, p) EXCEPT !.kind = "list"]
Child(f, parent) == [f EXCEPT !.parent = parent]

\* A rule above a nested field of a later group, and a rule on each.
Nested == [fields |-> <<Struct("a", 1), Child(Ruled(Scalar("a.b", 2)), "a"), Ruled(Scalar("x", 1))>>,
           rules |-> <<Blob("a", Plain(1)), Blob("x", Plain(1)), Blob("a.b", Plain(2))>>]

\* A list whose element errors resolve to priority 0.
Listed == [fields |-> <<Ruled(Scalar("x", 1)), List("l", 2)>>,
           rules |-> <<Blob("x", Plain(1)), Blob("l", Plain(2))>>]

\* Three groups, two rules on one path with fail_fast, a later group.
Groups == [fields |-> <<Ruled(Scalar("x", 0)), Ruled(Scalar("a", 0)), Ruled(Scalar("l", 1))>>,
           rules |-> <<Blob("x", [Plain(0) EXCEPT !.failFast = TRUE]),
                       Blob("x", [Plain(0) EXCEPT !.failFast = TRUE]),
                       Blob("a", Plain(0)), Blob("l", Plain(1))>>]

\* Every presence flag, a pure @meta node, required_if and skip_if.
Flags == [fields |-> <<Optional(Scalar("x", 0)), Optional(Scalar("l", 1)), Ruled(Scalar("a", 1))>>,
          rules |-> <<Blob("x", [Plain(0) EXCEPT !.skipIf = TRUE, !.omitIfSkip = TRUE,
                                                 !.skipEmpty = TRUE]),
                      MetaOnly("l", [Plain(1) EXCEPT !.optional = TRUE, !.requiredIf = TRUE,
                                                     !.omitEmpty = TRUE]),
                      Blob("a", [Plain(1) EXCEPT !.failFast = TRUE, !.omitEmpty = TRUE])>>]

\* Two groups below zero.
Negative == [fields |-> <<Ruled(Scalar("x", -2)), Ruled(Scalar("a", -1))>>,
             rules |-> <<Blob("x", Plain(-2)), Blob("a", Plain(-1))>>]

AllSchemas == {Nested, Listed, Groups, Flags, Negative}
NestedSchema == {Nested}
ListedSchema == {Listed}
NegativeSchema == {Negative}
=============================================================================

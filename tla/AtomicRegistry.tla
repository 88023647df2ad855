--------------------------- MODULE AtomicRegistry ---------------------------
(***************************************************************************)
(* A Registry as its callers may think of it: a map from names to          *)
(* validators on which every method takes effect at one instant between    *)
(* its call and its return.                                                *)
(***************************************************************************)
EXTENDS Naturals, Sequences, FiniteSets, TLC

CONSTANTS
  Name,      \* registry keys, ordered as numbers
  Schema,    \* sources that compile
  Broken,    \* a source that does not
  Caller,
  Absent     \* no entry; a nil *Validator

Validator == [schema: Schema, label: Name]

Request ==
  [op: {"Register"}, name: Name, arg: Schema \cup {Broken}]
    \cup [op: {"Put"}, name: Name, arg: Validator \cup {Absent}]
    \cup [op: {"Get", "Has", "Unregister"}, name: Name, arg: {Absent}]
    \cup [op: {"List", "Len"}, name: {0}, arg: {Absent}]

NoRequest == [op |-> "none", name |-> 0, arg |-> Absent]

Names(map) == {n \in Name : map[n] # Absent}

\* The names of a set in lexicographic order.
InOrder(S) ==
  CHOOSE s \in [1 .. Cardinality(S) -> S] :
    \A j, k \in DOMAIN s : j < k => s[j] < s[k]

VARIABLES map, req, answer

atomicVars == <<map, req, answer>>

Pending == <<"pending", 0>>

Init ==
  /\ map = [n \in Name |-> Absent]
  /\ req = [c \in Caller |-> NoRequest]
  /\ answer = [c \in Caller |-> Pending]

Invoke(c) ==
  /\ req[c] = NoRequest
  /\ \E r \in Request : req' = [req EXCEPT ![c] = r]
  /\ UNCHANGED <<map, answer>>

Answer(c, a) == answer[c] = Pending /\ answer' = [answer EXCEPT ![c] = a]

Store(n, v) == map' = [map EXCEPT ![n] = v]

\* Register either stores a validator labelled with its key or stores nothing.
Apply(c) ==
  LET r == req[c] IN
  /\ UNCHANGED req
  /\ \/ /\ r.op = "Register" /\ r.arg # Broken
        /\ Store(r.name, [schema |-> r.arg, label |-> r.name])
        /\ Answer(c, <<"ok", 0>>)
     \/ /\ r.op = "Register"
        /\ Answer(c, <<"error", 0>>) /\ UNCHANGED map
     \/ /\ r.op = "Put" /\ r.arg # Absent
        /\ Store(r.name, r.arg)
        /\ Answer(c, <<"ok", 0>>)
     \/ /\ r.op = "Put" /\ r.arg = Absent
        /\ Answer(c, <<"error", 0>>) /\ UNCHANGED map
     \/ /\ r.op = "Get"
        /\ Answer(c, <<"found", map[r.name]>>) /\ UNCHANGED map
     \/ /\ r.op = "Has"
        /\ Answer(c, <<"has", map[r.name] # Absent>>) /\ UNCHANGED map
     \/ /\ r.op = "Unregister"
        /\ Store(r.name, Absent)
        /\ Answer(c, <<"has", map[r.name] # Absent>>)
     \/ /\ r.op = "List"
        /\ Answer(c, <<"names", InOrder(Names(map))>>) /\ UNCHANGED map
     \/ /\ r.op = "Len"
        /\ Answer(c, <<"len", Cardinality(Names(map))>>) /\ UNCHANGED map

Return(c) ==
  /\ answer[c] # Pending
  /\ req' = [req EXCEPT ![c] = NoRequest]
  /\ answer' = [answer EXCEPT ![c] = Pending]
  /\ UNCHANGED map

Next == \E c \in Caller : Invoke(c) \/ Apply(c) \/ Return(c)

Spec == Init /\ [][Next]_atomicVars
=============================================================================

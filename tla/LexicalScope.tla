---------------------------- MODULE LexicalScope ----------------------------
(***************************************************************************)
(* Block-structured naming, as the C language promises it: scopes nest, a  *)
(* declaration binds a name in the innermost scope only, a use means the   *)
(* innermost binding there is, every object without linkage is an object   *)
(* of its own, and a declaration is refused only if its scope already      *)
(* binds the name to something else.                                       *)
(*                                                                         *)
(* IdentifierResolution, the model of the compiler's scope maps,           *)
(* implements this module.                                                 *)
(***************************************************************************)
EXTENDS Integers, Sequences

CONSTANTS
  Name,       \* identifiers of the program
  Object,     \* what an identifier can stand for
  LinkedTo    \* the one object every linked declaration of a name means

VARIABLES
  scopes,     \* the open scopes, outermost first: each a partial function
  objects,    \* the unlinked objects created so far
  answer      \* what the resolver said about the latest construct

vars == <<scopes, objects, answer>>

Innermost == Len(scopes)
EmptyScope == [n \in {} |-> 0]
Accepted == [kind |-> "accepted"]
Going == answer.kind \in {"accepted", "bound"}

Denotes(n, o) ==
  \E k \in DOMAIN scopes :
    /\ n \in DOMAIN scopes[k]
    /\ scopes[k][n] = o
    /\ \A i \in DOMAIN scopes : i > k => n \notin DOMAIN scopes[i]

\* The open scopes once the innermost one binds n to o.
Binding(n, o) ==
  [scopes EXCEPT ![Innermost] =
     [x \in DOMAIN @ \cup {n} |-> IF x = n THEN o ELSE @[x]]]

Fresh(O) ==
  /\ O \subseteq Object
  /\ O \cap objects = {}
  /\ \A n \in Name : LinkedTo[n] \notin O

MayLink(n) ==
  n \in DOMAIN scopes[Innermost] => scopes[Innermost][n] = LinkedTo[n]

Init ==
  /\ scopes = <<EmptyScope>>
  /\ objects = {}
  /\ answer = Accepted

\* A declaration with linkage; the parameters of a prototype are objects of a
\* scope that is over when the declaration is.
DeclareLinked(n) ==
  /\ Going /\ MayLink(n)
  /\ answer' = Accepted
  /\ scopes' = Binding(n, LinkedTo[n])
  /\ objects \subseteq objects' /\ Fresh(objects' \ objects)

DeclareLocal(n) ==
  /\ Going /\ n \notin DOMAIN scopes[Innermost]
  /\ answer' = Accepted
  /\ \E o \in objects' \ objects :
       /\ Fresh({o})
       /\ objects' = objects \cup {o}
       /\ scopes' = Binding(n, o)

\* A function definition binds its name, then opens the scope its parameters
\* and its body share; each parameter is an object of its own.
DefineFunction(n) ==
  /\ Going /\ MayLink(n)
  /\ answer' = Accepted
  /\ Len(scopes') = Len(scopes) + 1
  /\ scopes' = Append(Binding(n, LinkedTo[n]), scopes'[Len(scopes')])
  /\ LET params == scopes'[Len(scopes')] IN
       /\ DOMAIN params \subseteq Name
       /\ \A p, q \in DOMAIN params : params[p] = params[q] => p = q
       /\ Fresh({params[p] : p \in DOMAIN params})
       /\ objects' = objects \cup {params[p] : p \in DOMAIN params}

Open ==
  /\ Going
  /\ answer' = Accepted
  /\ scopes' = Append(scopes, EmptyScope)
  /\ UNCHANGED objects

Close ==
  /\ Going /\ Len(scopes) > 1
  /\ answer' = Accepted
  /\ scopes' = SubSeq(scopes, 1, Len(scopes) - 1)
  /\ UNCHANGED objects

Use(n) ==
  /\ Going
  /\ UNCHANGED <<scopes, objects>>
  /\ \/ /\ answer'.kind = "bound"
        /\ Denotes(n, answer'.object)
        /\ answer' = [kind |-> "bound", name |-> n, object |-> answer'.object]
     \/ /\ \A k \in DOMAIN scopes : n \notin DOMAIN scopes[k]
        /\ answer' = [kind |-> "undeclared", name |-> n]

\* A refused declaration: its scope binds the name already, and not to the
\* object it stands for itself; or the language has no such declaration there.
Refuse(n) ==
  /\ Going
  /\ UNCHANGED <<scopes, objects>>
  /\ \/ ~MayLink(n) /\ answer' = [kind |-> "conflict", name |-> n, linked |-> TRUE]
     \/ /\ n \in DOMAIN scopes[Innermost]
        /\ answer' = [kind |-> "conflict", name |-> n, linked |-> FALSE]
     \/ /\ answer'.kind = "duplicate"
        /\ \E i, j \in DOMAIN answer'.params :
             i # j /\ answer'.params[i] = n /\ answer'.params[j] = n
     \/ Len(scopes) > 1 /\ answer' = [kind |-> "misplaced", name |-> n]

Next ==
  \/ Open \/ Close
  \/ \E n \in Name : \/ DeclareLinked(n) \/ DeclareLocal(n)
                     \/ DefineFunction(n) \/ Use(n) \/ Refuse(n)

Spec == Init /\ [][Next]_vars

=============================================================================

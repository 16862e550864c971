---------------------------- MODULE NamedObjects ----------------------------
(***************************************************************************)
(* What the copy engine promises about names.  A scope (the variables or   *)
(* the constructs of the context, or the fields of one construct) holds    *)
(* names in the order they were given, and each but the empty one once.  A *)
(* call adds one name and succeeds, or adds nothing: no addition is ever   *)
(* seen half done, and none takes another name away.                       *)
(***************************************************************************)
EXTENDS Sequences

CONSTANTS ContextScopes, Scopes, Names, NoName

VARIABLES names,    \* names[s] for every scope s there is
          err       \* what the last call returned, or the one under way will

Given(scope) == {names[scope][i] : i \in DOMAIN names[scope]}

Init == names = << >> /\ err = "MAM_SUCCESS"

\* A context comes into being with its scopes, and goes with all of them.
Begin == DOMAIN names = {} /\ names' = [s \in ContextScopes |-> << >>] /\ err' = "MAM_SUCCESS"
End == DOMAIN names # {} /\ names' = << >> /\ err' = "MAM_SUCCESS"

\* A name is added; a construct brings a scope of its own with it.
Add(scope, name, opened) ==
  /\ name = NoName \/ name \notin Given(scope)
  /\ names' = [s \in DOMAIN names \cup opened |->
                 IF s \in opened THEN << >>
                 ELSE IF s = scope THEN Append(names[s], name) ELSE names[s]]
  /\ err' = "MAM_SUCCESS"

\* Every other call, and every call that fails.
NoChange == UNCHANGED names /\ err' \in {"MAM_SUCCESS", "MAM_EINVAL", "MAM_ENOMEM"}

Next ==
  \/ NoChange \/ Begin \/ End
  \/ \E opened \in {{s} : s \in DOMAIN names' \ DOMAIN names} \cup {{}} :
       /\ opened \subseteq Scopes
       /\ \E scope \in DOMAIN names, name \in Names : Add(scope, name, opened)

Spec == Init /\ [][Next]_<<names, err>>
=============================================================================

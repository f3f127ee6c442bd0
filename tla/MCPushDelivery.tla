---------------------------- MODULE MCPushDelivery ----------------------------
(* Small instances of PushDelivery. *)
EXTENDS PushDelivery

CONSTANTS first, second, main, tag, github

TwoPushes == {first, second}
BranchAndTag == {main, tag}
OneRemote == {github}
\* The second push also sets a tag.
MainAndTag == [p \in TwoPushes |-> IF p = first THEN {main} ELSE {main, tag}]
\* A commit lists the remote or not.
AnyConfig == SUBSET Remotes
=============================================================================

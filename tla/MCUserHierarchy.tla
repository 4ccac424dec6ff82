--------------------------- MODULE MCUserHierarchy ---------------------------
(* A super admin, an admin, an agent and its client, and a user to come.     *)
(* The percentages are ones createUser accepts.                              *)
EXTENDS UserHierarchy, TLC

User(role, parent, share) ==
  [role |-> role, parent |-> parent, share |-> share, active |-> TRUE, betting |-> TRUE]

MCFirst == [super |-> User("SUPER_ADMIN", None, 100), admin |-> User("ADMIN", "super", 70),
            agent |-> User("AGENT", "admin", 50), client |-> User("CLIENT", "agent", 0)]

MCUsers == DOMAIN MCFirst \union {"new"}
MCNewcomers == {[role |-> "AGENT", share |-> 60, money |-> 0], [role |-> "CLIENT", share |-> 0, money |-> 10]}
MCMixes == {{"create", "switch"}, {"create", "transfer"}, {"commission", "distribute"}}
Symmetry == Permutations(Tasks)
=============================================================================

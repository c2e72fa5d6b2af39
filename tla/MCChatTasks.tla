----------------------------- MODULE MCChatTasks -----------------------------
(* Small instances of ChatTasks: two tasks that want one session, or one    *)
(* task that is guided and stopped.                                        *)
EXTENDS ChatTasks

CONSTANTS a, b, s1

MCSessionOf == [t \in Tasks |-> s1]

=============================================================================

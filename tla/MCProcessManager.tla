-------------------------- MODULE MCProcessManager --------------------------
EXTENDS ProcessManager
CONSTANTS db, web, other
\* web needs db.
OneDependency == [n \in Program |-> IF n = web THEN <<db>> ELSE <<>>]
\* A user may start web under another name.
WebIsNamed == [n \in Program |-> IF n = web THEN {web, other} ELSE {n}]
OwnNames == [n \in Program |-> {n}]
=============================================================================

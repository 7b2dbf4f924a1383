----------------------------- MODULE MCSelfUpdate -----------------------------
(* The release the installer started, one that supports the refill service  *)
(* and one whose services do not stay up; one common and one refill task.   *)
EXTENDS SelfUpdate

\* Every step of an update, and an operator's rollback once its release is
\* healthy.
Anywhere == ({"updater"} \X (Steps \ {"idle"})) \cup {<<"operator", "record">>}

\* Every command and write of an update, and the operator's last one.
Anything ==
    ({"updater"} \X {"save", "stop", "swap", "start", "undoStop", "undoSwap", "undoStart",
                     "report", "ledger"})
        \cup {<<"operator", "record">>}

History(approvals, rollbacks, crashes, faults) ==
    [approvals |-> approvals, rollbacks |-> rollbacks, crashes |-> crashes, faults |-> faults]

\* Two updates and a rollback with a death or an error, and one update with a
\* rollback and one of each or more.
MCBounds == {History(2, 1, 1, 0), History(2, 1, 0, 1), History(1, 1, 2, 1), History(1, 1, 1, 2)}
=============================================================================

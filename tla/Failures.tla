------------------------------ MODULE Failures ------------------------------
(***************************************************************************)
(* The failures of the system proxy that the window still has to show      *)
(* (core::notification::FailureTable), and what files and retires them:    *)
(* every call of apply and clear when it ends, whoever made it, and the    *)
(* guard.                                                                  *)
(***************************************************************************)
EXTENDS Naturals

CONSTANTS
  Codes, None,      \* of SysproxyFailure, but for that of a guard that has stopped
  MaxSettled        \* bound

VARIABLES
  pending,          \* [Codes \cup {"guard"} -> the operation of the failure, or None]
  settled,
  owed              \* [Codes -> the request whose failure is unanswered, or None]; kept to
                    \* state a property

failurevars == <<pending, settled, owed>>

Requests == {"SystemProxyEnable", "SystemProxyDisable"}     \* by the user
Operations == Requests \cup {"SystemProxyRestore"}

Init ==
  /\ pending = [c \in Codes \cup {"guard"} |-> None]
  /\ settled = 0
  /\ owed = [c \in Codes |-> None]

-----------------------------------------------------------------------------
\* Mutation of Outranks: the latest failure is the one that counts.
OutranksNothing(op, other) == FALSE

Outranks(op, other) == op \in Requests /\ other = "SystemProxyRestore"

\* Mutation of RetiredBy: what has succeeded has succeeded.
RetiredByAll(op, asked) == op # "SystemProxyGuard"

\* retired_by_success_of
RetiredBy(op, asked) ==
  /\ op # "SystemProxyGuard" /\ asked # "SystemProxyGuard"
  /\ asked \in Requests \/ op = "SystemProxyRestore"

Record(op, code) ==
  pending' = [pending EXCEPT ![code] = IF Outranks(@, op) THEN @ ELSE op]

Retire(asked) ==
  pending' = [c \in DOMAIN pending |-> IF RetiredBy(pending[c], asked) THEN None ELSE pending[c]]

Counted == settled < MaxSettled /\ settled' = settled + 1

\* settle_table, File.  What asked for the call is the request it runs in, or nobody.
Fails(asked, code) ==
  /\ Counted
  /\ Record(asked, code)
  /\ owed' = IF asked \in Requests THEN [owed EXCEPT ![code] = asked] ELSE owed

\* settle_table, Retire: of apply only, a clear that has worked answers nothing.
Applies(asked) ==
  /\ Counted
  /\ Retire(asked)
  /\ owed' = IF asked \in Requests THEN [c \in Codes |-> None] ELSE owed

\* report_guard_stopped: its code is its own.
GuardStops ==
  /\ Record("SystemProxyGuard", "guard")
  /\ UNCHANGED <<settled, owed>>

\* retire_guard_failures: another guard has started, or none is to run.
GuardRefreshed ==
  /\ pending' = [c \in DOMAIN pending |->
                   IF pending[c] = "SystemProxyGuard" THEN None ELSE pending[c]]
  /\ UNCHANGED <<settled, owed>>

Next ==
  \/ \E asked \in Operations : Applies(asked) \/ \E c \in Codes : Fails(asked, c)
  \/ GuardStops \/ GuardRefreshed

FailureSpec == Init /\ [][Next]_failurevars

-----------------------------------------------------------------------------
\* The window shows, for each code, the request of the user that is still unanswered and
\* nothing else as one of theirs, whatever restores and clears fail or work in between, and
\* a guard that has stopped is theirs in no case (FailureTable, settle_table).
RequestsStayOwed ==
  /\ \A c \in Codes : pending[c] \in Requests \/ owed[c] # None => pending[c] = owed[c]
  /\ pending["guard"] \in {None, "SystemProxyGuard"}
=============================================================================

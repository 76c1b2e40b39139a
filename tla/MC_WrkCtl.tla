------------------------------ MODULE MC_WrkCtl ------------------------------
(***************************************************************************)
(* Instances of WrkCtl for TLC: worker ids and payloads are model values,  *)
(* timeout specs are small sets of sid_wrk_timeout_spec values.  usec is   *)
(* only told apart as zero or non-zero, which is all the code tests.       *)
(***************************************************************************)
EXTENDS WrkCtl, TLC

CONSTANTS w1, w2, p1, p2

NoTimeout == [usec |-> 0, signum |-> "none"]

\* Only the default, with no exec timeout.
TimeoutsOff == {NoTimeout}

\* Callers may pass an exec timeout that sends SIGTERM, SIGKILL or nothing.
TimeoutsAll == {NoTimeout} \cup [usec : {1}, signum : {"none", "SIGTERM", "SIGKILL"}]

\* Callers may pass an exec timeout that sends SIGTERM.
TimeoutsTerm == {NoTimeout, [usec |-> 1, signum |-> "SIGTERM"]}

\* Callers may pass an exec timeout that sends SIGKILL.
TimeoutsKill == {NoTimeout, [usec |-> 1, signum |-> "SIGKILL"]}

\* The lifecycle the worker control promises, over the proxies' states.
Lifecycle == INSTANCE WorkerLifecycle WITH wstate <- state

LifecycleSpec == Lifecycle!LSpec
==============================================================================

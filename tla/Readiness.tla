------------------------------ MODULE Readiness ------------------------------
(* The gate before a week of dry runs (dry_run_readiness.py): seven checks, *)
(* each of which may fail or raise, over the files a morning finds and the  *)
(* machine it runs on.  A machine says which credentials are there, where   *)
(* the stores lie, what the residual register says of each ticker, what the *)
(* tripwire suite does, and whether a message asked for arrives.            *)
EXTENDS DailyStore

CONSTANTS
    SettledUniverse, \* tickers the live filter must screen (code: 204)
    Quarantined      \* tickers it must leave out (code: six)

ASSUME UniverseAssumption == SettledUniverse \in Nat /\ IsFiniteSet(Quarantined)

Checks == <<"credentials", "master", "calendar", "universe", "fence", "tripwires", "message">>

\* inside_the_stores: paths are sequences of names.
InsideStores(machine, path) == \E root \in machine.stores : IsPrefix(root, path)

\* fence_ca_cache: whether a fetch of corporate actions may use the network.
CacheNetwork(machine, path, network, sanctioned) ==
    network /\ (~InsideStores(machine, path) \/ sanctioned)

\* _screened_universe, live: the settled tickers of the register.
Screened(register) == {t \in DOMAIN register : register[t] = "settled"}

\* Slip: any day's dump will do.
MasterCheckAnyDay(disk, day) == disk.masters # {}

MasterCheck(disk, day) == day \in disk.masters

\* The calendar is read from the cache at any age.
CalendarCheck(disk, day) == \E got \in CachedJson(disk.holidays, day, FALSE) : got.served

UniverseCheck(machine) ==
    /\ machine.legible
    /\ Cardinality(Screened(machine.register)) = SettledUniverse
    /\ DOMAIN machine.register \ Screened(machine.register) = Quarantined

FenceCheck(machine) ==
    \A root \in machine.stores : ~CacheNetwork(machine, Append(root, "ca"), TRUE, FALSE)

\* The suite is there, could be run, and passed.
TripwireCheck(machine) == machine.suite = "green"

\* Without the operator's leave nothing is sent, and nothing is certified.
MessageCheck(machine, send) == send /\ machine.arrives

\* assess: each check's answer under its own name; one that raises has failed.
Assess(machine, disk, day, send) ==
    <<[name |-> "credentials", ok |-> machine.keys = {"token", "chat"}],
      [name |-> "master",      ok |-> MasterCheck(disk, day)],
      [name |-> "calendar",    ok |-> CalendarCheck(disk, day)],
      [name |-> "universe",    ok |-> UniverseCheck(machine)],
      [name |-> "fence",       ok |-> FenceCheck(machine)],
      [name |-> "tripwires",   ok |-> TripwireCheck(machine)],
      [name |-> "message",     ok |-> MessageCheck(machine, send)]>>

\* ReadinessReport.ready: every check, in order, and all of them good.
Ready(checks) ==
    /\ [i \in DOMAIN checks |-> checks[i].name] = Checks
    /\ \A i \in DOMAIN checks : checks[i].ok
=============================================================================

------------------------------ MODULE ConfigReload ------------------------------
(***************************************************************************)
(* Configuration loading and hot reload (pkg/config/config.go), the router *)
(* that follows it (pkg/router/router.go) and the part of main() that      *)
(* starts them (cmd/main.go).                                              *)
(*                                                                         *)
(* Three goroutines share the ConfigManager: main, the router's watcher,   *)
(* and whoever calls LoadFromJSON to reload.  Each critical section under  *)
(* cm.mu or r.mu is one step; the watcher's receive from its one-place     *)
(* channel and the UpdateRoutes that follows are two steps.                *)
(*                                                                         *)
(* A configuration is abstracted to the number of the load that installed  *)
(* it and to what the code can do with it:                                 *)
(*   "good"     Validate accepts it and its routes compile                 *)
(*   "invalid"  Validate rejects it (LoadFromJSON does not look)           *)
(*   "panics"   Validate accepts it, and a wildcard pattern of it makes    *)
(*              regexp.MustCompile panic in NewSimpleRouteMatcher          *)
(***************************************************************************)
EXTENDS Integers, Sequences

CONSTANT MaxLoads   \* bound on the number of configurations ever loaded

ASSUME MaxLoadsAssumption == MaxLoads \in Nat

Kind == {"good", "invalid", "panics"}
Config == [version : 0 .. MaxLoads, kind : Kind]

VARIABLES
  current,    \* cm.config
  channel,    \* the router's watcher channel, capacity 1
  watcher,    \* where the goroutine running watchConfigChanges is
  received,   \* its range variable cfg
  routes,     \* the configuration r.routes was last built from
  main,       \* where main() is
  cfg,        \* main's local cfg
  spaced      \* history: every reload so far found the router caught up

vars == <<current, channel, watcher, received, routes, main, cfg, spaced>>

ChannelCap == 1

EmptyConfig == [version |-> 0, kind |-> "invalid"]

TypeOK ==
  /\ current \in Config
  /\ channel \in {<<>>} \cup {<<c>> : c \in Config}
  /\ watcher \in {"absent", "spawned", "receiving", "applying"}
  /\ received \in Config
  /\ routes \in Config
  /\ main \in {"load", "validate", "newRouter", "loadRoutes", "serving",
               "exited", "crashed"}
  /\ cfg \in Config
  /\ spaced \in BOOLEAN

Init ==
  /\ current = EmptyConfig
  /\ channel = <<>>
  /\ watcher = "absent"
  /\ received = EmptyConfig
  /\ routes = EmptyConfig
  /\ main = "load"
  /\ cfg = EmptyConfig
  /\ spaced = TRUE

Running == main \notin {"exited", "crashed"}

--------------------------------------------------------------------------------
(* ConfigManager *)

Registered == watcher \in {"receiving", "applying"}

\* Mutant: the send is made whether or not the channel has room.
NotifyOverfills(new) ==
  channel' = IF Registered THEN Append(channel, new) ELSE channel

\* select { case ch <- &cfg: default: }: a full channel keeps what it holds.
Notify(new) ==
  channel' = IF Registered /\ Len(channel) < ChannelCap
               THEN Append(channel, new) ELSE channel

\* A load that cannot be read or parsed returns before it touches the manager.
LoadFromJSON(kind) ==
  LET new == [version |-> current.version + 1, kind |-> kind] IN
  /\ current.version < MaxLoads
  /\ current' = new
  /\ Notify(new)

--------------------------------------------------------------------------------
(* main() *)

\* Both outcomes of LoadFromFile go on: a failed one leaves EmptyConfig.
MainLoad ==
  /\ main = "load"
  /\ main' = "validate"
  /\ \/ \E kind \in Kind : LoadFromJSON(kind)
     \/ UNCHANGED <<current, channel>>
  /\ UNCHANGED <<watcher, received, routes, cfg, spaced>>

Validate(c) == c.kind # "invalid"

\* The manager is not shared yet, so GetConfig and Validate are one step.
MainValidate ==
  /\ main = "validate"
  /\ cfg' = current
  /\ main' = IF Validate(current) THEN "newRouter" ELSE "exited"
  /\ UNCHANGED <<current, channel, watcher, received, routes, spaced>>

NewRouter ==
  /\ main = "newRouter"
  /\ main' = "loadRoutes"
  /\ watcher' = "spawned"
  /\ UNCHANGED <<current, channel, received, routes, cfg, spaced>>

\* Rebuilding the table either succeeds or panics, which ends the process.
Rebuild(c, then) ==
  IF c.kind = "panics"
    THEN main' = "crashed" /\ UNCHANGED routes
    ELSE main' = then /\ routes' = c

\* Mutant: main's copy is loaded once more while the gateway serves.
MainLoadFromConfigAgain ==
  /\ main \in {"loadRoutes", "serving"}
  /\ Rebuild(cfg, "serving")
  /\ UNCHANGED <<current, channel, watcher, received, cfg, spaced>>

MainLoadFromConfig ==
  /\ main = "loadRoutes"
  /\ Rebuild(cfg, "serving")
  /\ UNCHANGED <<current, channel, watcher, received, cfg, spaced>>

Main == MainLoad \/ MainValidate \/ NewRouter \/ MainLoadFromConfig

--------------------------------------------------------------------------------
(* The router's watcher goroutine *)

RegisterWatcher ==
  /\ Running
  /\ watcher = "spawned"
  /\ watcher' = "receiving"
  /\ channel' = <<>>
  /\ UNCHANGED <<current, received, routes, main, cfg, spaced>>

WatcherReceive ==
  /\ Running
  /\ watcher = "receiving"
  /\ channel # <<>>
  /\ received' = Head(channel)
  /\ channel' = Tail(channel)
  /\ watcher' = "applying"
  /\ UNCHANGED <<current, routes, main, cfg, spaced>>

\* Mutant: a configuration that Validate rejects is received and not applied.
UpdateRoutesSkips ==
  /\ Running
  /\ watcher = "applying"
  /\ watcher' = "receiving"
  /\ IF Validate(received) THEN Rebuild(received, main) ELSE UNCHANGED <<main, routes>>
  /\ UNCHANGED <<current, channel, received, cfg, spaced>>

UpdateRoutes ==
  /\ Running
  /\ watcher = "applying"
  /\ watcher' = "receiving"
  /\ Rebuild(received, main)
  /\ UNCHANGED <<current, channel, received, cfg, spaced>>

Watcher == RegisterWatcher \/ WatcherReceive \/ UpdateRoutes

--------------------------------------------------------------------------------
(* A caller of LoadFromJSON or LoadFromFile other than main's own first     *)
(* load; NewRouter is the first call that shares the manager.               *)

\* Nothing is on its way to the route table.
CaughtUp == main = "serving" /\ watcher = "receiving" /\ channel = <<>>

Reload ==
  /\ main \in {"loadRoutes", "serving"}
  /\ \E kind \in Kind : LoadFromJSON(kind)
  /\ spaced' = (spaced /\ CaughtUp)
  /\ UNCHANGED <<watcher, received, routes, main, cfg>>

Next == Main \/ Watcher \/ Reload

Spec == Init /\ [][Next]_vars

\* main and the watcher never block on anything but the channel, so the Go
\* scheduler runs them; nobody is obliged to reload.
FairSpec == Spec /\ WF_vars(Main) /\ WF_vars(Watcher)

--------------------------------------------------------------------------------
(* Properties *)

\* Once the gateway serves, every rebuild of the route table moves it to a
\* strictly newer configuration: UpdateRoutes never rolls a reload back and
\* never applies one twice, however loads, drops and receives interleave.
NoRollback ==
  [][main = "serving" /\ routes' # routes => routes'.version > routes.version]_vars

\* A configuration LoadFromJSON put in the channel is not lost: unless the
\* process ends, the router comes to use it or a newer one.  Only the default
\* branch of the select may lose a configuration.
DeliveredIsApplied ==
  \A n \in 1 .. MaxLoads :
    (channel # <<>> /\ Head(channel).version = n)
      ~> (routes.version >= n \/ ~Running)

\* As long as every reload waits until the router has caught up with the ones
\* before, none is lost: whenever the gateway is idle, its route table is the
\* last configuration loaded.
SpacedReloadsTakeEffect == spaced /\ CaughtUp => routes = current

--------------------------------------------------------------------------------
(* What the documents say and the code does not do *)

\* README_GATEWAY.md:169: a changed configuration takes effect within seconds.
\* Loads are finitely many, so the routes should end up being the last one.
ReloadTakesEffect == <>[](Running => routes = current)
================================================================================

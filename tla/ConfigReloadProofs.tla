-------------------------- MODULE ConfigReloadProofs --------------------------
(***************************************************************************)
(* Type correctness and monotonicity of the hot reload, for every bound on *)
(* the number of loads.                                                    *)
(***************************************************************************)
EXTENDS ConfigReload, TLAPS

\* The configurations on their way to the router: the one in the channel and
\* the one UpdateRoutes is about to apply.
InChannel(c) == channel = <<c>>
InHand(c) == watcher = "applying" /\ received = c

\* They are newer than what the router has and than what main is about to give
\* it, none is newer than the manager's, and the channel's is the newer one.
Ordered ==
  /\ \A c \in Config : InChannel(c) \/ InHand(c) =>
       /\ c.version > routes.version
       /\ c.version > cfg.version
       /\ c.version <= current.version
  /\ \A c, d \in Config : InHand(c) /\ InChannel(d) => c.version < d.version
  /\ cfg.version <= current.version
  /\ routes.version <= current.version
  /\ Registered => main \in {"loadRoutes", "serving", "crashed"}
  /\ watcher # "absent" => main \in {"loadRoutes", "serving", "crashed"}
  /\ ~Registered => channel = <<>>
  /\ main \in {"load", "validate", "newRouter", "exited"} =>
       routes.version = 0 /\ channel = <<>>

IInv == TypeOK /\ Ordered

\* What the moves of the channel do to it, the only facts about sequences used.
LEMMA ChannelFacts ==
  ASSUME NEW c \in Config
  PROVE  /\ Len(<<>>) < ChannelCap
         /\ ~(Len(<<c>>) < ChannelCap)
         /\ Append(<<>>, c) = <<c>>
         /\ Head(<<c>>) = c
         /\ Tail(<<c>>) = <<>>
         /\ <<c>> # <<>>
  BY DEF ChannelCap

\* A load leaves the types alone and only ever puts the new, newest
\* configuration into an empty channel.
LEMMA LoadEffect ==
  ASSUME TypeOK, ~Registered => channel = <<>>, NEW kind \in Kind, LoadFromJSON(kind)
  PROVE  /\ current' \in Config
         /\ current'.version = current.version + 1
         /\ \/ channel' = channel
            \/ Registered /\ channel = <<>> /\ channel' = <<current'>>
<1> DEFINE new == [version |-> current.version + 1, kind |-> kind]
<1>1. new \in Config /\ current' = new /\ new.version = current.version + 1
  BY MaxLoadsAssumption DEF LoadFromJSON, TypeOK, Config
<1>2. \/ channel' = channel
      \/ Registered /\ channel = <<>> /\ channel' = <<new>>
  BY <1>1, ChannelFacts DEF LoadFromJSON, Notify, TypeOK
<1> QED BY <1>1, <1>2

\* TypeOK and Ordered are inductive.
LEMMA InvInit == Init => IInv
  BY MaxLoadsAssumption, ChannelFacts
  DEF Init, IInv, TypeOK, Ordered, EmptyConfig, Config, Kind, InChannel, InHand, Registered

LEMMA InvNext == IInv /\ [Next]_vars => IInv'
<1> SUFFICES ASSUME IInv, [Next]_vars PROVE IInv'
  OBVIOUS
<1> USE DEF Config
<1>1. CASE MainLoad
  <2>1. CASE \E kind \in Kind : LoadFromJSON(kind)
    <3>1. PICK kind \in Kind : LoadFromJSON(kind)
      BY <2>1
    <3>2. /\ current' \in Config
          /\ current'.version = current.version + 1
          /\ channel' = channel
      BY <1>1, <3>1, LoadEffect DEF MainLoad, IInv, TypeOK, Ordered, Registered
    <3> QED
      BY <1>1, <3>2 DEF MainLoad, IInv, TypeOK, Ordered, InChannel, InHand, Registered
  <2>2. CASE UNCHANGED <<current, channel>>
    BY <1>1, <2>2 DEF MainLoad, IInv, TypeOK, Ordered, InChannel, InHand, Registered
  <2> QED BY <1>1, <2>1, <2>2 DEF MainLoad
<1>2. CASE MainValidate
  BY <1>2 DEF MainValidate, Validate, IInv, TypeOK, Ordered, InChannel, InHand, Registered
<1>3. CASE NewRouter
  BY <1>3 DEF NewRouter, IInv, TypeOK, Ordered, InChannel, InHand, Registered
<1>4. CASE MainLoadFromConfig
  BY <1>4 DEF MainLoadFromConfig, Rebuild, IInv, TypeOK, Ordered, InChannel, InHand,
              Registered
<1>5. CASE RegisterWatcher
  BY <1>5 DEF RegisterWatcher, Running, IInv, TypeOK, Ordered, InChannel, InHand,
              Registered
<1>6. CASE WatcherReceive
  <2>1. PICK c \in Config : channel = <<c>>
    BY <1>6 DEF WatcherReceive, IInv, TypeOK
  <2>2. received' = c /\ channel' = <<>> /\ <<>> # <<c>>
    BY <1>6, <2>1, ChannelFacts DEF WatcherReceive
  <2> QED
    BY <1>6, <2>1, <2>2 DEF WatcherReceive, Running, IInv, TypeOK, Ordered, InChannel,
              InHand, Registered
<1>7. CASE UpdateRoutes
  BY <1>7 DEF UpdateRoutes, Rebuild, Running, IInv, TypeOK, Ordered, InChannel, InHand,
              Registered
<1>8. CASE Reload
  <2>1. PICK kind \in Kind : LoadFromJSON(kind)
    BY <1>8 DEF Reload
  <2>2. /\ current' \in Config
        /\ current'.version = current.version + 1
        /\ \/ channel' = channel
           \/ Registered /\ channel = <<>> /\ channel' = <<current'>>
    BY <2>1, LoadEffect DEF IInv, Ordered
  <2>3. CASE channel' = channel
    BY <1>8, <2>2, <2>3 DEF Reload, IInv, TypeOK, Ordered, InChannel, InHand, Registered
  <2>4. CASE Registered /\ channel = <<>> /\ channel' = <<current'>>
    <3>1. \A c : channel' = <<c>> => c = current'
      BY <2>4
    <3> QED
      BY <1>8, <2>2, <2>4, <3>1 DEF Reload, IInv, TypeOK, Ordered, InChannel, InHand,
              Registered
  <2> QED BY <2>2, <2>3, <2>4
<1>9. CASE UNCHANGED vars
  BY <1>9 DEF vars, IInv, TypeOK, Ordered, InChannel, InHand, Registered
<1> QED
  BY <1>1, <1>2, <1>3, <1>4, <1>5, <1>6, <1>7, <1>8, <1>9 DEF Next, Main, Watcher

THEOREM InvHolds == Spec => []IInv
  BY InvInit, InvNext, PTL DEF Spec

\* The configuration manager, the channel and the router always hold what the
\* declarations of config.go and router.go say: in particular the channel never
\* holds more than one configuration.
THEOREM TypeCorrect == Spec => []TypeOK
  BY InvHolds, PTL DEF IInv

\* Only UpdateRoutes changes the routes of a serving gateway, and what it is
\* about to apply is newer than they are.
LEMMA StepNoRollback ==
  IInv /\ [Next]_vars => (main = "serving" /\ routes' # routes
                            => routes'.version > routes.version)
<1> SUFFICES ASSUME IInv, [Next]_vars, main = "serving", routes' # routes
             PROVE  routes'.version > routes.version
  OBVIOUS
<1>1. UpdateRoutes
  BY DEF Next, vars, Main, Watcher, MainLoad, MainValidate, NewRouter,
         MainLoadFromConfig, RegisterWatcher, WatcherReceive, Reload
<1>2. InHand(received) /\ received \in Config /\ routes' = received
  BY <1>1 DEF UpdateRoutes, Rebuild, InHand, IInv, TypeOK
<1> QED BY <1>2 DEF IInv, Ordered

\* A reload never takes the serving router back to an older configuration nor
\* applies one twice, however many loads there are and however they interleave.
THEOREM RoutesOnlyAdvance == Spec => NoRollback
  BY InvHolds, StepNoRollback, PTL DEF Spec, NoRollback

--------------------------------------------------------------------------------
(* Reloads that wait for the router *)

\* While every reload has waited, the last configuration loaded is the one thing
\* on its way: with main, in the channel, with the watcher or in the table.
LastOnItsWay ==
  /\ main \in {"newRouter", "loadRoutes"} =>
       cfg = current /\ channel = <<>> /\ watcher # "applying"
  /\ main = "serving" /\ watcher = "applying" => received = current /\ channel = <<>>
  /\ main = "serving" /\ channel # <<>> => channel = <<current>>
  /\ main = "serving" /\ watcher # "applying" /\ channel = <<>> => routes = current

SpacedInv == spaced => LastOnItsWay

LEMMA SpacedNext == IInv /\ SpacedInv /\ [Next]_vars => SpacedInv'
<1> SUFFICES ASSUME IInv, SpacedInv, [Next]_vars, spaced' PROVE LastOnItsWay'
  BY DEF SpacedInv
<1>1. CASE MainLoad
  BY <1>1 DEF MainLoad, LastOnItsWay
<1>2. CASE MainValidate
  BY <1>2 DEF MainValidate, IInv, Ordered, LastOnItsWay, Registered
<1>3. CASE NewRouter
  BY <1>3 DEF NewRouter, SpacedInv, LastOnItsWay
<1>4. CASE MainLoadFromConfig
  BY <1>4 DEF MainLoadFromConfig, Rebuild, SpacedInv, LastOnItsWay
<1>5. CASE RegisterWatcher
  BY <1>5 DEF RegisterWatcher, IInv, Ordered, Registered, SpacedInv, LastOnItsWay
<1>6. CASE WatcherReceive
  <2>1. PICK c \in Config : channel = <<c>>
    BY <1>6 DEF WatcherReceive, IInv, TypeOK
  <2>2. received' = c /\ channel' = <<>> /\ <<>> # <<c>>
    BY <1>6, <2>1, ChannelFacts DEF WatcherReceive
  <2>3. channel = <<current>> => c = current
    BY <2>1
  <2> QED BY <1>6, <2>1, <2>2, <2>3 DEF WatcherReceive, SpacedInv, LastOnItsWay
<1>7. CASE UpdateRoutes
  BY <1>7 DEF UpdateRoutes, Rebuild, SpacedInv, LastOnItsWay
<1>8. CASE Reload
  <2>1. PICK kind \in Kind : LoadFromJSON(kind)
    BY <1>8 DEF Reload
  <2>2. spaced /\ main = "serving" /\ watcher = "receiving" /\ channel = <<>>
    BY <1>8 DEF Reload, CaughtUp
  <2>3. channel' = <<current'>> /\ channel' # <<>>
    BY <2>1, <2>2, ChannelFacts, MaxLoadsAssumption
       DEF LoadFromJSON, Notify, Registered, ChannelCap, IInv, TypeOK, Config
  <2> QED BY <1>8, <2>2, <2>3 DEF Reload, LastOnItsWay
<1>9. CASE UNCHANGED vars
  BY <1>9 DEF vars, SpacedInv, LastOnItsWay
<1> QED
  BY <1>1, <1>2, <1>3, <1>4, <1>5, <1>6, <1>7, <1>8, <1>9 DEF Next, Main, Watcher

\* Whoever reloads only when the router has caught up finds, whenever it has, the
\* last configuration in force, for any number of reloads.
THEOREM SpacedReloadsArrive == Spec => []SpacedReloadsTakeEffect
<1>1. Init => SpacedInv
  BY DEF Init, SpacedInv, LastOnItsWay
<1>2. SpacedInv => SpacedReloadsTakeEffect
  BY DEF SpacedInv, LastOnItsWay, SpacedReloadsTakeEffect, CaughtUp
<1> QED BY <1>1, <1>2, SpacedNext, InvHolds, PTL DEF Spec
===============================================================================

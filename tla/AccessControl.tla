----------------------------- MODULE AccessControl ------------------------------
(***************************************************************************)
(* ACLMiddleware and GeoIPBlocker (pkg/middleware/acl.go).  Both decide in *)
(* two steps: the flag that switches them on is read without the lock, the *)
(* lists are read under it; the operations that change either run in       *)
(* between.                                                                *)
(*                                                                         *)
(* parseCIDR understands one range, 0.0.0.0/0, which every address is in,  *)
(* and drops the rest: of a compiled list only its length matters.         *)
(***************************************************************************)
EXTENDS Integers, Sequences

CONSTANTS
  AclConfig,   \* the configurations: [enabled, white, black, allow]
  Country,     \* ISO country codes
  Visitor,     \* the goroutines that ask for a decision
  MaxRules     \* bound on the rules of a list

ASSUME AccessAssumption ==
  \A c \in AclConfig :
    /\ c.enabled \in BOOLEAN /\ c.allow \in BOOLEAN
    /\ c.white \in Seq(STRING) /\ c.black \in Seq(STRING)

Everyone == "0.0.0.0/0"

VARIABLES
  aclEnabled,     \* mw.config.Enabled
  defaultAllow,   \* mw.defaultAllow
  whitelist,      \* len(mw.whitelistRules)
  blacklist,      \* len(mw.blacklistRules)
  geoEnabled,     \* gb.enabled
  blocked,        \* gb.blockedCountries
  visit           \* each call of Allow or IsBlocked

aclState == <<aclEnabled, defaultAllow, whitelist, blacklist>>
geoState == <<geoEnabled, blocked>>
accessVars == <<aclState, geoState, visit>>

\* What a visitor asks: whether the lists let an address pass, or a country.
Asks == {"address"} \cup Country

Visit == [step : {"idle", "enabled", "rules"}, asks : Asks, answer : {"pass", "refuse"},
          inForce : SUBSET {"pass", "refuse", "off"}]   \* history: see InForce

AccessTypeOK ==
  /\ aclEnabled \in BOOLEAN /\ defaultAllow \in BOOLEAN
  /\ whitelist \in Nat /\ blacklist \in Nat
  /\ geoEnabled \in BOOLEAN /\ blocked \subseteq Country
  /\ visit \in [Visitor -> Visit]

\* compileRules keeps the ranges that parseCIDR understands.
Compiled(list) == Len(SelectSeq(list, LAMBDA cidr : cidr = Everyone))

--------------------------------------------------------------------------------
(* What is decided *)

\* The blacklist comes first, then the whitelist if it has any rule.
ByRules(white, black, allow) == black = 0 /\ (white > 0 \/ allow)

AllowedNow == ~aclEnabled \/ ByRules(whitelist, blacklist, defaultAllow)
BlockedNow(country) == geoEnabled /\ country \in blocked
PassesNow(q) == IF q = "address" THEN AllowedNow ELSE ~BlockedNow(q)
SwitchedOff(q) == IF q = "address" THEN ~aclEnabled ELSE ~geoEnabled

\* The right answer of the moment, and whether it is given for being switched off.
InForce(q) ==
  {IF PassesNow(q) THEN "pass" ELSE "refuse"} \cup (IF SwitchedOff(q) THEN {"off"} ELSE {})

StartsAs(c) ==
  /\ aclEnabled = c.enabled
  /\ defaultAllow = c.allow
  /\ whitelist = Compiled(c.white)
  /\ blacklist = Compiled(c.black)

NewACL ==
  /\ \E c \in AclConfig : StartsAs(c)
  /\ geoEnabled = FALSE
  /\ blocked \in SUBSET Country
  /\ visit = [v \in Visitor |-> [step |-> "idle", asks |-> "address", answer |-> "pass",
                                 inForce |-> {"pass"}]]

--------------------------------------------------------------------------------
(* Allow and IsBlocked *)

Call(v, q) ==
  /\ visit[v].step = "idle"
  /\ visit' = [visit EXCEPT ![v] = [step |-> "enabled", asks |-> q, answer |-> "refuse",
                                    inForce |-> InForce(q)]]
  /\ UNCHANGED <<aclState, geoState>>

\* The flag is read without the lock; switched off, everybody passes.
ReadEnabledFlag(v) ==
  /\ visit[v].step = "enabled"
  /\ visit' = [visit EXCEPT ![v] =
       IF SwitchedOff(visit[v].asks) THEN [@ EXCEPT !.step = "idle", !.answer = "pass"]
       ELSE [@ EXCEPT !.step = "rules"]]
  /\ UNCHANGED <<aclState, geoState>>

\* Mutant: a visitor on the whitelist passes without a look at the blacklist.
ReadRulesWhiteFirst(v) ==
  LET q == visit[v].asks
      passes == IF q = "address"
                  THEN whitelist > 0 \/ ByRules(whitelist, blacklist, defaultAllow)
                  ELSE q \notin blocked
  IN  /\ visit[v].step = "rules"
      /\ visit' = [visit EXCEPT ![v].step = "idle",
                                ![v].answer = IF passes THEN "pass" ELSE "refuse"]
      /\ UNCHANGED <<aclState, geoState>>

\* The lists are read under the lock, and the flag is not read again.
ReadRules(v) ==
  LET q == visit[v].asks
      passes == IF q = "address" THEN ByRules(whitelist, blacklist, defaultAllow)
                ELSE q \notin blocked
  IN  /\ visit[v].step = "rules"
      /\ visit' = [visit EXCEPT ![v].step = "idle",
                                ![v].answer = IF passes THEN "pass" ELSE "refuse"]
      /\ UNCHANGED <<aclState, geoState>>

--------------------------------------------------------------------------------
(* The operations that change what is in force.  Witness brings the        *)
(* histories of the calls under way up to date.                            *)

Witness ==
  LET now == [q \in Asks |-> InForce(q)'] IN
  visit' = [v \in Visitor |->
    IF visit[v].step = "idle" THEN visit[v]
    ELSE [visit[v] EXCEPT !.inForce = @ \cup now[visit[v].asks]]]

\* Rules that were added at run time are dropped with the rest.
UpdateACL ==
  /\ \E c \in AclConfig :
       /\ aclEnabled' = c.enabled
       /\ defaultAllow' = c.allow
       /\ whitelist' = Compiled(c.white)
       /\ blacklist' = Compiled(c.black)
  /\ UNCHANGED geoState
  /\ Witness

\* AddToWhitelist and AddToBlacklist append without looking for duplicates.
AddRule ==
  /\ \/ whitelist < MaxRules /\ whitelist' = whitelist + 1 /\ UNCHANGED blacklist
     \/ blacklist < MaxRules /\ blacklist' = blacklist + 1 /\ UNCHANGED whitelist
  /\ UNCHANGED <<aclEnabled, defaultAllow, geoState>>
  /\ Witness

\* RemoveFromWhitelist and RemoveFromBlacklist take the first of them out.
RemoveRule ==
  /\ \/ whitelist > 0 /\ whitelist' = whitelist - 1 /\ UNCHANGED blacklist
     \/ blacklist > 0 /\ blacklist' = blacklist - 1 /\ UNCHANGED whitelist
  /\ UNCHANGED <<aclEnabled, defaultAllow, geoState>>
  /\ Witness

\* Enable and Disable
SetGeoEnabled ==
  /\ geoEnabled' \in BOOLEAN
  /\ UNCHANGED <<aclState, blocked>>
  /\ Witness

\* AddBlockedCountry and RemoveBlockedCountry
SetBlocked(country) ==
  /\ blocked' \in {blocked \cup {country}, blocked \ {country}}
  /\ UNCHANGED <<aclState, geoEnabled>>
  /\ Witness

AccessStep ==
  \/ \E v \in Visitor :
       (\E q \in Asks : Call(v, q)) \/ ReadEnabledFlag(v) \/ ReadRules(v)
  \/ UpdateACL
  \/ AddRule
  \/ RemoveRule
  \/ SetGeoEnabled
  \/ \E country \in Country : SetBlocked(country)

AccessSpec == NewACL /\ [][AccessStep]_accessVars

--------------------------------------------------------------------------------

\* Every decision is one that was in force at some moment of the call, although
\* flag and lists are read at different moments.  The exception is a call during
\* which the middleware is switched off: it may refuse by lists that were never
\* in force.  Nobody passes whom no configuration of that time let pass.
DecisionsWereInForce ==
  \A v \in Visitor :
    LET call == visit[v] IN
    call.step = "idle" =>
      call.answer \in call.inForce \/ (call.answer = "refuse" /\ "off" \in call.inForce)
================================================================================

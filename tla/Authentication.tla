----------------------------- MODULE Authentication -----------------------------
(***************************************************************************)
(* AuthMiddleware (pkg/middleware/auth.go): the four ways to authenticate  *)
(* and the cache of validated JWTs, a sync.Map that handlers fill while    *)
(* Cleanup empties it.  The configuration never changes.                   *)
(*                                                                         *)
(* What a request carries is abstracted to one credential: Missing, or a   *)
(* token, key or user and password.  Genuine are those that the validator  *)
(* of the type in force accepts: signed with the secret, or listed.  The   *)
(* identity in an AuthResult is abstracted to the credential it is made of. *)
(***************************************************************************)
EXTENDS Integers

CONSTANTS
  Credential,   \* what requests may carry, Missing aside
  Genuine,      \* those that are valid
  Login         \* the goroutines that authenticate

Missing == "missing"
Type == {"jwt", "basic", "apikey", "oauth2", ""}

VARIABLES
  authConfig,   \* mw.config, with whether its secret, users or keys are set
  cache,        \* mw.cache: the identity stored for each token, or Missing
  login         \* each handler: where it is, what it carries and its answer

authVars == <<authConfig, cache, login>>

AuthConfig == [type : Type, enabled : BOOLEAN, set : BOOLEAN]
Answer == Credential \cup {"none", "refused", "anybody"}

AuthTypeOK ==
  /\ authConfig \in AuthConfig
  /\ cache \in [Credential -> Credential \cup {Missing}]
  /\ login \in [Login -> [step : {"idle", "load", "validate"},
                          carries : Credential \cup {Missing}, answer : Answer]]

NewAuthMiddleware ==
  /\ authConfig \in AuthConfig
  /\ cache = [c \in Credential |-> Missing]
  /\ login = [l \in Login |-> [step |-> "idle", carries |-> Missing, answer |-> "none"]]

--------------------------------------------------------------------------------

\* The three validators differ in the secret they compare with: none of them is
\* there when the configuration does not set it, and authentication fails.
Validate(c) == IF authConfig.set /\ c \in Genuine THEN c ELSE "refused"

\* Authenticate for everything but a JWT that has to be looked up.
AuthenticateAtOnce(c) ==
  IF ~authConfig.enabled \/ authConfig.type = "" THEN "anybody"
  ELSE IF c = Missing THEN "refused"
  ELSE IF authConfig.type = "oauth2" THEN "anybody"
  ELSE Validate(c)

LooksUp(c) == authConfig.enabled /\ authConfig.type = "jwt" /\ c # Missing

\* authenticateBasic, authenticateAPIKey and authenticateOAuth2 share nothing.
Authenticate(l, c) ==
  /\ login[l].step = "idle"
  /\ login' = [login EXCEPT ![l] =
       IF LooksUp(c) THEN [step |-> "load", carries |-> c, answer |-> "none"]
       ELSE [step |-> "idle", carries |-> c, answer |-> AuthenticateAtOnce(c)]]
  /\ UNCHANGED <<authConfig, cache>>

\* A cached result is returned as it is.
LoadToken(l) ==
  LET found == cache[login[l].carries] IN
  /\ login[l].step = "load"
  /\ login' = [login EXCEPT ![l] =
       IF found = Missing THEN [@ EXCEPT !.step = "validate"]
       ELSE [@ EXCEPT !.step = "idle", !.answer = found]]
  /\ UNCHANGED <<authConfig, cache>>

\* Mutant: the token is stored before the error is looked at.
ValidateTokenUnchecked(l) ==
  LET c == login[l].carries IN
  /\ login[l].step = "validate"
  /\ login' = [login EXCEPT ![l].step = "idle", ![l].answer = Validate(c)]
  /\ cache' = [cache EXCEPT ![c] = c]
  /\ UNCHANGED authConfig

\* Only a token that was accepted is stored.  Validate reads nothing that
\* changes, so that it and the Store that follows are one step.
ValidateToken(l) ==
  LET c == login[l].carries IN
  /\ login[l].step = "validate"
  /\ login' = [login EXCEPT ![l].step = "idle", ![l].answer = Validate(c)]
  /\ cache' = IF Validate(c) = "refused" THEN cache ELSE [cache EXCEPT ![c] = c]
  /\ UNCHANGED authConfig

\* Cleanup deletes one token after the other, new ones or not.
ForgetToken(c) ==
  /\ cache[c] # Missing
  /\ cache' = [cache EXCEPT ![c] = Missing]
  /\ UNCHANGED <<authConfig, login>>

AuthStep ==
  \/ \E l \in Login :
       \/ \E c \in Credential \cup {Missing} : Authenticate(l, c)
       \/ LoadToken(l)
       \/ ValidateToken(l)
  \/ \E c \in Credential : ForgetToken(c)

AuthSpec == NewAuthMiddleware /\ [][AuthStep]_authVars

--------------------------------------------------------------------------------

\* The cache is invisible: whatever the order in which handlers look up, fill
\* and Cleanup empties it, a request gets the answer it would get without one.
CacheIsTransparent ==
  \A l \in Login :
    LET c == login[l].carries IN
    login[l].answer # "none" => login[l].answer = AuthenticateAtOnce(c)
================================================================================

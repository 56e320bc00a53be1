----------------------------- MODULE UserAccounts -----------------------------
(***************************************************************************)
(* The account of a user of the panel: sign-in with and without a second   *)
(* factor, its set-up, the reset of a forgotten password, the changes made *)
(* by the user and by an administrator, the removal.                       *)
(*                                                                         *)
(* A handler reads the account and writes to it later, with bcrypt, the QR *)
(* code and other awaits in between: each request is a record of what it   *)
(* has read.  save() writes back the loaded columns that differ from the   *)
(* row (enabled, isTwoFactorEnabled); update() writes only those it names. *)
(* A wrong password or code changes nothing: only right ones are followed. *)
(***************************************************************************)
EXTENDS Naturals

CONSTANTS
  Requests,      \* requests about the account that can be open at a time
  MaxSecrets,    \* bound: secrets generated
  MaxLinks       \* bound: reset links sent

ASSUME UserBoundsAssumption == MaxSecrets \in Nat /\ MaxLinks \in Nat

VARIABLES
  account,   \* the row of the user
  phone,     \* secrets in the user's authenticator application
  request,   \* open requests: what they have read, and the tempTokens that
             \* the application holds between the two requests of a sign-in
  made,      \* the last secret generated
  issued,    \* the last reset link sent
  consumed,  \* history: how often each link was accepted
  crossed    \* history: a write met second-factor columns that had changed
             \* since its request read them, and nothing cleared them since

userVars == <<account, phone, request, made, issued, consumed, crossed>>

-----------------------------------------------------------------------------
(* Rows.                                                                   *)

Secrets == 0..MaxSecrets   \* 0 is null
Links == 0..MaxLinks       \* 0 is null
UserRow == [enabled : BOOLEAN, session : BOOLEAN, twoFactor : BOOLEAN,
            secret : Secrets, link : Links, expired : BOOLEAN]
Steps == {"none", "login", "code", "generate", "scan", "enable", "disable", "reset",
          "change", "profile", "save_password", "save_profile"}
RequestRecord == [step : Steps, enabled : BOOLEAN, twoFactor : BOOLEAN,
                  secret : Secrets, link : Links]

UsersTypeOK ==
  /\ account \in UserRow
  /\ phone \subseteq Secrets \ {0}
  /\ request \in [Requests -> RequestRecord]
  /\ made \in Secrets
  /\ issued \in Links
  /\ consumed \in [Links -> 0..2]
  /\ crossed \in BOOLEAN

NoRequest == [step |-> "none", enabled |-> FALSE, twoFactor |-> FALSE,
              secret |-> 0, link |-> 0]

UsersInit ==
  /\ account = [enabled |-> TRUE, session |-> FALSE, twoFactor |-> FALSE,
                secret |-> 0, link |-> 0, expired |-> FALSE]
  /\ phone = {}
  /\ request = [q \in Requests |-> NoRequest]
  /\ made = 0
  /\ issued = 0
  /\ consumed = [l \in Links |-> 0]
  /\ crossed = FALSE

-----------------------------------------------------------------------------
(* Requests.                                                               *)

\* The request goes on to a step with the columns it has read, and no others.
Goes(q, step, read) ==
  request' = [request EXCEPT ![q] = [read EXCEPT !.step = step]]
Opens(q, step, read) == request[q].step = "none" /\ Goes(q, step, read)
Factor == [NoRequest EXCEPT !.twoFactor = account.twoFactor,
                            !.secret = account.secret]
Entity == [Factor EXCEPT !.enabled = account.enabled]
Link == [NoRequest EXCEPT !.link = account.link]
Ends(q, step) ==
  request[q].step = step /\ request' = [request EXCEPT ![q] = NoRequest]
Sets(row) == account' = row

\* JwtStrategy, and TwoFactorEnabledGuard behind it.
IsSignedIn == account.enabled /\ account.session
TwoFactorEnabledGuard == IsSignedIn /\ account.twoFactor
\* totp.verify with a code of the user's application.
HasCode == account.secret # 0 /\ account.secret \in phone

\* A write of second-factor columns by request q.
Changed(q) == \/ request[q].twoFactor # account.twoFactor
              \/ request[q].secret # account.secret
Crosses(q) == crossed' = (crossed \/ Changed(q))

Kept == UNCHANGED <<made, issued, consumed>>
KeptFactor == UNCHANGED <<phone, crossed>>

-----------------------------------------------------------------------------
(* Sign-in.                                                                *)

StartLogin(q) ==
  /\ account.enabled
  /\ ~account.twoFactor
  /\ Opens(q, "login", NoRequest)
  /\ UNCHANGED account /\ Kept /\ KeptFactor

\* The password was right, the code is due: a tempToken goes out.
LoginAsksCode(q) ==
  /\ account.enabled
  /\ account.twoFactor
  /\ Opens(q, "code", NoRequest)
  /\ UNCHANGED account /\ Kept /\ KeptFactor

VerifyTwoFactorLogin(q) ==
  /\ request[q].step = "code"
  /\ account.enabled
  /\ account.twoFactor
  /\ HasCode
  /\ Goes(q, "login", NoRequest)
  /\ UNCHANGED account /\ Kept /\ KeptFactor

TempTokenExpires(q) ==
  /\ Ends(q, "code")
  /\ UNCHANGED account /\ Kept /\ KeptFactor

\* The session is stored by id, whatever has become of the account.
EndLogin(q) ==
  /\ Ends(q, "login")
  /\ Sets([account EXCEPT !.session = TRUE])
  /\ Kept /\ KeptFactor

Logout ==
  /\ IsSignedIn
  /\ Sets([account EXCEPT !.session = FALSE])
  /\ UNCHANGED request /\ Kept /\ KeptFactor

-----------------------------------------------------------------------------
(* The second factor.                                                      *)

\* Mutant: a secret is generated although the second factor is on.
GeneratesAnyway == TRUE

MayGenerate == ~account.twoFactor

StartGenerate(q) ==
  /\ IsSignedIn
  /\ MayGenerate
  /\ Opens(q, "generate", Factor)
  /\ UNCHANGED account /\ Kept /\ KeptFactor

\* The secret is stored; the answer with its QR code is on its way.
EndGenerate(q) ==
  /\ request[q].step = "generate"
  /\ made < MaxSecrets
  /\ made' = made + 1
  /\ Sets([account EXCEPT !.secret = made'])
  /\ Crosses(q)
  /\ Goes(q, "scan", [NoRequest EXCEPT !.secret = made'])
  /\ UNCHANGED <<phone, issued, consumed>>

Scan(q) ==
  /\ Ends(q, "scan")
  /\ phone' = phone \cup {request[q].secret}
  /\ UNCHANGED <<account, crossed>> /\ Kept

StartEnable(q) ==
  /\ IsSignedIn
  /\ ~account.twoFactor
  /\ HasCode
  /\ Opens(q, "enable", Factor)
  /\ UNCHANGED account /\ Kept /\ KeptFactor

EndEnable(q) ==
  /\ Ends(q, "enable")
  /\ Sets([account EXCEPT !.twoFactor = TRUE])
  /\ Crosses(q)
  /\ UNCHANGED phone /\ Kept

StartDisable(q) ==
  /\ IsSignedIn
  /\ account.twoFactor
  /\ HasCode
  /\ Opens(q, "disable", NoRequest)
  /\ UNCHANGED account /\ Kept /\ KeptFactor

WithoutFactor == [account EXCEPT !.twoFactor = FALSE, !.secret = 0]

EndDisable(q) ==
  /\ Ends(q, "disable")
  /\ Sets(WithoutFactor)
  /\ crossed' = FALSE
  /\ UNCHANGED phone /\ Kept

\* An administrator, for a user that has lost the telephone.
ResetTwoFactor ==
  /\ Sets(WithoutFactor)
  /\ crossed' = FALSE
  /\ UNCHANGED <<phone, request>> /\ Kept

-----------------------------------------------------------------------------
(* The forgotten password.                                                 *)

ForgotPassword ==
  /\ account.enabled
  /\ issued < MaxLinks
  /\ issued' = issued + 1
  /\ Sets([account EXCEPT !.link = issued', !.expired = FALSE])
  /\ UNCHANGED <<request, made, consumed>> /\ KeptFactor

LinkExpires ==
  /\ account.link # 0
  /\ ~account.expired
  /\ Sets([account EXCEPT !.expired = TRUE])
  /\ UNCHANGED request /\ Kept /\ KeptFactor

\* resetPassword finds the link that was presented on the account.
ValidateLink(q) ==
  /\ account.enabled
  /\ account.link # 0
  /\ ~account.expired
  /\ Opens(q, "reset", Link)
  /\ UNCHANGED account /\ Kept /\ KeptFactor

\* Mutant: the update names the user only, not the link.
ConsumesAny(link) == TRUE

Consumes(link) == account.link = link

\* The update that takes the link off, and its count of affected rows.
ConsumeLink(q) ==
  /\ request[q].step = "reset"
  /\ Consumes(request[q].link)
  /\ Sets([account EXCEPT !.link = 0, !.expired = FALSE, !.session = FALSE])
  /\ consumed' = [consumed EXCEPT ![request[q].link] = @ + 1]
  /\ Goes(q, "change", NoRequest)
  /\ UNCHANGED <<made, issued>> /\ KeptFactor

LinkIsGone(q) ==
  /\ ~Consumes(request[q].link)
  /\ Ends(q, "reset")
  /\ UNCHANGED account /\ Kept /\ KeptFactor

-----------------------------------------------------------------------------
(* Saved entities.                                                         *)

\* updateMyPassword; updatePassword by an administrator.
UpdateMyPassword(q) ==
  /\ TwoFactorEnabledGuard
  /\ Opens(q, "change", NoRequest)
  /\ UNCHANGED account /\ Kept /\ KeptFactor
UpdatePassword(q) ==
  /\ Opens(q, "change", NoRequest)
  /\ UNCHANGED account /\ Kept /\ KeptFactor

\* changePassword finds the user, enabled or not, and hashes the password.
FindForPassword(q) ==
  /\ request[q].step = "change"
  /\ Goes(q, "save_password", Entity)
  /\ UNCHANGED account /\ Kept /\ KeptFactor

\* updateMyProfile; update and updateCashiers by an administrator.
UpdateMyProfile(q) ==
  /\ TwoFactorEnabledGuard
  /\ Opens(q, "profile", NoRequest)
  /\ UNCHANGED account /\ Kept /\ KeptFactor
UpdateUser(q) ==
  /\ Opens(q, "profile", NoRequest)
  /\ UNCHANGED account /\ Kept /\ KeptFactor

\* findOne looks for an enabled user.
FindForProfile(q) ==
  /\ request[q].step = "profile"
  /\ IF account.enabled
     THEN Goes(q, "save_profile", Entity)
     ELSE request' = [request EXCEPT ![q] = NoRequest]
  /\ UNCHANGED account /\ Kept /\ KeptFactor

Saves(q) == [account EXCEPT !.enabled = request[q].enabled,
                            !.twoFactor = request[q].twoFactor]
SavePassword(q) ==
  /\ Ends(q, "save_password")
  /\ Sets([Saves(q) EXCEPT !.session = FALSE])
  /\ Crosses(q)
  /\ UNCHANGED phone /\ Kept
SaveProfile(q) ==
  /\ Ends(q, "save_profile")
  /\ Sets(Saves(q))
  /\ Crosses(q)
  /\ UNCHANGED phone /\ Kept

RemoveUser ==
  /\ account.enabled
  /\ Sets([account EXCEPT !.enabled = FALSE])
  /\ UNCHANGED request /\ Kept /\ KeptFactor

\* The process ends, and with it the requests and the answers on their way.
UsersCrash ==
  /\ \E q \in Requests : request[q].step \notin {"none", "code"}
  /\ request' = [q \in Requests |-> IF request[q].step = "code"
                                     THEN request[q] ELSE NoRequest]
  /\ UNCHANGED account /\ Kept /\ KeptFactor

UsersNext ==
  \/ \E q \in Requests : StartLogin(q)
  \/ \E q \in Requests : LoginAsksCode(q)
  \/ \E q \in Requests : VerifyTwoFactorLogin(q)
  \/ \E q \in Requests : TempTokenExpires(q)
  \/ \E q \in Requests : EndLogin(q)
  \/ Logout
  \/ \E q \in Requests : StartGenerate(q)
  \/ \E q \in Requests : EndGenerate(q)
  \/ \E q \in Requests : Scan(q)
  \/ \E q \in Requests : StartEnable(q)
  \/ \E q \in Requests : EndEnable(q)
  \/ \E q \in Requests : StartDisable(q)
  \/ \E q \in Requests : EndDisable(q)
  \/ ResetTwoFactor
  \/ ForgotPassword
  \/ LinkExpires
  \/ \E q \in Requests : ValidateLink(q)
  \/ \E q \in Requests : ConsumeLink(q)
  \/ \E q \in Requests : LinkIsGone(q)
  \/ \E q \in Requests : UpdateMyPassword(q)
  \/ \E q \in Requests : UpdatePassword(q)
  \/ \E q \in Requests : FindForPassword(q)
  \/ \E q \in Requests : UpdateMyProfile(q)
  \/ \E q \in Requests : UpdateUser(q)
  \/ \E q \in Requests : FindForProfile(q)
  \/ \E q \in Requests : SavePassword(q)
  \/ \E q \in Requests : SaveProfile(q)
  \/ RemoveUser
  \/ UsersCrash

UsersSpec == UsersInit /\ [][UsersNext]_userVars

-----------------------------------------------------------------------------
(* Properties.                                                             *)

\* Requests that present the same reset link at once, links that are
\* replaced while a request checks the old one, crashes: a link is accepted
\* at most once (resetPassword consumes it by its hash and looks at the rows
\* affected).
ResetLinkUsedOnce == \A l \in Links : consumed[l] <= 1

\* A user with the second factor on can produce a code for the secret that is
\* stored, or an administrator's reset is needed because two writes crossed:
\* one landed on second-factor columns that had changed since its request
\* read them (enableTwoFactor, generateTwoFactorSecret, changePassword and
\* the saves of a profile lock nothing).
SecondFactorUsable == account.twoFactor /\ ~crossed => HasCode

-----------------------------------------------------------------------------
(* The inductive invariant.                                                *)

\* Links that are on the account or that a request has checked were sent;
\* those not yet sent, and the one on the account, were not accepted.
LinksFresh ==
  /\ account.link <= issued
  /\ account.link # 0 => consumed[account.link] = 0
  /\ \A l \in Links : l > issued => consumed[l] = 0
  /\ \A q \in Requests : request[q].step = "reset" =>
       /\ request[q].link # 0
       /\ request[q].link <= issued

\* What a request that sets up the second factor has read.
SetUpAsRead ==
  \A q \in Requests :
    /\ request[q].step = "generate" => ~request[q].twoFactor
    /\ request[q].step = "enable" => request[q].secret \in phone \ {0}
    /\ request[q].step = "scan" => request[q].secret # 0

UsersInv == /\ UsersTypeOK
            /\ LinksFresh /\ ResetLinkUsedOnce
            /\ SetUpAsRead /\ SecondFactorUsable
=============================================================================

--------------------------- MODULE BackOfficeProofs ---------------------------
(***************************************************************************)
(* Accounts of users and customers, the limit on reservations and the seed *)
(* of the roles: what interleaved requests, crashes and new releases leave *)
(* true, for any number of requests, rows and releases, and that a user of *)
(* a static role, or somebody from outside, can call every route.          *)
(***************************************************************************)
EXTENDS RoleSeed, UserAccounts, CustomerAccounts, ReservationLimit, TLAPS

-----------------------------------------------------------------------------
(* Users.                                                                  *)

\* What a request has read fits its record, and the record with a new step
\* keeps it.
LEMMA ReadsFit ==
  ASSUME UsersTypeOK
  PROVE  /\ {NoRequest, Factor, Entity, Link} \subseteq RequestRecord
         /\ \A s \in Secrets :
              [NoRequest EXCEPT !.secret = s] \in RequestRecord
         /\ \A read \in RequestRecord, step \in Steps :
              /\ [read EXCEPT !.step = step] \in RequestRecord
              /\ [read EXCEPT !.step = step].step = step
              /\ [read EXCEPT !.step = step].twoFactor = read.twoFactor
              /\ [read EXCEPT !.step = step].secret = read.secret
              /\ [read EXCEPT !.step = step].link = read.link
<1>1. NoRequest \in RequestRecord
  BY UserBoundsAssumption DEF NoRequest, RequestRecord, Steps, Secrets, Links
<1>2. Factor \in RequestRecord /\ Entity \in RequestRecord /\ Link \in RequestRecord
  BY <1>1
     DEF Factor, Entity, Link, NoRequest, RequestRecord, Steps, UsersTypeOK,
              UserRow
<1>3. \A s \in Secrets : [NoRequest EXCEPT !.secret = s] \in RequestRecord
  BY <1>1 DEF NoRequest, RequestRecord
<1>4. \A read \in RequestRecord, step \in Steps :
        /\ [read EXCEPT !.step = step] \in RequestRecord
        /\ [read EXCEPT !.step = step].step = step
        /\ [read EXCEPT !.step = step].twoFactor = read.twoFactor
        /\ [read EXCEPT !.step = step].secret = read.secret
        /\ [read EXCEPT !.step = step].link = read.link
  BY DEF RequestRecord
<1> QED BY <1>1, <1>2, <1>3, <1>4

\* A row of the account stays one when columns of it are written.
LEMMA AccountStays ==
  ASSUME UsersTypeOK
  PROVE  /\ \A b \in BOOLEAN : /\ [account EXCEPT !.session = b] \in UserRow
                               /\ [account EXCEPT !.enabled = b] \in UserRow
                               /\ [account EXCEPT !.twoFactor = b] \in UserRow
                               /\ [account EXCEPT !.expired = b] \in UserRow
         /\ \A s \in Secrets : [account EXCEPT !.secret = s] \in UserRow
         /\ WithoutFactor \in UserRow
         /\ \A l \in Links, b, c \in BOOLEAN :
              /\ [account EXCEPT !.link = l, !.expired = b] \in UserRow
              /\ [account EXCEPT !.link = l, !.expired = b, !.session = c]
                   \in UserRow
         /\ \A q \in Requests :
              /\ Saves(q) \in UserRow
              /\ [Saves(q) EXCEPT !.session = FALSE] \in UserRow
<1>1. 0 \in Secrets
  BY UserBoundsAssumption DEF Secrets
<1>2. \A q \in Requests : Saves(q) \in UserRow
  BY DEF UsersTypeOK, UserRow, Saves, RequestRecord
<1> QED
  BY <1>1, <1>2 DEF UsersTypeOK, UserRow, WithoutFactor

\* A request that ends, or goes on to a step without a claim on what it has
\* read, leaves the claims of the others as they are.
LEMMA RequestsKeep ==
  ASSUME UsersInv, NEW q \in Requests, NEW read \in RequestRecord,
         \/ request' = [request EXCEPT ![q] = NoRequest]
         \/ \E step \in Steps \ {"generate", "enable", "scan", "reset"} :
              Goes(q, step, read)
  PROVE  /\ request' \in [Requests -> RequestRecord]
         /\ phone \subseteq phone' => SetUpAsRead'
         /\ issued' = issued => \A p \in Requests :
              request'[p].step = "reset" =>
                request'[p].link # 0 /\ request'[p].link <= issued'
<1>1. PICK now \in RequestRecord :
        /\ request' = [request EXCEPT ![q] = now]
        /\ now.step \notin {"generate", "enable", "scan", "reset"}
  <2>1. CASE request' = [request EXCEPT ![q] = NoRequest]
    <3>1. NoRequest.step = "none"
      BY DEF NoRequest
    <3> QED BY <2>1, <3>1, ReadsFit DEF UsersInv
  <2>2. ASSUME NEW step \in Steps \ {"generate", "enable", "scan", "reset"},
               Goes(q, step, read)
        PROVE  \E now \in RequestRecord :
                 /\ request' = [request EXCEPT ![q] = now]
                 /\ now.step \notin {"generate", "enable", "scan", "reset"}
    <3>1. /\ [read EXCEPT !.step = step] \in RequestRecord
          /\ [read EXCEPT !.step = step].step = step
      BY ReadsFit DEF UsersInv
    <3> QED BY <2>2, <3>1 DEF Goes
  <2> QED BY <2>1, <2>2
<1>2. request' \in [Requests -> RequestRecord]
  BY <1>1 DEF UsersInv, UsersTypeOK
<1>3. \A p \in Requests :
        \/ request'[p] = request[p]
        \/ request'[p].step \notin {"generate", "enable", "scan", "reset"}
  BY <1>1 DEF UsersInv, UsersTypeOK
<1> QED
  BY <1>2, <1>3 DEF UsersInv, SetUpAsRead, LinksFresh

\* UsersInv is inductive: one step of the proof per handler's step.
THEOREM UsersInvariant == UsersSpec => []UsersInv
<1>1. UsersInit => UsersInv
  <2> SUFFICES ASSUME UsersInit PROVE UsersInv
    OBVIOUS
  <2>1. UsersTypeOK
    <3>1. 0 \in Secrets /\ 0 \in Links
      BY UserBoundsAssumption DEF Secrets, Links
    <3>2. NoRequest \in RequestRecord
      BY <3>1 DEF NoRequest, RequestRecord, Steps
    <3>3. account \in UserRow
      BY <3>1 DEF UsersInit, UserRow
    <3>4. request \in [Requests -> RequestRecord]
      BY <3>2 DEF UsersInit
    <3>5. consumed \in [Links -> 0..2]
      BY DEF UsersInit
    <3> QED BY <3>1, <3>3, <3>4, <3>5 DEF UsersInit, UsersTypeOK
  <2> QED
    BY <2>1, UserBoundsAssumption
       DEF UsersInit, UsersInv, LinksFresh, ResetLinkUsedOnce, SetUpAsRead,
           SecondFactorUsable, NoRequest, Links
<1>2. ASSUME UsersInv, [UsersNext]_userVars
      PROVE  UsersInv'
  <2> USE <1>2 DEF UsersInv
  <2>1. ASSUME NEW q \in Requests, StartLogin(q)
        PROVE  UsersInv'
    <3>1. UNCHANGED <<account, phone, made, issued, consumed, crossed>>
      BY <2>1 DEF StartLogin, Kept, KeptFactor
    <3>2. NoRequest \in RequestRecord
      BY ReadsFit
    <3>3. \/ request' = [request EXCEPT ![q] = NoRequest]
          \/ \E step \in Steps \ {"generate", "enable", "scan", "reset"} :
               Goes(q, step, NoRequest)
      BY <2>1 DEF StartLogin, Steps, Opens, Ends
    <3>4. /\ request' \in [Requests -> RequestRecord]
          /\ SetUpAsRead'
          /\ \A p \in Requests : request'[p].step = "reset" =>
               request'[p].link # 0 /\ request'[p].link <= issued'
      BY <3>1, <3>2, <3>3, RequestsKeep
    <3> QED
      BY <3>1, <3>4 DEF UsersTypeOK, LinksFresh, ResetLinkUsedOnce,
                        SecondFactorUsable, HasCode
  <2>2. ASSUME NEW q \in Requests, LoginAsksCode(q)
        PROVE  UsersInv'
    <3>1. UNCHANGED <<account, phone, made, issued, consumed, crossed>>
      BY <2>2 DEF LoginAsksCode, Kept, KeptFactor
    <3>2. NoRequest \in RequestRecord
      BY ReadsFit
    <3>3. \/ request' = [request EXCEPT ![q] = NoRequest]
          \/ \E step \in Steps \ {"generate", "enable", "scan", "reset"} :
               Goes(q, step, NoRequest)
      BY <2>2 DEF LoginAsksCode, Steps, Opens, Ends
    <3>4. /\ request' \in [Requests -> RequestRecord]
          /\ SetUpAsRead'
          /\ \A p \in Requests : request'[p].step = "reset" =>
               request'[p].link # 0 /\ request'[p].link <= issued'
      BY <3>1, <3>2, <3>3, RequestsKeep
    <3> QED
      BY <3>1, <3>4 DEF UsersTypeOK, LinksFresh, ResetLinkUsedOnce,
                        SecondFactorUsable, HasCode
  <2>3. ASSUME NEW q \in Requests, VerifyTwoFactorLogin(q)
        PROVE  UsersInv'
    <3>1. UNCHANGED <<account, phone, made, issued, consumed, crossed>>
      BY <2>3 DEF VerifyTwoFactorLogin, Kept, KeptFactor
    <3>2. NoRequest \in RequestRecord
      BY ReadsFit
    <3>3. \/ request' = [request EXCEPT ![q] = NoRequest]
          \/ \E step \in Steps \ {"generate", "enable", "scan", "reset"} :
               Goes(q, step, NoRequest)
      BY <2>3 DEF VerifyTwoFactorLogin, Steps, Opens, Ends
    <3>4. /\ request' \in [Requests -> RequestRecord]
          /\ SetUpAsRead'
          /\ \A p \in Requests : request'[p].step = "reset" =>
               request'[p].link # 0 /\ request'[p].link <= issued'
      BY <3>1, <3>2, <3>3, RequestsKeep
    <3> QED
      BY <3>1, <3>4 DEF UsersTypeOK, LinksFresh, ResetLinkUsedOnce,
                        SecondFactorUsable, HasCode
  <2>4. ASSUME NEW q \in Requests, TempTokenExpires(q)
        PROVE  UsersInv'
    <3>1. UNCHANGED <<account, phone, made, issued, consumed, crossed>>
      BY <2>4 DEF TempTokenExpires, Kept, KeptFactor
    <3>2. NoRequest \in RequestRecord
      BY ReadsFit
    <3>3. \/ request' = [request EXCEPT ![q] = NoRequest]
          \/ \E step \in Steps \ {"generate", "enable", "scan", "reset"} :
               Goes(q, step, NoRequest)
      BY <2>4 DEF TempTokenExpires, Steps, Opens, Ends
    <3>4. /\ request' \in [Requests -> RequestRecord]
          /\ SetUpAsRead'
          /\ \A p \in Requests : request'[p].step = "reset" =>
               request'[p].link # 0 /\ request'[p].link <= issued'
      BY <3>1, <3>2, <3>3, RequestsKeep
    <3> QED
      BY <3>1, <3>4 DEF UsersTypeOK, LinksFresh, ResetLinkUsedOnce,
                        SecondFactorUsable, HasCode
  <2>5. ASSUME NEW q \in Requests, StartDisable(q)
        PROVE  UsersInv'
    <3>1. UNCHANGED <<account, phone, made, issued, consumed, crossed>>
      BY <2>5 DEF StartDisable, Kept, KeptFactor
    <3>2. NoRequest \in RequestRecord
      BY ReadsFit
    <3>3. \/ request' = [request EXCEPT ![q] = NoRequest]
          \/ \E step \in Steps \ {"generate", "enable", "scan", "reset"} :
               Goes(q, step, NoRequest)
      BY <2>5 DEF StartDisable, Steps, Opens, Ends
    <3>4. /\ request' \in [Requests -> RequestRecord]
          /\ SetUpAsRead'
          /\ \A p \in Requests : request'[p].step = "reset" =>
               request'[p].link # 0 /\ request'[p].link <= issued'
      BY <3>1, <3>2, <3>3, RequestsKeep
    <3> QED
      BY <3>1, <3>4 DEF UsersTypeOK, LinksFresh, ResetLinkUsedOnce,
                        SecondFactorUsable, HasCode
  <2>6. ASSUME NEW q \in Requests, LinkIsGone(q)
        PROVE  UsersInv'
    <3>1. UNCHANGED <<account, phone, made, issued, consumed, crossed>>
      BY <2>6 DEF LinkIsGone, Kept, KeptFactor
    <3>2. NoRequest \in RequestRecord
      BY ReadsFit
    <3>3. \/ request' = [request EXCEPT ![q] = NoRequest]
          \/ \E step \in Steps \ {"generate", "enable", "scan", "reset"} :
               Goes(q, step, NoRequest)
      BY <2>6 DEF LinkIsGone, Steps, Opens, Ends
    <3>4. /\ request' \in [Requests -> RequestRecord]
          /\ SetUpAsRead'
          /\ \A p \in Requests : request'[p].step = "reset" =>
               request'[p].link # 0 /\ request'[p].link <= issued'
      BY <3>1, <3>2, <3>3, RequestsKeep
    <3> QED
      BY <3>1, <3>4 DEF UsersTypeOK, LinksFresh, ResetLinkUsedOnce,
                        SecondFactorUsable, HasCode
  <2>7. ASSUME NEW q \in Requests, UpdateMyPassword(q)
        PROVE  UsersInv'
    <3>1. UNCHANGED <<account, phone, made, issued, consumed, crossed>>
      BY <2>7 DEF UpdateMyPassword, Kept, KeptFactor
    <3>2. NoRequest \in RequestRecord
      BY ReadsFit
    <3>3. \/ request' = [request EXCEPT ![q] = NoRequest]
          \/ \E step \in Steps \ {"generate", "enable", "scan", "reset"} :
               Goes(q, step, NoRequest)
      BY <2>7 DEF UpdateMyPassword, Steps, Opens, Ends
    <3>4. /\ request' \in [Requests -> RequestRecord]
          /\ SetUpAsRead'
          /\ \A p \in Requests : request'[p].step = "reset" =>
               request'[p].link # 0 /\ request'[p].link <= issued'
      BY <3>1, <3>2, <3>3, RequestsKeep
    <3> QED
      BY <3>1, <3>4 DEF UsersTypeOK, LinksFresh, ResetLinkUsedOnce,
                        SecondFactorUsable, HasCode
  <2>8. ASSUME NEW q \in Requests, UpdatePassword(q)
        PROVE  UsersInv'
    <3>1. UNCHANGED <<account, phone, made, issued, consumed, crossed>>
      BY <2>8 DEF UpdatePassword, Kept, KeptFactor
    <3>2. NoRequest \in RequestRecord
      BY ReadsFit
    <3>3. \/ request' = [request EXCEPT ![q] = NoRequest]
          \/ \E step \in Steps \ {"generate", "enable", "scan", "reset"} :
               Goes(q, step, NoRequest)
      BY <2>8 DEF UpdatePassword, Steps, Opens, Ends
    <3>4. /\ request' \in [Requests -> RequestRecord]
          /\ SetUpAsRead'
          /\ \A p \in Requests : request'[p].step = "reset" =>
               request'[p].link # 0 /\ request'[p].link <= issued'
      BY <3>1, <3>2, <3>3, RequestsKeep
    <3> QED
      BY <3>1, <3>4 DEF UsersTypeOK, LinksFresh, ResetLinkUsedOnce,
                        SecondFactorUsable, HasCode
  <2>9. ASSUME NEW q \in Requests, FindForPassword(q)
        PROVE  UsersInv'
    <3>1. UNCHANGED <<account, phone, made, issued, consumed, crossed>>
      BY <2>9 DEF FindForPassword, Kept, KeptFactor
    <3>2. Entity \in RequestRecord
      BY ReadsFit
    <3>3. \/ request' = [request EXCEPT ![q] = NoRequest]
          \/ \E step \in Steps \ {"generate", "enable", "scan", "reset"} :
               Goes(q, step, Entity)
      BY <2>9 DEF FindForPassword, Steps, Opens, Ends
    <3>4. /\ request' \in [Requests -> RequestRecord]
          /\ SetUpAsRead'
          /\ \A p \in Requests : request'[p].step = "reset" =>
               request'[p].link # 0 /\ request'[p].link <= issued'
      BY <3>1, <3>2, <3>3, RequestsKeep
    <3> QED
      BY <3>1, <3>4 DEF UsersTypeOK, LinksFresh, ResetLinkUsedOnce,
                        SecondFactorUsable, HasCode
  <2>10. ASSUME NEW q \in Requests, UpdateMyProfile(q)
        PROVE  UsersInv'
    <3>1. UNCHANGED <<account, phone, made, issued, consumed, crossed>>
      BY <2>10 DEF UpdateMyProfile, Kept, KeptFactor
    <3>2. NoRequest \in RequestRecord
      BY ReadsFit
    <3>3. \/ request' = [request EXCEPT ![q] = NoRequest]
          \/ \E step \in Steps \ {"generate", "enable", "scan", "reset"} :
               Goes(q, step, NoRequest)
      BY <2>10 DEF UpdateMyProfile, Steps, Opens, Ends
    <3>4. /\ request' \in [Requests -> RequestRecord]
          /\ SetUpAsRead'
          /\ \A p \in Requests : request'[p].step = "reset" =>
               request'[p].link # 0 /\ request'[p].link <= issued'
      BY <3>1, <3>2, <3>3, RequestsKeep
    <3> QED
      BY <3>1, <3>4 DEF UsersTypeOK, LinksFresh, ResetLinkUsedOnce,
                        SecondFactorUsable, HasCode
  <2>11. ASSUME NEW q \in Requests, UpdateUser(q)
        PROVE  UsersInv'
    <3>1. UNCHANGED <<account, phone, made, issued, consumed, crossed>>
      BY <2>11 DEF UpdateUser, Kept, KeptFactor
    <3>2. NoRequest \in RequestRecord
      BY ReadsFit
    <3>3. \/ request' = [request EXCEPT ![q] = NoRequest]
          \/ \E step \in Steps \ {"generate", "enable", "scan", "reset"} :
               Goes(q, step, NoRequest)
      BY <2>11 DEF UpdateUser, Steps, Opens, Ends
    <3>4. /\ request' \in [Requests -> RequestRecord]
          /\ SetUpAsRead'
          /\ \A p \in Requests : request'[p].step = "reset" =>
               request'[p].link # 0 /\ request'[p].link <= issued'
      BY <3>1, <3>2, <3>3, RequestsKeep
    <3> QED
      BY <3>1, <3>4 DEF UsersTypeOK, LinksFresh, ResetLinkUsedOnce,
                        SecondFactorUsable, HasCode
  <2>12. ASSUME NEW q \in Requests, FindForProfile(q)
        PROVE  UsersInv'
    <3>1. UNCHANGED <<account, phone, made, issued, consumed, crossed>>
      BY <2>12 DEF FindForProfile, Kept, KeptFactor
    <3>2. Entity \in RequestRecord
      BY ReadsFit
    <3>3. \/ request' = [request EXCEPT ![q] = NoRequest]
          \/ \E step \in Steps \ {"generate", "enable", "scan", "reset"} :
               Goes(q, step, Entity)
      BY <2>12 DEF FindForProfile, Steps, Opens, Ends
    <3>4. /\ request' \in [Requests -> RequestRecord]
          /\ SetUpAsRead'
          /\ \A p \in Requests : request'[p].step = "reset" =>
               request'[p].link # 0 /\ request'[p].link <= issued'
      BY <3>1, <3>2, <3>3, RequestsKeep
    <3> QED
      BY <3>1, <3>4 DEF UsersTypeOK, LinksFresh, ResetLinkUsedOnce,
                        SecondFactorUsable, HasCode
  <2>13. ASSUME NEW q \in Requests, EndLogin(q)
        PROVE  UsersInv'
    <3>1. /\ request' \in [Requests -> RequestRecord]
          /\ SetUpAsRead'
          /\ \A p \in Requests : request'[p].step = "reset" =>
               request'[p].link # 0 /\ request'[p].link <= issued'
      <4>1. NoRequest \in RequestRecord
        BY ReadsFit
      <4> QED BY <2>13, <4>1, RequestsKeep
                 DEF EndLogin, Ends, Kept, KeptFactor, Steps
    <3>2. /\ account' \in UserRow
          /\ account'.link = account.link
          /\ account'.twoFactor = account.twoFactor
          /\ account'.secret = account.secret
          /\ UNCHANGED <<phone, made, issued, consumed, crossed>>
      BY <2>13, AccountStays
         DEF EndLogin, Sets, Kept, KeptFactor, UsersTypeOK, UserRow
    <3> QED
      BY <3>1, <3>2 DEF UsersTypeOK, LinksFresh, ResetLinkUsedOnce,
                        SecondFactorUsable, HasCode
  <2>14. ASSUME Logout
        PROVE  UsersInv'
    <3>1. /\ request' \in [Requests -> RequestRecord]
          /\ SetUpAsRead'
          /\ \A p \in Requests : request'[p].step = "reset" =>
               request'[p].link # 0 /\ request'[p].link <= issued'
      BY <2>14
         DEF Logout, Kept, KeptFactor, UsersTypeOK, SetUpAsRead, LinksFresh
    <3>2. /\ account' \in UserRow
          /\ account'.link = account.link
          /\ account'.twoFactor = account.twoFactor
          /\ account'.secret = account.secret
          /\ UNCHANGED <<phone, made, issued, consumed, crossed>>
      <4>1. account' \in UserRow
        BY <2>14, AccountStays DEF Logout, Sets
      <4> QED BY <2>14, <4>1
                 DEF Logout, Sets, Kept, KeptFactor, UsersTypeOK, UserRow
    <3> QED
      BY <3>1, <3>2 DEF UsersTypeOK, LinksFresh, ResetLinkUsedOnce,
                        SecondFactorUsable, HasCode
  <2>15. ASSUME RemoveUser
        PROVE  UsersInv'
    <3>1. /\ request' \in [Requests -> RequestRecord]
          /\ SetUpAsRead'
          /\ \A p \in Requests : request'[p].step = "reset" =>
               request'[p].link # 0 /\ request'[p].link <= issued'
      BY <2>15
         DEF RemoveUser, Kept, KeptFactor, UsersTypeOK, SetUpAsRead,
             LinksFresh
    <3>2. /\ account' \in UserRow
          /\ account'.link = account.link
          /\ account'.twoFactor = account.twoFactor
          /\ account'.secret = account.secret
          /\ UNCHANGED <<phone, made, issued, consumed, crossed>>
      <4>1. account' \in UserRow
        BY <2>15, AccountStays DEF RemoveUser, Sets
      <4> QED BY <2>15, <4>1
                 DEF RemoveUser, Sets, Kept, KeptFactor, UsersTypeOK, UserRow
    <3> QED
      BY <3>1, <3>2 DEF UsersTypeOK, LinksFresh, ResetLinkUsedOnce,
                        SecondFactorUsable, HasCode
  <2>16. ASSUME LinkExpires
        PROVE  UsersInv'
    <3>1. /\ request' \in [Requests -> RequestRecord]
          /\ SetUpAsRead'
          /\ \A p \in Requests : request'[p].step = "reset" =>
               request'[p].link # 0 /\ request'[p].link <= issued'
      BY <2>16
         DEF LinkExpires, Kept, KeptFactor, UsersTypeOK, SetUpAsRead,
             LinksFresh
    <3>2. /\ account' \in UserRow
          /\ account'.link = account.link
          /\ account'.twoFactor = account.twoFactor
          /\ account'.secret = account.secret
          /\ UNCHANGED <<phone, made, issued, consumed, crossed>>
      <4>1. account' \in UserRow
        BY <2>16, AccountStays DEF LinkExpires, Sets
      <4> QED BY <2>16, <4>1
                 DEF LinkExpires, Sets, Kept, KeptFactor, UsersTypeOK, UserRow
    <3> QED
      BY <3>1, <3>2 DEF UsersTypeOK, LinksFresh, ResetLinkUsedOnce,
                        SecondFactorUsable, HasCode
  <2>17. ASSUME ResetTwoFactor
        PROVE  UsersInv'
    <3>1. /\ request' \in [Requests -> RequestRecord]
          /\ SetUpAsRead'
          /\ \A p \in Requests : request'[p].step = "reset" =>
               request'[p].link # 0 /\ request'[p].link <= issued'
      BY <2>17
         DEF ResetTwoFactor, Kept, KeptFactor, UsersTypeOK, SetUpAsRead,
             LinksFresh
    <3>2. /\ account' \in UserRow
          /\ account'.link = account.link
          /\ account'.twoFactor = FALSE
          /\ crossed' = FALSE
          /\ UNCHANGED <<phone, made, issued, consumed>>
      BY <2>17, AccountStays
         DEF ResetTwoFactor, Sets, Kept, WithoutFactor, UsersTypeOK, UserRow
    <3> QED
      BY <3>1, <3>2 DEF UsersTypeOK, LinksFresh, ResetLinkUsedOnce,
                        SecondFactorUsable, HasCode
  <2>18. ASSUME NEW q \in Requests, EndDisable(q)
        PROVE  UsersInv'
    <3>1. /\ request' \in [Requests -> RequestRecord]
          /\ SetUpAsRead'
          /\ \A p \in Requests : request'[p].step = "reset" =>
               request'[p].link # 0 /\ request'[p].link <= issued'
      <4>1. NoRequest \in RequestRecord
        BY ReadsFit
      <4> QED BY <2>18, <4>1, RequestsKeep
                 DEF EndDisable, Ends, Kept, KeptFactor, Steps
    <3>2. /\ account' \in UserRow
          /\ account'.link = account.link
          /\ account'.twoFactor = FALSE
          /\ crossed' = FALSE
          /\ UNCHANGED <<phone, made, issued, consumed>>
      BY <2>18, AccountStays
         DEF EndDisable, Sets, Kept, WithoutFactor, UsersTypeOK, UserRow
    <3> QED
      BY <3>1, <3>2 DEF UsersTypeOK, LinksFresh, ResetLinkUsedOnce,
                        SecondFactorUsable, HasCode
  <2>19. ASSUME NEW q \in Requests, SavePassword(q)
        PROVE  UsersInv'
    <3>1. /\ request' \in [Requests -> RequestRecord]
          /\ SetUpAsRead'
          /\ \A p \in Requests : request'[p].step = "reset" =>
               request'[p].link # 0 /\ request'[p].link <= issued'
      <4>1. NoRequest \in RequestRecord
        BY ReadsFit
      <4> QED BY <2>19, <4>1, RequestsKeep
                 DEF SavePassword, Ends, Kept, KeptFactor, Steps
    <3>2. /\ account' \in UserRow
          /\ account'.link = account.link
          /\ account'.twoFactor = request[q].twoFactor
          /\ account'.secret = account.secret
          /\ UNCHANGED <<phone, made, issued, consumed>>
      <4>1. account' \in UserRow
        BY <2>19, AccountStays DEF SavePassword, Sets
      <4> QED BY <2>19, <4>1
                 DEF SavePassword, Sets, Kept, Saves, UsersTypeOK, UserRow
    <3>3. /\ crossed' \in BOOLEAN
          /\ ~crossed' => ~crossed /\ request[q].twoFactor = account.twoFactor
      BY <2>19 DEF SavePassword, Crosses, Changed, UsersTypeOK
    <3> QED
      BY <3>1, <3>2, <3>3 DEF UsersTypeOK, LinksFresh, ResetLinkUsedOnce,
                        SecondFactorUsable, HasCode
  <2>20. ASSUME NEW q \in Requests, SaveProfile(q)
        PROVE  UsersInv'
    <3>1. /\ request' \in [Requests -> RequestRecord]
          /\ SetUpAsRead'
          /\ \A p \in Requests : request'[p].step = "reset" =>
               request'[p].link # 0 /\ request'[p].link <= issued'
      <4>1. NoRequest \in RequestRecord
        BY ReadsFit
      <4> QED BY <2>20, <4>1, RequestsKeep
                 DEF SaveProfile, Ends, Kept, KeptFactor, Steps
    <3>2. /\ account' \in UserRow
          /\ account'.link = account.link
          /\ account'.twoFactor = request[q].twoFactor
          /\ account'.secret = account.secret
          /\ UNCHANGED <<phone, made, issued, consumed>>
      <4>1. account' \in UserRow
        BY <2>20, AccountStays DEF SaveProfile, Sets
      <4> QED BY <2>20, <4>1
                 DEF SaveProfile, Sets, Kept, Saves, UsersTypeOK, UserRow
    <3>3. /\ crossed' \in BOOLEAN
          /\ ~crossed' => ~crossed /\ request[q].twoFactor = account.twoFactor
      BY <2>20 DEF SaveProfile, Crosses, Changed, UsersTypeOK
    <3> QED
      BY <3>1, <3>2, <3>3 DEF UsersTypeOK, LinksFresh, ResetLinkUsedOnce,
                        SecondFactorUsable, HasCode
  <2>21. ASSUME NEW q \in Requests, EndEnable(q)
        PROVE  UsersInv'
    <3>1. /\ request' \in [Requests -> RequestRecord]
          /\ SetUpAsRead'
          /\ \A p \in Requests : request'[p].step = "reset" =>
               request'[p].link # 0 /\ request'[p].link <= issued'
      <4>1. NoRequest \in RequestRecord
        BY ReadsFit
      <4> QED BY <2>21, <4>1, RequestsKeep
                 DEF EndEnable, Ends, Kept, KeptFactor, Steps
    <3>2. /\ account' \in UserRow
          /\ account'.link = account.link
          /\ account'.secret = account.secret
          /\ UNCHANGED <<phone, made, issued, consumed>>
      BY <2>21, AccountStays DEF EndEnable, Sets, Kept, UsersTypeOK, UserRow
    <3>3. /\ crossed' \in BOOLEAN
          /\ ~crossed' => account.secret \in phone \ {0}
      BY <2>21 DEF EndEnable, Ends, Crosses, Changed, UsersTypeOK, SetUpAsRead
    <3> QED
      BY <3>1, <3>2, <3>3 DEF UsersTypeOK, LinksFresh, ResetLinkUsedOnce,
                        SecondFactorUsable, HasCode
  <2>22. ASSUME NEW q \in Requests, StartGenerate(q)
        PROVE  UsersInv'
    <3>1. UNCHANGED <<account, phone, made, issued, consumed, crossed>>
      BY <2>22 DEF StartGenerate, Kept, KeptFactor
    <3>2. [Factor EXCEPT !.step = "generate"] \in RequestRecord
      BY ReadsFit DEF Steps
    <3>3. ~[Factor EXCEPT !.step = "generate"].twoFactor
      BY <2>22 DEF StartGenerate, MayGenerate, Factor, NoRequest
    <3>4. request' = [request EXCEPT ![q] = [Factor EXCEPT !.step = "generate"]]
      BY <2>22 DEF StartGenerate, Opens, Goes
    <3>5. [Factor EXCEPT !.step = "generate"].step = "generate"
      BY DEF Factor, NoRequest
    <3>6. request' \in [Requests -> RequestRecord]
      BY <3>2, <3>4 DEF UsersTypeOK
    <3>7. SetUpAsRead'
      BY <3>1, <3>3, <3>4, <3>5 DEF UsersTypeOK, SetUpAsRead
    <3>8. LinksFresh'
      BY <3>1, <3>4, <3>5 DEF UsersTypeOK, LinksFresh
    <3> QED
      BY <3>1, <3>6, <3>7, <3>8 DEF UsersTypeOK, ResetLinkUsedOnce,
                                    SecondFactorUsable, HasCode
  <2>23. ASSUME NEW q \in Requests, StartEnable(q)
        PROVE  UsersInv'
    <3>1. UNCHANGED <<account, phone, made, issued, consumed, crossed>>
      BY <2>23 DEF StartEnable, Kept, KeptFactor
    <3>2. [Factor EXCEPT !.step = "enable"] \in RequestRecord
      BY ReadsFit DEF Steps
    <3>3. [Factor EXCEPT !.step = "enable"].secret \in phone \ {0}
      BY <2>23 DEF StartEnable, HasCode, Factor, NoRequest
    <3>4. request' = [request EXCEPT ![q] = [Factor EXCEPT !.step = "enable"]]
      BY <2>23 DEF StartEnable, Opens, Goes
    <3>5. [Factor EXCEPT !.step = "enable"].step = "enable"
      BY DEF Factor, NoRequest
    <3>6. request' \in [Requests -> RequestRecord]
      BY <3>2, <3>4 DEF UsersTypeOK
    <3>7. SetUpAsRead'
      BY <3>1, <3>3, <3>4, <3>5 DEF UsersTypeOK, SetUpAsRead
    <3>8. LinksFresh'
      BY <3>1, <3>4, <3>5 DEF UsersTypeOK, LinksFresh
    <3> QED
      BY <3>1, <3>6, <3>7, <3>8 DEF UsersTypeOK, ResetLinkUsedOnce,
                                    SecondFactorUsable, HasCode
  <2>24. ASSUME NEW q \in Requests, ValidateLink(q)
        PROVE  UsersInv'
    <3>1. UNCHANGED <<account, phone, made, issued, consumed, crossed>>
      BY <2>24 DEF ValidateLink, Kept, KeptFactor
    <3>2. [Link EXCEPT !.step = "reset"] \in RequestRecord
      BY ReadsFit DEF Steps
    <3>3. /\ [Link EXCEPT !.step = "reset"].link # 0
          /\ [Link EXCEPT !.step = "reset"].link <= issued
      BY <2>24 DEF ValidateLink, LinksFresh, Link, NoRequest
    <3>4. request' = [request EXCEPT ![q] = [Link EXCEPT !.step = "reset"]]
      BY <2>24 DEF ValidateLink, Opens, Goes
    <3>5. [Link EXCEPT !.step = "reset"].step = "reset"
      BY DEF Link, NoRequest
    <3>6. request' \in [Requests -> RequestRecord]
      BY <3>2, <3>4 DEF UsersTypeOK
    <3>7. SetUpAsRead'
      BY <3>1, <3>4, <3>5 DEF UsersTypeOK, SetUpAsRead
    <3>8. LinksFresh'
      BY <3>1, <3>3, <3>4 DEF UsersTypeOK, LinksFresh
    <3> QED
      BY <3>1, <3>6, <3>7, <3>8 DEF UsersTypeOK, ResetLinkUsedOnce,
                                    SecondFactorUsable, HasCode
  <2>25. ASSUME NEW q \in Requests, Scan(q)
        PROVE  UsersInv'
    <3>1. /\ request' \in [Requests -> RequestRecord]
          /\ SetUpAsRead'
          /\ \A p \in Requests : request'[p].step = "reset" =>
               request'[p].link # 0 /\ request'[p].link <= issued'
      <4>1. NoRequest \in RequestRecord
        BY ReadsFit
      <4> QED BY <2>25, <4>1, RequestsKeep DEF Scan, Ends, Kept, Steps
    <3>2. phone' \subseteq Secrets \ {0}
      BY <2>25 DEF Scan, Ends, UsersTypeOK, SetUpAsRead, RequestRecord
    <3>3. /\ UNCHANGED <<account, made, issued, consumed, crossed>>
          /\ phone \subseteq phone'
      BY <2>25 DEF Scan, Kept
    <3> QED
      BY <3>1, <3>2, <3>3 DEF UsersTypeOK, LinksFresh, ResetLinkUsedOnce,
                        SecondFactorUsable, HasCode
  <2>26. ASSUME NEW q \in Requests, EndGenerate(q)
        PROVE  UsersInv'
    <3> DEFINE secret == made + 1
    <3>1. secret \in Secrets \ {0} /\ made' = secret
      BY <2>26, UserBoundsAssumption DEF EndGenerate, UsersTypeOK, Secrets
    <3>2. /\ account' \in UserRow
          /\ account'.link = account.link
          /\ account'.twoFactor = account.twoFactor
          /\ UNCHANGED <<phone, issued, consumed>>
      BY <2>26, <3>1, AccountStays DEF EndGenerate, Sets, UsersTypeOK, UserRow
    <3>3. /\ crossed' \in BOOLEAN
          /\ ~crossed' => ~account.twoFactor
      BY <2>26 DEF EndGenerate, Crosses, Changed, UsersTypeOK, SetUpAsRead
    <3>4. /\ [[NoRequest EXCEPT !.secret = secret] EXCEPT !.step = "scan"]
               \in RequestRecord
          /\ [[NoRequest EXCEPT !.secret = secret] EXCEPT !.step = "scan"].secret # 0
          /\ [[NoRequest EXCEPT !.secret = secret] EXCEPT !.step = "scan"].step = "scan"
      BY <3>1, ReadsFit DEF Steps, NoRequest
    <3>5. request' = [request EXCEPT ![q] =
                        [[NoRequest EXCEPT !.secret = secret] EXCEPT !.step = "scan"]]
      BY <2>26, <3>1 DEF EndGenerate, Goes
    <3>6. request' \in [Requests -> RequestRecord]
      BY <3>4, <3>5 DEF UsersTypeOK
    <3>7. SetUpAsRead'
      BY <3>2, <3>4, <3>5 DEF UsersTypeOK, SetUpAsRead
    <3>8. LinksFresh'
      BY <3>2, <3>4, <3>5 DEF UsersTypeOK, LinksFresh
    <3> QED
      BY <3>1, <3>2, <3>3, <3>6, <3>7, <3>8
         DEF UsersTypeOK, ResetLinkUsedOnce, SecondFactorUsable
  <2>27. ASSUME ForgotPassword
        PROVE  UsersInv'
    <3>1. /\ UNCHANGED <<request, phone, made, consumed, crossed>>
          /\ issued' = issued + 1
          /\ issued' \in Links
      BY <2>27, UserBoundsAssumption
         DEF ForgotPassword, Kept, KeptFactor, UsersTypeOK, Links
    <3>2. /\ account' \in UserRow
          /\ account'.link = issued'
          /\ account'.twoFactor = account.twoFactor
          /\ account'.secret = account.secret
      <4>1. account' = [account EXCEPT !.link = issued', !.expired = FALSE]
        BY <2>27 DEF ForgotPassword, Sets
      <4>2. account' \in UserRow
        BY <3>1, <4>1, AccountStays
      <4> QED BY <4>1, <4>2 DEF UsersTypeOK, UserRow
    <3>3. LinksFresh'
      BY <3>1, <3>2, UserBoundsAssumption
         DEF UsersTypeOK, LinksFresh, Links, RequestRecord
    <3> QED
      BY <3>1, <3>2, <3>3 DEF UsersTypeOK, ResetLinkUsedOnce, SetUpAsRead,
                              SecondFactorUsable, HasCode
  <2>28. ASSUME NEW q \in Requests, ConsumeLink(q)
        PROVE  UsersInv'
    <3>1. /\ UNCHANGED <<phone, made, issued, crossed>>
          /\ account.link = request[q].link
          /\ account.link # 0
      BY <2>28 DEF ConsumeLink, Consumes, KeptFactor, LinksFresh
    <3>2. /\ account' \in UserRow
          /\ account'.link = 0
          /\ account'.twoFactor = account.twoFactor
          /\ account'.secret = account.secret
      <4>1. account' = [account EXCEPT !.link = 0, !.expired = FALSE,
                                       !.session = FALSE]
        BY <2>28 DEF ConsumeLink, Sets
      <4>2. 0 \in Links
        BY UserBoundsAssumption DEF Links
      <4>3. account' \in UserRow
        BY <4>1, <4>2, AccountStays
      <4> QED BY <4>1, <4>3 DEF UsersTypeOK, UserRow
    <3>3. /\ request' \in [Requests -> RequestRecord]
          /\ SetUpAsRead'
          /\ \A p \in Requests : request'[p].step = "reset" =>
               request'[p].link # 0 /\ request'[p].link <= issued'
      <4>1. NoRequest \in RequestRecord
        BY ReadsFit
      <4>2. Goes(q, "change", NoRequest)
        BY <2>28 DEF ConsumeLink
      <4> QED BY <3>1, <4>1, <4>2, RequestsKeep DEF Steps
    <3>4. /\ consumed' \in [Links -> 0..2]
          /\ \A l \in Links : consumed'[l] =
               IF l = account.link THEN 1 ELSE consumed[l]
      BY <2>28, <3>1 DEF ConsumeLink, UsersTypeOK, LinksFresh, UserRow
    <3>5. LinksFresh'
      BY <3>1, <3>2, <3>3, <3>4, UserBoundsAssumption
         DEF UsersTypeOK, LinksFresh, Links, UserRow
    <3> QED
      BY <3>1, <3>2, <3>3, <3>4, <3>5
         DEF UsersTypeOK, ResetLinkUsedOnce, SecondFactorUsable, HasCode
  <2>29. ASSUME UsersCrash
        PROVE  UsersInv'
    <3>1. /\ UNCHANGED <<account, phone, made, issued, consumed, crossed>>
          /\ \A q \in Requests :
               \/ request'[q] = NoRequest
               \/ request'[q] = request[q]
      BY <2>29 DEF UsersCrash, Kept, KeptFactor
    <3>2. request' \in [Requests -> RequestRecord]
      <4>1. NoRequest \in RequestRecord
        BY ReadsFit
      <4> QED BY <2>29, <4>1 DEF UsersCrash, UsersTypeOK
    <3>3. NoRequest.step = "none"
      BY DEF NoRequest
    <3>4. SetUpAsRead'
      BY <3>1, <3>3 DEF SetUpAsRead
    <3>5. LinksFresh'
      BY <3>1, <3>3 DEF LinksFresh
    <3> QED
      BY <3>1, <3>2, <3>4, <3>5
         DEF UsersTypeOK, ResetLinkUsedOnce, SecondFactorUsable, HasCode
  <2>30. CASE UNCHANGED userVars
    BY <2>30
       DEF userVars, UsersTypeOK, LinksFresh, ResetLinkUsedOnce, SetUpAsRead,
              SecondFactorUsable, HasCode
  <2> QED
    BY <2>1, <2>2, <2>3, <2>4, <2>5, <2>6, <2>7, <2>8, <2>9,
       <2>10, <2>11, <2>12, <2>13, <2>14, <2>15, <2>16, <2>17, <2>18,
       <2>19, <2>20, <2>21, <2>22, <2>23, <2>24, <2>25, <2>26, <2>27,
       <2>28, <2>29, <2>30 DEF UsersNext
<1> QED BY <1>1, <1>2, PTL DEF UsersSpec

\* However requests interleave, links are replaced and the process crashes, a
\* reset link is accepted at most once (resetPassword).
THEOREM LinksUsedOnce == UsersSpec => []ResetLinkUsedOnce
BY UsersInvariant, PTL DEF UsersInv

\* The second factor of a user is usable unless two writes of it crossed
\* (enableTwoFactor, generateTwoFactorSecret, changePassword).
THEOREM SecondFactorStaysUsable == UsersSpec => []SecondFactorUsable
BY UsersInvariant, PTL DEF UsersInv

-----------------------------------------------------------------------------
(* Customers.                                                              *)

\* The entities that sign-in and deletion make.
LEMMA EntitiesFit ==
  /\ NoEntity \in Entities
  /\ NoVisit \in VisitRecord
  /\ \A entity \in Entities :
       /\ [entity EXCEPT !.email = "own"] \in Entities
       /\ [entity EXCEPT !.email = "own"].state = entity.state
       /\ [entity EXCEPT !.identity = "apple"] \in Entities
       /\ [entity EXCEPT !.identity = "apple"].state = entity.state
       /\ \A p \in BOOLEAN : [entity EXCEPT !.personal = p] \in Entities
       /\ [entity EXCEPT !.state = "live"] \in Entities
       /\ [entity EXCEPT !.identity = "apple", !.email = "blank"] \in Entities
       /\ [entity EXCEPT !.email = "own", !.identity = "test",
                         !.password = TRUE, !.personal = TRUE] \in Entities
<1>1. NoEntity \in Entities
  BY DEF NoEntity, Entities
<1>2. NoVisit \in VisitRecord
  BY <1>1 DEF NoVisit, VisitRecord
<1> QED BY <1>1, <1>2 DEF Entities

\* Requests that only read keep the invariant, if they take up no account that
\* was deleted.
LEMMA VisitsKeep ==
  ASSUME CustomersInv, UNCHANGED <<customer, erased, outlived, late>>,
         NEW w \in Visits, NEW step, NEW a, NEW entity \in Entities,
         Moves(w, step, a, entity),
         \/ step \in {"save", "store", "end"} /\ a \in Accounts
         \/ step \in {"by_email", "create"} /\ a = Nobody,
         a \notin erased \ late
  PROVE  CustomersInv'
<1> USE DEF CustomersInv
<1>1. /\ visit' = [visit EXCEPT ![w] = [step |-> step, on |-> a, entity |-> entity]]
      /\ [step |-> step, on |-> a, entity |-> entity] \in VisitRecord
  BY DEF Moves, VisitRecord
<1>2. CustomersTypeOK'
  BY <1>1 DEF CustomersTypeOK
<1>3. HoldsAccount'
  BY <1>1 DEF CustomersTypeOK, HoldsAccount
<1>4. Forgotten'
  BY <1>1 DEF CustomersTypeOK, Forgotten
<1>5. DeletedAccountStaysEmpty'
  BY DEF DeletedAccountStaysEmpty
<1> QED BY <1>2, <1>3, <1>4, <1>5

\* A request that ends keeps it.
LEMMA VisitsEnd ==
  ASSUME CustomersInv, NEW w \in Visits, Leaves(w)
  PROVE  /\ visit' \in [Visits -> VisitRecord]
         /\ outlived' \subseteq Visits
         /\ HoldsAccount'
         /\ \A a \in Accounts : \A v \in Visits :
              visit'[v].on = a => v # w /\ visit[v].on = a
  BY EntitiesFit, NobodyAssumption
     DEF CustomersInv, CustomersTypeOK, Leaves, HoldsAccount, NoVisit

\* CustomersInv is inductive: one step of the proof per handler's step.
THEOREM CustomersInvariant == CustomersSpec => []CustomersInv
<1>1. CustomersInit => CustomersInv
  <2> SUFFICES ASSUME CustomersInit PROVE CustomersInv
    OBVIOUS
  <2>1. CustomersTypeOK
    <3>1. customer \in [Accounts -> CustomerRow]
      BY EntitiesFit DEF CustomersInit, CustomerRow
    <3> QED BY <3>1, EntitiesFit DEF CustomersInit, CustomersTypeOK
  <2>2. HoldsAccount
    <3>1. NoVisit.step = "none" /\ NoVisit.on = Nobody
      BY DEF NoVisit
    <3> QED BY <3>1 DEF CustomersInit, HoldsAccount
  <2> QED
    BY <2>1, <2>2 DEF CustomersInit, CustomersInv, Forgotten,
                      DeletedAccountStaysEmpty
<1>2. ASSUME CustomersInv, [CustomersNext]_customerVars
      PROVE  CustomersInv'
  <2> USE <1>2 DEF CustomersInv
  <2>0. /\ \A a \in ByEmail \cup ByApple : a \in Accounts /\ a \notin erased \ late
        /\ \A a \in Accounts : customer[a].entity \in Entities
        /\ Nobody \notin erased
    BY NobodyAssumption
       DEF ByEmail, ByApple, Has, DeletedAccountStaysEmpty, Forgotten,
           CustomersTypeOK, CustomerRow
  <2>1. ASSUME NEW w \in Visits, GoogleVerify(w)
        PROVE  CustomersInv'
    <3>1. UNCHANGED <<customer, erased, outlived, late>>
      BY <2>1 DEF GoogleVerify, Reading
    <3>2. CASE ByEmail = {}
      <4>1. Moves(w, "create", Nobody, [NoEntity EXCEPT !.email = "own"])
        BY <2>1, <3>2 DEF GoogleVerify
      <4> QED BY <2>0, <3>1, <4>1, EntitiesFit, VisitsKeep
    <3>3. CASE ByEmail # {}
      <4>1. PICK a \in ByEmail : Moves(w, "store", a, NoEntity)
        BY <2>1, <3>3 DEF GoogleVerify, Stores
      <4> QED BY <2>0, <3>1, <4>1, EntitiesFit, VisitsKeep
    <3> QED BY <3>2, <3>3
  <2>2. ASSUME NEW w \in Visits, NEW email \in BOOLEAN, AppleVerify(w, email)
        PROVE  CustomersInv'
    <3>1. UNCHANGED <<customer, erased, outlived, late>>
      BY <2>2 DEF AppleVerify, Reading
    <3>2. CASE ByApple # {}
      <4>1. PICK a \in ByApple :
              \/ Moves(w, "save", a, [customer[a].entity EXCEPT !.email = "own"])
              \/ Moves(w, "store", a, NoEntity)
        BY <2>2, <3>2 DEF AppleVerify, Stores
      <4>2. [customer[a].entity EXCEPT !.email = "own"] \in Entities
        BY <2>0, EntitiesFit
      <4>3. CASE Moves(w, "save", a, [customer[a].entity EXCEPT !.email = "own"])
        BY <2>0, <3>1, <4>2, <4>3, VisitsKeep
      <4>4. CASE Moves(w, "store", a, NoEntity)
        BY <2>0, <3>1, <4>4, EntitiesFit, VisitsKeep
      <4> QED BY <4>1, <4>3, <4>4
    <3>3. CASE ByApple = {}
      <4> DEFINE fresh == [NoEntity EXCEPT !.identity = "apple", !.email = "blank"]
      <4>1. \E step \in {"by_email", "create"} : Moves(w, step, Nobody, fresh)
        BY <2>2, <3>3 DEF AppleVerify
      <4>2. fresh \in Entities
        BY EntitiesFit
      <4> HIDE DEF fresh
      <4> QED BY <2>0, <3>1, <4>1, <4>2, VisitsKeep
    <3> QED BY <3>2, <3>3
  <2>3. ASSUME NEW w \in Visits, AppleByEmail(w)
        PROVE  CustomersInv'
    <3>1. UNCHANGED <<customer, erased, outlived, late>>
      BY <2>3 DEF AppleByEmail, Reading
    <3>2. CASE ByEmail = {}
      <4>1. Moves(w, "create", Nobody, [visit[w].entity EXCEPT !.email = "own"])
        BY <2>3, <3>2 DEF AppleByEmail
      <4>2. [visit[w].entity EXCEPT !.email = "own"] \in Entities
        BY EntitiesFit DEF CustomersTypeOK, VisitRecord
      <4> QED BY <2>0, <3>1, <4>1, <4>2, VisitsKeep
    <3>3. CASE ByEmail # {}
      <4>1. PICK a \in ByEmail :
              Moves(w, "save", a, [customer[a].entity EXCEPT !.identity = "apple"])
        BY <2>3, <3>3 DEF AppleByEmail
      <4>2. [customer[a].entity EXCEPT !.identity = "apple"] \in Entities
        BY <2>0, EntitiesFit
      <4> QED BY <2>0, <3>1, <4>1, <4>2, VisitsKeep
    <3> QED BY <3>2, <3>3
  <2>4. ASSUME NEW w \in Visits, RegisterWithPassword(w)
        PROVE  CustomersInv'
    <3> DEFINE row == [NoEntity EXCEPT !.email = "own", !.identity = "test",
                                       !.password = TRUE, !.personal = TRUE]
    <3>1. UNCHANGED <<customer, erased, outlived, late>>
      BY <2>4 DEF RegisterWithPassword, Reading
    <3>2. Moves(w, "create", Nobody, row)
      BY <2>4 DEF RegisterWithPassword
    <3>3. row \in Entities
      BY EntitiesFit
    <3> HIDE DEF row
    <3> QED BY <2>0, <3>1, <3>2, <3>3, VisitsKeep
  <2>5. ASSUME NEW w \in Visits, LoginCustomer(w)
        PROVE  CustomersInv'
    <3>1. UNCHANGED <<customer, erased, outlived, late>>
      BY <2>5 DEF LoginCustomer, Reading
    <3>2. PICK a \in ByEmail : Moves(w, "store", a, NoEntity)
      BY <2>5 DEF LoginCustomer, Stores
    <3> QED BY <2>0, <3>1, <3>2, EntitiesFit, VisitsKeep
  <2>6. ASSUME NEW w \in Visits, CreateCustomer(w)
        PROVE  CustomersInv'
    <3>1. CASE Leaves(w) /\ UNCHANGED <<customer, erased, late>>
      BY <3>1, VisitsEnd
         DEF CustomersTypeOK, Forgotten, DeletedAccountStaysEmpty, Leaves
    <3>2. ASSUME NEW a \in Accounts,
                 customer[a].entity.state = "none",
                 customer' = [customer EXCEPT ![a].entity =
                                [visit[w].entity EXCEPT !.state = "live"]],
                 Stores(w, a),
                 UNCHANGED <<outlived, erased, late>>
          PROVE  CustomersInv'
      <4>1. a \notin erased \ late
        BY <3>2 DEF DeletedAccountStaysEmpty
      <4>2. [visit[w].entity EXCEPT !.state = "live"] \in Entities
        BY EntitiesFit DEF CustomersTypeOK, VisitRecord
      <4>3. /\ customer' \in [Accounts -> CustomerRow]
            /\ \A b \in Accounts \ {a} : customer'[b] = customer[b]
        BY <3>2, <4>2 DEF CustomersTypeOK, CustomerRow
      <4>4. /\ visit' = [visit EXCEPT ![w] = [step |-> "store", on |-> a,
                                             entity |-> NoEntity]]
            /\ [step |-> "store", on |-> a, entity |-> NoEntity] \in VisitRecord
        BY <3>2, EntitiesFit DEF Stores, Moves, VisitRecord
      <4>5. CustomersTypeOK'
        BY <3>2, <4>3, <4>4 DEF CustomersTypeOK
      <4>6. HoldsAccount'
        BY <4>4 DEF CustomersTypeOK, HoldsAccount
      <4>7. Forgotten'
        BY <3>2, <4>1, <4>3, <4>4 DEF CustomersTypeOK, Forgotten
      <4>8. DeletedAccountStaysEmpty'
        BY <3>2, <4>1, <4>3 DEF CustomersTypeOK, DeletedAccountStaysEmpty
      <4> QED BY <4>5, <4>6, <4>7, <4>8
    <3> QED BY <2>6, <3>1, <3>2 DEF CreateCustomer
  <2>7. ASSUME NEW w \in Visits, StoreSession(w)
        PROVE  CustomersInv'
    <3> DEFINE a == visit[w].on
    <3>1. /\ a \in Accounts
          /\ customer' = [customer EXCEPT ![a].session = TRUE]
          /\ Leaves(w)
          /\ late' = IF w \in outlived THEN late \cup {a} ELSE late
          /\ erased' = erased
      BY <2>7 DEF StoreSession, Writes, HoldsAccount
    <3>2. a \notin erased \ late'
      BY <3>1 DEF Forgotten
    <3>3. /\ customer' \in [Accounts -> CustomerRow]
          /\ \A b \in Accounts \ {a} : customer'[b] = customer[b]
      BY <3>1 DEF CustomersTypeOK, CustomerRow
    <3>4. erased \ late' \subseteq (erased \ late) \ {a}
      BY <3>1, <3>2
    <3> HIDE DEF a
    <3>5. CustomersTypeOK'
      BY <3>1, <3>3, VisitsEnd DEF CustomersTypeOK
    <3>6. Forgotten'
      BY <3>1, <3>3, <3>4, VisitsEnd DEF CustomersTypeOK, Forgotten, Leaves
    <3>7. DeletedAccountStaysEmpty'
      BY <3>1, <3>3, <3>4 DEF CustomersTypeOK, DeletedAccountStaysEmpty
    <3> QED BY <3>1, <3>5, <3>6, <3>7, VisitsEnd
  <2>8. ASSUME NEW w \in Visits, NEW a \in Accounts, NEW personal \in BOOLEAN,
               UpdateCustomer(w, a, personal)
        PROVE  CustomersInv'
    <3> DEFINE entity == [customer[a].entity EXCEPT !.personal = @ \/ personal]
    <3>1. UNCHANGED <<customer, erased, outlived, late>>
      BY <2>8 DEF UpdateCustomer, Reading
    <3>2. Moves(w, "end", a, entity)
      BY <2>8 DEF UpdateCustomer
    <3>3. entity \in Entities
      BY <2>0 DEF Entities
    <3>4. a \notin erased \ late
      BY <2>8 DEF UpdateCustomer, InApp, DeletedAccountStaysEmpty
    <3> HIDE DEF entity
    <3> QED BY <3>1, <3>2, <3>3, <3>4, VisitsKeep
  <2>9. ASSUME NEW w \in Visits, SaveEntity(w)
        PROVE  CustomersInv'
    <3> DEFINE a == visit[w].on
               entity == visit[w].entity
    <3>1. CASE Leaves(w) /\ UNCHANGED <<customer, erased, late>>
      BY <3>1, VisitsEnd
         DEF CustomersTypeOK, Forgotten, DeletedAccountStaysEmpty, Leaves
    <3>2. ASSUME customer' = [customer EXCEPT ![a].entity = entity],
                 a \in Accounts,
                 late' = IF w \in outlived THEN late \cup {a} ELSE late,
                 erased' = erased,
                 (Stores(w, a) /\ UNCHANGED outlived) \/ Leaves(w)
          PROVE  CustomersInv'
      <4>1. a \notin erased \ late' /\ entity \in Entities
        BY <3>2 DEF Forgotten, CustomersTypeOK, VisitRecord
      <4>2. /\ customer' \in [Accounts -> CustomerRow]
            /\ \A b \in Accounts \ {a} : customer'[b] = customer[b]
        BY <3>2, <4>1 DEF CustomersTypeOK, CustomerRow
      <4>3. erased \ late' \subseteq (erased \ late) \ {a}
        BY <3>2, <4>1
      <4> HIDE DEF a, entity
      <4>4. DeletedAccountStaysEmpty'
        BY <3>2, <4>2, <4>3 DEF CustomersTypeOK, DeletedAccountStaysEmpty
      <4>5. late' \subseteq Accounts
        BY <3>2 DEF CustomersTypeOK
      <4>6. CASE Leaves(w)
        <5>1. Forgotten'
          BY <3>2, <4>2, <4>3, <4>6, VisitsEnd
             DEF CustomersTypeOK, Forgotten, Leaves
        <5> QED
          BY <3>2, <4>2, <4>4, <4>5, <4>6, <5>1, VisitsEnd DEF CustomersTypeOK
      <4>7. CASE Stores(w, a) /\ UNCHANGED outlived
        <5>1. /\ visit' = [visit EXCEPT ![w] = [step |-> "store", on |-> a,
                                               entity |-> NoEntity]]
              /\ [step |-> "store", on |-> a, entity |-> NoEntity] \in VisitRecord
          BY <3>2, <4>7, EntitiesFit DEF Stores, Moves, VisitRecord
        <5>2. CustomersTypeOK'
          BY <3>2, <4>2, <4>5, <4>7, <5>1 DEF CustomersTypeOK
        <5>3. HoldsAccount'
          BY <3>2, <5>1 DEF CustomersTypeOK, HoldsAccount
        <5>4. Forgotten'
          BY <3>2, <4>2, <4>3, <4>7, <5>1 DEF CustomersTypeOK, Forgotten
        <5> QED BY <4>4, <5>2, <5>3, <5>4
      <4> QED BY <3>2, <4>6, <4>7
    <3> QED BY <2>9, <3>1, <3>2 DEF SaveEntity, Writes, HoldsAccount
  <2>10. ASSUME NEW a \in Accounts, LogoutCustomer(a)
         PROVE  CustomersInv'
    <3>1. /\ customer' = [customer EXCEPT ![a].session = FALSE]
          /\ UNCHANGED <<visit, erased, outlived, late>>
      BY <2>10 DEF LogoutCustomer
    <3>2. /\ customer' \in [Accounts -> CustomerRow]
          /\ \A b \in Accounts :
               /\ customer'[b].entity = customer[b].entity
               /\ ~customer[b].session => ~customer'[b].session
      BY <3>1 DEF CustomersTypeOK, CustomerRow
    <3> QED
      BY <3>1, <3>2 DEF CustomersTypeOK, HoldsAccount, Forgotten,
                        DeletedAccountStaysEmpty
  <2>11. ASSUME NEW a \in Accounts, DeleteCustomer(a)
         PROVE  CustomersInv'
    <3>1. /\ Anonymous(a) \in Entities
          /\ Anonymous(a).state = "deleted"
          /\ Anonymous(a).email = "null"
          /\ Anonymous(a).identity = "deleted"
          /\ ~Anonymous(a).password /\ ~Anonymous(a).personal
      BY <2>0 DEF Anonymous, Entities
    <3>2. /\ customer' = [customer EXCEPT ![a] = [entity |-> Anonymous(a),
                                                 session |-> FALSE]]
          /\ erased' = erased \cup {a}
          /\ outlived' = outlived \cup {w \in Visits : visit[w].on = a}
          /\ late' = late \ {a}
          /\ visit' = visit
      BY <2>11 DEF DeleteCustomer
    <3>3. CustomersTypeOK'
      BY <3>1, <3>2 DEF CustomersTypeOK, CustomerRow
    <3>4. /\ customer'[a].entity = Anonymous(a) /\ ~customer'[a].session
          /\ \A b \in Accounts \ {a} : customer'[b] = customer[b]
      BY <3>2 DEF CustomersTypeOK
    <3>5. HoldsAccount'
      BY <3>2 DEF HoldsAccount
    <3>6. Forgotten'
      BY <3>1, <3>2, <3>4 DEF CustomersTypeOK, Forgotten
    <3>7. DeletedAccountStaysEmpty'
      BY <3>1, <3>2, <3>4 DEF CustomersTypeOK, DeletedAccountStaysEmpty
    <3> QED BY <3>3, <3>5, <3>6, <3>7
  <2>12. ASSUME CustomersCrash
         PROVE  CustomersInv'
    <3>1. /\ visit' = [w \in Visits |-> NoVisit]
          /\ outlived' = {}
          /\ UNCHANGED <<customer, erased, late>>
      BY <2>12 DEF CustomersCrash
    <3>2. NoVisit.step = "none" /\ NoVisit.on = Nobody /\ NoVisit \in VisitRecord
      BY EntitiesFit DEF NoVisit
    <3> QED
      BY <3>1, <3>2, NobodyAssumption
         DEF CustomersTypeOK, HoldsAccount, Forgotten, DeletedAccountStaysEmpty
  <2>13. CASE UNCHANGED customerVars
    BY <2>13 DEF customerVars, CustomersTypeOK, HoldsAccount, Forgotten,
                 DeletedAccountStaysEmpty
  <2> QED
    BY <2>1, <2>2, <2>3, <2>4, <2>5, <2>6, <2>7, <2>8, <2>9, <2>10, <2>11,
       <2>12, <2>13 DEF CustomersNext
<1> QED BY <1>1, <1>2, PTL DEF CustomersSpec

\* What a deletion emptied stays empty, unless a request that held the account
\* before wrote to it afterwards (remove, save() of the entity, the session).
THEOREM DeletedAccountsEmpty == CustomersSpec => []DeletedAccountStaysEmpty
BY CustomersInvariant, PTL DEF CustomersInv

-----------------------------------------------------------------------------
(* Reservations of a buyer.                                                *)

\* Rows and records that requests save.
LEMMA PenaltiesFit ==
  ASSUME LimitTypeOK
  PROVE  /\ NoPenalty \in PenaltyRow
         /\ NoSlot \in SlotRecord
         /\ Created \in PenaltyRow
         /\ [NoPenalty EXCEPT !.made = TRUE] \in PenaltyRow
         /\ [penalty EXCEPT !.count = 0, !.block = "none"] \in PenaltyRow
         /\ [penalty EXCEPT !.window = "over"] \in PenaltyRow
         /\ [penalty EXCEPT !.block = "over"] \in PenaltyRow
<1>1. 0 \in Counts
  BY LimitAssumption DEF Counts
<1>2. NoPenalty \in PenaltyRow
  BY <1>1 DEF NoPenalty, PenaltyRow
<1>3. NoSlot \in SlotRecord
  BY <1>2 DEF NoSlot, SlotRecord
<1>4. Created \in PenaltyRow
  BY <1>1 DEF Created, PenaltyRow, LimitTypeOK
<1> QED
  BY <1>1, <1>2, <1>3, <1>4 DEF LimitTypeOK, PenaltyRow, NoPenalty

\* A count goes up by one until it is past the limit.
LEMMA OneMoreCounts ==
  ASSUME NEW n \in Counts
  PROVE  /\ OneMore(n) \in Counts
         /\ OneMore(n) > 0
         /\ n <= MAX_FAILED => OneMore(n) = n + 1
         /\ n > MAX_FAILED => OneMore(n) = n
BY LimitAssumption DEF Counts, OneMore

\* A failure is counted, in its window, and blocks at the limit.
LEMMA FailureCounts ==
  ASSUME NEW row \in PenaltyRow
  PROVE  /\ Failure(row) \in PenaltyRow
         /\ Failure(row).made
         /\ ~StartsOver(Failure(row))
         /\ Failure(row).count = IF StartsOver(row) THEN 1 ELSE OneMore(row.count)
         /\ Failure(row).count >= MAX_FAILED => Failure(row).block = "running"
<1> DEFINE count == IF StartsOver(row) THEN 1 ELSE OneMore(row.count)
<1>1. count \in Counts
  BY OneMoreCounts, LimitAssumption DEF PenaltyRow, Counts
<1>2. Failure(row) =
        [made |-> TRUE, count |-> count,
         window |-> IF StartsOver(row) THEN "open" ELSE row.window,
         block |-> IF count >= MAX_FAILED THEN "running"
                   ELSE IF StartsOver(row) THEN "none" ELSE row.block]
  BY DEF Failure
<1> HIDE DEF count
<1>3. Failure(row) \in PenaltyRow
  BY <1>1, <1>2 DEF PenaltyRow
<1>4. ~StartsOver(Failure(row))
  BY <1>2 DEF StartsOver, PenaltyRow
<1>5. Failure(row).count = count
  BY <1>2
<1> QED BY <1>2, <1>3, <1>4, <1>5 DEF count

\* A buyer who is pardoned has no reservation counted, and what every request
\* is about to save counts its own.
LEMMA PardonsAgree ==
  ASSUME LimitInv, Pardons, RowsAgree', LimitTypeOK', active' <= active,
         \A s \in Slots : \/ slot'[s].stage # "saving"
                          \/ slot'[s] = slot[s]
  PROVE  CountsAgree' /\ ReservationsBounded' /\ OneActiveReservation'
<1>1. reserved' = 0 /\ penalty'.count >= 0
  BY DEF Pardons, LimitTypeOK, PenaltyRow, Counts
<1>2. \A s \in Slots : slot'[s].stage = "saving" =>
        slot'[s].save.count > 0
  BY DEF RowsAgree
<1>3. CountsAgree'
  BY <1>1, <1>2, LimitAssumption DEF CountsAgree
<1>4. ReservationsBounded'
  BY <1>1, LimitAssumption DEF ReservationsBounded
<1>5. OneActiveReservation'
  BY DEF LimitInv, LimitTypeOK, Pardons, OneActiveReservation
<1> QED BY <1>3, <1>4, <1>5

\* LimitInv is inductive: one step of the proof per handler's step.
THEOREM LimitInvariant == LimitSpec => []LimitInv
<1>1. LimitInit => LimitInv
  <2> SUFFICES ASSUME LimitInit PROVE LimitInv
    OBVIOUS
  <2>1. LimitTypeOK
    <3>1. 0 \in Counts
      BY LimitAssumption DEF Counts
    <3>2. NoPenalty \in PenaltyRow
      BY <3>1 DEF NoPenalty, PenaltyRow
    <3>3. NoSlot \in SlotRecord
      BY <3>2 DEF NoSlot, SlotRecord
    <3> QED BY <3>1, <3>2, <3>3 DEF LimitInit, LimitTypeOK
  <2>2. /\ penalty.count = 0 /\ NoSlot.stage = "none" /\ reserved = 0
        /\ \A s \in Slots : slot[s] = NoSlot
    BY DEF LimitInit, NoPenalty, NoSlot
  <2> QED
    BY <2>1, <2>2, LimitAssumption
       DEF LimitInit, LimitInv, RowsAgree, CountsAgree, ReservationsBounded,
           NoneBeside, OneActiveReservation
<1>2. ASSUME LimitInv, [LimitNext]_limitVars
      PROVE  LimitInv'
  <2> USE <1>2 DEF LimitInv
  <2>0. /\ penalty \in PenaltyRow
        /\ NoSlot.stage = "none"
        /\ reserved \in Nat /\ active \in Nat /\ penalty.count \in Nat
        /\ \A s \in Slots : slot[s].save.count \in Nat
    BY LimitAssumption DEF LimitTypeOK, NoSlot, PenaltyRow, SlotRecord, Counts
  <2>1. ASSUME NEW s \in Slots, IsPenaltyGuard(s)
        PROVE  LimitInv'
    <3>1. /\ UNCHANGED <<active, overdue, reserved, beside, overlapped>>
          /\ penalty' = Created
          /\ penalty.block # "running"
      BY <2>1 DEF IsPenaltyGuard
    <3>2. /\ slot' \in [Slots -> SlotRecord]
          /\ slot'[s].stage = "penalty_passed"
          /\ \A p \in Slots \ {s} : slot'[p] = slot[p]
      <4>1. slot' = [slot EXCEPT ![s] = [stage |-> "penalty_passed",
                                         save |-> NoPenalty]]
        BY <2>1 DEF IsPenaltyGuard, Step
      <4>2. [stage |-> "penalty_passed", save |-> NoPenalty] \in SlotRecord
        BY PenaltiesFit DEF SlotRecord
      <4> QED BY <4>1, <4>2 DEF LimitTypeOK
    <3>3. LimitTypeOK'
      BY <3>1, <3>2, PenaltiesFit DEF LimitTypeOK
    <3>4. /\ Created.made
          /\ penalty.made => Created = penalty
          /\ ~penalty.made => Created.count = 0 /\ StartsOver(penalty)
      BY DEF Created, RowsAgree, StartsOver, NoPenalty
    <3>5. RowsAgree'
      BY <3>1, <3>2, <3>4, LimitAssumption DEF RowsAgree
    <3>6. ~overlapped => reserved < MAX_FAILED
      <4>1. CASE StartsOver(penalty)
        BY <4>1, LimitAssumption DEF CountsAgree
      <4>2. CASE ~StartsOver(penalty)
        <5>1. penalty.count < MAX_FAILED
          BY <2>0, <3>1, <4>2, LimitAssumption
             DEF RowsAgree, StartsOver, PenaltyRow
        <5> QED BY <2>0, <5>1, LimitAssumption DEF CountsAgree
      <4> QED BY <4>1, <4>2
    <3>7. CountsAgree'
      <4>1. ~overlapped => reserved <= Created.count
        BY <2>0, <3>4 DEF CountsAgree
      <4>2. ~overlapped /\ StartsOver(Created) => reserved = 0
        BY <3>4 DEF CountsAgree
      <4> QED BY <3>1, <3>2, <3>6, <4>1, <4>2 DEF CountsAgree
    <3>8. NoneBeside'
      BY <3>1, <3>2 DEF NoneBeside
    <3> QED
      BY <3>1, <3>3, <3>5, <3>7, <3>8
         DEF ReservationsBounded, OneActiveReservation
  <2>2. ASSUME NEW s \in Slots, NoActiveReservationGuard(s)
        PROVE  LimitInv'
    <3>1. /\ UNCHANGED <<penalty, active, overdue, reserved, overlapped>>
          /\ slot[s].stage = "penalty_passed"
      BY <2>2 DEF NoActiveReservationGuard
    <3>2. CASE active = 0
      <4>1. UNCHANGED beside /\ Step(s, "guards_passed", NoPenalty)
        BY <2>2, <3>2 DEF NoActiveReservationGuard, NoneActive
      <4>2. /\ slot' \in [Slots -> SlotRecord]
            /\ slot'[s].stage = "guards_passed"
            /\ \A p \in Slots \ {s} : slot'[p] = slot[p]
        <5>1. [stage |-> "guards_passed", save |-> NoPenalty] \in SlotRecord
          BY PenaltiesFit DEF SlotRecord
        <5> QED BY <4>1, <5>1 DEF Step, LimitTypeOK
      <4> QED
        BY <3>1, <3>2, <4>1, <4>2
           DEF LimitTypeOK, RowsAgree, CountsAgree, NoneBeside,
               ReservationsBounded, OneActiveReservation
    <3>3. CASE active # 0
      <4>1. Closes(s)
        BY <2>2, <3>3 DEF NoActiveReservationGuard, NoneActive
      <4>2. /\ slot' \in [Slots -> SlotRecord]
            /\ slot'[s].stage = "none"
            /\ \A p \in Slots \ {s} : slot'[p] = slot[p]
            /\ beside' = beside \ {s}
        BY <2>0, <4>1, PenaltiesFit DEF Closes, LimitTypeOK
      <4> QED
        BY <3>1, <4>2
           DEF LimitTypeOK, RowsAgree, CountsAgree, NoneBeside,
               ReservationsBounded, OneActiveReservation
    <3> QED BY <3>2, <3>3
  <2>3. ASSUME NEW s \in Slots, RegisterFailure(s)
        PROVE  LimitInv'
    <3> DEFINE save == Failure(Created)
    <3>1. /\ UNCHANGED <<penalty, active, overdue, reserved, beside, overlapped>>
          /\ slot[s].stage = "guards_passed"
          /\ Step(s, "saving", save)
      BY <2>3 DEF RegisterFailure
    <3>2. /\ save \in PenaltyRow
          /\ save.made /\ ~StartsOver(save)
          /\ save.count >= MAX_FAILED => save.block = "running"
          /\ save.count = IF StartsOver(Created) THEN 1 ELSE OneMore(Created.count)
      BY PenaltiesFit, FailureCounts
    <3>3. /\ Created.count \in Counts
          /\ StartsOver(Created) \/ Created.made
          /\ penalty.made => Created = penalty
          /\ ~penalty.made => StartsOver(penalty)
      BY PenaltiesFit DEF Created, RowsAgree, StartsOver, NoPenalty, PenaltyRow
    <3>4. save.count > 0
      BY <3>2, <3>3, OneMoreCounts
    <3>5. s \notin beside /\ ~overlapped => reserved < save.count
      <4> SUFFICES ASSUME s \notin beside, ~overlapped PROVE reserved < save.count
        OBVIOUS
      <4>1. reserved < MAX_FAILED
        BY <3>1 DEF CountsAgree
      <4>2. CASE StartsOver(Created) \/ ~penalty.made
        BY <2>0, <3>2, <3>3, <3>4, <4>2 DEF CountsAgree
      <4>3. CASE ~StartsOver(Created) /\ penalty.made
        <5>1. save.count = OneMore(penalty.count) /\ reserved <= penalty.count
          BY <3>2, <3>3, <4>3 DEF CountsAgree
        <5> QED
          BY <2>0, <3>3, <4>1, <4>3, <5>1, OneMoreCounts, LimitAssumption
             DEF Counts
      <4> QED BY <4>2, <4>3
    <3> HIDE DEF save
    <3>6. /\ slot' \in [Slots -> SlotRecord]
          /\ slot'[s].stage = "saving" /\ slot'[s].save = save
          /\ \A p \in Slots \ {s} : slot'[p] = slot[p]
      <4>1. [stage |-> "saving", save |-> save] \in SlotRecord
        BY <3>2 DEF SlotRecord
      <4> QED BY <3>1, <4>1 DEF Step, LimitTypeOK
    <3>7. RowsAgree'
      BY <3>1, <3>2, <3>4, <3>6 DEF RowsAgree
    <3>8. CountsAgree'
      BY <3>1, <3>5, <3>6 DEF CountsAgree
    <3> QED
      BY <3>1, <3>6, <3>7, <3>8
         DEF LimitTypeOK, NoneBeside, ReservationsBounded, OneActiveReservation
  <2>4. ASSUME NEW s \in Slots, CommitReservation(s)
        PROVE  LimitInv'
    <3>1. /\ slot[s].stage = "saving"
          /\ penalty' = slot[s].save
          /\ active' = active + 1
          /\ reserved' = OneMore(reserved)
          /\ overlapped' = (overlapped \/ s \in beside)
          /\ slot' = [slot EXCEPT ![s] = NoSlot]
          /\ beside' = {q \in Slots \ {s} : slot[q].stage # "none"}
          /\ UNCHANGED overdue
      BY <2>4 DEF CommitReservation
    <3>2. /\ slot' \in [Slots -> SlotRecord]
          /\ slot'[s].stage = "none"
          /\ \A p \in Slots \ {s} : slot'[p] = slot[p]
      BY <2>0, <3>1, PenaltiesFit DEF LimitTypeOK
    <3>3. LimitTypeOK'
      BY <3>1, <3>2, OneMoreCounts DEF LimitTypeOK, SlotRecord
    <3>4. RowsAgree'
      BY <3>1, <3>2 DEF RowsAgree
    <3>5. ~overlapped' => /\ active' = 1
                          /\ reserved' = reserved + 1
                          /\ reserved' <= MAX_FAILED
                          /\ reserved' <= penalty'.count
                          /\ ~StartsOver(penalty')
      <4> SUFFICES ASSUME ~overlapped'
                   PROVE  /\ active' = 1
                          /\ reserved' = reserved + 1
                          /\ reserved' <= MAX_FAILED
                          /\ reserved' <= penalty'.count
                          /\ ~StartsOver(penalty')
        OBVIOUS
      <4>1. ~overlapped /\ s \in Slots \ beside
        BY <3>1
      <4>2. reserved < MAX_FAILED /\ reserved < slot[s].save.count
        BY <3>1, <4>1 DEF CountsAgree
      <4>3. active = 0
        BY <3>1, <4>1 DEF NoneBeside
      <4>4. ~StartsOver(slot[s].save)
        BY <3>1 DEF RowsAgree
      <4>5. OneMore(reserved) = reserved + 1
        BY <2>0, <4>2, LimitAssumption DEF OneMore
      <4> QED BY <2>0, <3>1, <4>2, <4>3, <4>4, <4>5, LimitAssumption
    <3>6. \A p \in Slots \ beside' : slot'[p].stage = "none"
      BY <3>1, <3>2
    <3> QED
      BY <2>0, <3>1, <3>3, <3>4, <3>5, <3>6, LimitAssumption
         DEF CountsAgree, NoneBeside, ReservationsBounded, OneActiveReservation
  <2>5. ASSUME NEW s \in Slots, RollbackReservation(s)
        PROVE  LimitInv'
    <3>1. /\ UNCHANGED <<penalty, active, overdue, reserved, overlapped>>
          /\ Closes(s)
      BY <2>5 DEF RollbackReservation
    <3>2. /\ slot' \in [Slots -> SlotRecord]
          /\ slot'[s].stage = "none"
          /\ \A p \in Slots \ {s} : slot'[p] = slot[p]
          /\ beside' = beside \ {s}
      BY <2>0, <3>1, PenaltiesFit DEF Closes, LimitTypeOK
    <3> QED
      BY <3>1, <3>2
         DEF LimitTypeOK, RowsAgree, CountsAgree, NoneBeside,
             ReservationsBounded, OneActiveReservation
  <2>6. ASSUME PayReservation
        PROVE  LimitInv'
    <3>1. /\ UNCHANGED <<slot, overdue, beside>>
          /\ penalty' = IF penalty.made THEN [NoPenalty EXCEPT !.made = TRUE]
                        ELSE penalty
          /\ active' \in Nat /\ active' <= active
          /\ Pardons
      BY <2>0, <2>6 DEF PayReservation
    <3>2. /\ reserved' = 0 /\ 0 \in Counts
          /\ overlapped' \in BOOLEAN
      BY <3>1, LimitAssumption DEF Pardons, Counts
    <3>3. LimitTypeOK'
      BY <3>1, <3>2, PenaltiesFit DEF LimitTypeOK
    <3>4. RowsAgree'
      <4>1. /\ [NoPenalty EXCEPT !.made = TRUE].made
            /\ [NoPenalty EXCEPT !.made = TRUE].count = 0
            /\ NoPenalty.count = 0
        BY DEF NoPenalty
      <4> QED BY <3>1, <4>1, LimitAssumption DEF RowsAgree
    <3>5. NoneBeside'
      BY <2>0, <3>1 DEF NoneBeside
    <3> QED BY <3>1, <3>3, <3>4, <3>5, PardonsAgree
  <2>7. ASSUME CancelReservation \/ ReservationExpires \/ SweepOverdue
        PROVE  LimitInv'
    <3>1. /\ UNCHANGED <<penalty, slot, reserved, beside, overlapped>>
          /\ active' \in Nat /\ active' <= active
          /\ overdue' \in BOOLEAN
      <4>1. CASE CancelReservation
        BY <2>0, <4>1 DEF CancelReservation, LimitTypeOK
      <4>2. CASE ReservationExpires
        BY <2>0, <4>2 DEF ReservationExpires, LimitTypeOK
      <4>3. CASE SweepOverdue
        <5>1. UNCHANGED <<penalty, slot, active, reserved, beside, overlapped>>
          BY <4>3 DEF SweepOverdue
        <5>2. overdue' \in BOOLEAN
          BY <4>3 DEF SweepOverdue
        <5> QED BY <2>0, <5>1, <5>2
      <4> QED BY <2>7, <4>1, <4>2, <4>3
    <3> QED
      BY <2>0, <3>1
         DEF LimitTypeOK, RowsAgree, CountsAgree, NoneBeside,
             ReservationsBounded, OneActiveReservation
  <2>8. ASSUME WindowEnds \/ BlockEnds
        PROVE  LimitInv'
    <3>1. /\ UNCHANGED <<slot, active, overdue, beside>>
          /\ Pardons
          /\ \/ penalty' = [penalty EXCEPT !.window = "over"]
             \/ penalty' = [penalty EXCEPT !.block = "over"]
          /\ penalty # NoPenalty
      BY <2>8 DEF WindowEnds, BlockEnds, NoPenalty
    <3>2. reserved' = 0 /\ 0 \in Counts /\ overlapped' \in BOOLEAN
      BY <3>1, LimitAssumption DEF Pardons, Counts
    <3>3. LimitTypeOK'
      BY <3>1, <3>2, PenaltiesFit DEF LimitTypeOK
    <3>4. /\ penalty'.made = penalty.made
          /\ penalty'.count = penalty.count
          /\ penalty'.block \in {penalty.block, "over"}
      BY <2>0, <3>1 DEF PenaltyRow
    <3>5. RowsAgree'
      BY <3>1, <3>4 DEF RowsAgree
    <3>6. NoneBeside'
      BY <3>1 DEF NoneBeside
    <3> QED BY <2>0, <3>1, <3>3, <3>5, <3>6, PardonsAgree
  <2>9. ASSUME NEW s \in Slots, StartDeletePenalities(s)
        PROVE  LimitInv'
    <3> DEFINE save == [penalty EXCEPT !.count = 0, !.block = "none"]
    <3>1. /\ UNCHANGED <<penalty, active, overdue, reserved, beside, overlapped>>
          /\ penalty.made
          /\ Step(s, "forgiving", save)
      BY <2>9 DEF StartDeletePenalities
    <3>2. /\ save \in PenaltyRow
          /\ save.made /\ save.count = 0 /\ save.block = "none"
      BY <2>0, <3>1, PenaltiesFit DEF PenaltyRow
    <3> HIDE DEF save
    <3>3. /\ slot' \in [Slots -> SlotRecord]
          /\ slot'[s].stage = "forgiving" /\ slot'[s].save = save
          /\ \A p \in Slots \ {s} : slot'[p] = slot[p]
      <4>1. [stage |-> "forgiving", save |-> save] \in SlotRecord
        BY <3>2 DEF SlotRecord
      <4> QED BY <3>1, <4>1 DEF Step, LimitTypeOK
    <3> QED
      BY <3>1, <3>2, <3>3
         DEF LimitTypeOK, RowsAgree, CountsAgree, NoneBeside,
             ReservationsBounded, OneActiveReservation
  <2>10. ASSUME NEW s \in Slots, EndDeletePenalities(s)
         PROVE  LimitInv'
    <3>1. /\ UNCHANGED <<active, overdue>>
          /\ slot[s].stage = "forgiving"
          /\ penalty' = slot[s].save
          /\ Closes(s)
          /\ Pardons
      BY <2>10 DEF EndDeletePenalities
    <3>2. /\ slot' \in [Slots -> SlotRecord]
          /\ slot'[s].stage = "none"
          /\ \A p \in Slots \ {s} : slot'[p] = slot[p]
          /\ beside' = beside \ {s}
      BY <2>0, <3>1, PenaltiesFit DEF Closes, LimitTypeOK
    <3>3. reserved' = 0 /\ 0 \in Counts /\ overlapped' \in BOOLEAN
      BY <3>1, LimitAssumption DEF Pardons, Counts
    <3>4. LimitTypeOK'
      BY <3>1, <3>2, <3>3 DEF LimitTypeOK, SlotRecord
    <3>5. RowsAgree'
      BY <3>1, <3>2, LimitAssumption DEF RowsAgree
    <3>6. NoneBeside'
      BY <3>1, <3>2 DEF NoneBeside
    <3> QED BY <2>0, <3>1, <3>2, <3>4, <3>5, <3>6, PardonsAgree
  <2>11. CASE UNCHANGED limitVars
    BY <2>11 DEF limitVars, LimitTypeOK, RowsAgree, CountsAgree, NoneBeside,
                 ReservationsBounded, OneActiveReservation
  <2> QED
    BY <2>1, <2>2, <2>3, <2>4, <2>5, <2>6, <2>7, <2>8, <2>9, <2>10, <2>11
       DEF LimitNext
<1> QED BY <1>1, <1>2, PTL DEF LimitSpec

\* A buyer makes at most MAX_FAILED unpaid reservations, unless requests
\* overlapped (IsPenaltyGuard, registerFailure).
THEOREM ReservationsAreBounded == LimitSpec => []ReservationsBounded
BY LimitInvariant, PTL DEF LimitInv

\* Two reservations are active at a time only if their requests overlapped
\* (NoActiveReservationGuard).
THEOREM ReservationIsAlone == LimitSpec => []OneActiveReservation
BY LimitInvariant, PTL DEF LimitInv

-----------------------------------------------------------------------------
(* Roles.                                                                  *)

\* Rows that the walk and administrators write.
LEMMA RolesFit ==
  /\ NoRows \in Rows
  /\ NoRole \in RoleRow
  /\ \A g \in Rows : Custom(g) \in RoleRow
  /\ \A r \in Releases, n \in Names :
       n \in Static(r) => Matrix[r][n] \in Rows
  /\ \A rows \in Rows, r \in Resources, P \in {None} \cup SUBSET Permissions :
       Syncs(rows, r, P) \in Rows
<1>1. NoRows \in Rows
  BY DEF NoRows, Rows
<1>2. \A g \in Rows : Custom(g) \in RoleRow
  BY DEF Custom, RoleRow
<1>3. NoRole \in RoleRow
  BY <1>1 DEF NoRole, RoleRow
<1>4. \A r \in Releases, n \in Names : n \in Static(r) => Matrix[r][n] \in Rows
  BY MatrixAssumption DEF Static
<1>5. \A rows \in Rows, r \in Resources, P \in {None} \cup SUBSET Permissions :
        Syncs(rows, r, P) \in Rows
  BY DEF Rows, Syncs
<1> QED BY <1>1, <1>2, <1>3, <1>4, <1>5

\* A request on a custom role leaves the static ones as they are.
LEMMA CustomRolesApart ==
  ASSUME SeedInv, Handles,
         roles' \in [Names -> RoleRow],
         staff' \in [Names -> {"none", "enabled", "removed"}],
         \A n \in Names : \/ roles'[n] = roles[n]
                          \/ ~roles'[n].isStatic
  PROVE  SeedInv'
<1>1. UNCHANGED <<release, stage, todo, role, left>> /\ stage = "serving"
  BY DEF Handles
<1>2. Want' = Want /\ Static(release)' = Static(release)
  BY <1>1 DEF Want
<1>3. SeedTypeOK'
  BY <1>1 DEF SeedInv, SeedTypeOK
<1>4. Static(release) \subseteq Names
  BY ReleasesAssumption, MatrixAssumption DEF SeedInv, SeedTypeOK
<1>5. Seeded'
  BY <1>1, <1>2, <1>4 DEF SeedInv, Seeded
<1> QED BY <1>1, <1>2, <1>3, <1>5 DEF SeedInv

\* SeedInv is inductive: one step of the proof per step of the walk, and one
\* for the requests.
THEOREM SeedInvariant == SeedSpec => []SeedInv
<1>0. AnyName \in Names
  BY NamesAssumption DEF AnyName
<1>1. SeedInit => SeedInv
  <2> SUFFICES ASSUME SeedInit PROVE SeedInv
    OBVIOUS
  <2>1. SeedTypeOK
    BY <1>0, RolesFit, ReleasesAssumption DEF SeedInit, SeedTypeOK
  <2>2. ~NoRole.isStatic
    BY DEF NoRole
  <2> QED BY <2>1, <2>2 DEF SeedInit, SeedInv, Seeded
<1>2. ASSUME SeedInv, [SeedNext]_seedVars
      PROVE  SeedInv'
  <2> USE <1>2 DEF SeedInv
  <2>0. /\ Static(release) \subseteq Names
        /\ \A n \in Static(release) : Want[n] \in Rows
        /\ \A n \in Names : roles[n] \in RoleRow /\ roles[n].permissions \in Rows
    BY RolesFit, MatrixAssumption DEF SeedTypeOK, Want, RoleRow
  <2>1. ASSUME Boot
        PROVE  SeedInv'
    BY <2>0, <2>1 DEF Boot, SeedTypeOK, Seeded, Want, Static
  <2>2. ASSUME FindRole
        PROVE  SeedInv'
    <3>1. /\ role' \in todo
          /\ stage = "roles" /\ stage' \in {"down", "permissions"}
          /\ stage' = "down" <=> roles[role'].state = "removed"
          /\ left' = Wanted(role')
          /\ UNCHANGED <<staff, release, todo>>
      BY <2>2 DEF FindRole
    <3>2. role' \in Names /\ role' \in Static(release)
      BY <2>0, <3>1
    <3>3. /\ roles' \in [Names -> RoleRow]
          /\ \A n \in Names \ {role'} : roles'[n] = roles[n]
          /\ roles'[role'].isStatic => roles'[role'].state = "live"
      <4>1. CASE roles[role'].state = "none"
        <5> DEFINE row == [state |-> "live", isStatic |-> TRUE,
                           permissions |-> NoRows]
        <5>1. row \in RoleRow
          BY RolesFit DEF RoleRow
        <5>2. roles' = [roles EXCEPT ![role'] = row]
          BY <2>2, <4>1 DEF FindRole
        <5> QED BY <3>2, <5>1, <5>2 DEF SeedTypeOK
      <4>2. CASE roles[role'].state # "none"
        BY <2>2, <3>2, <4>2 DEF FindRole, SeedTypeOK
      <4> QED BY <4>1, <4>2
    <3>4. Want' = Want /\ Static(release') = Static(release)
      BY <3>1 DEF Want
    <3>5. SeedTypeOK'
      BY <3>1, <3>2, <3>3 DEF SeedTypeOK, Wanted
    <3>6. Wanted(role)' = Wanted(role')
      BY <3>4 DEF Wanted
    <3>7. Seeded'
      BY <2>0, <3>1, <3>2, <3>3, <3>4, <3>6 DEF Seeded
    <3> QED BY <2>0, <3>1, <3>3, <3>4, <3>5, <3>7
  <2>3. ASSUME SyncPermission
        PROVE  SeedInv'
    <3> DEFINE r == CHOOSE x \in left : TRUE
               rows == Syncs(roles[role].permissions, r, Want[role][r])
    <3>1. /\ stage = "permissions"
          /\ r \in left
          /\ roles' = [roles EXCEPT ![role].permissions = rows]
          /\ left' = left \ {r}
          /\ UNCHANGED <<staff, release, stage, todo, role>>
      BY <2>3 DEF SyncPermission
    <3>2. /\ r \in Resources /\ r \in Wanted(role)
          /\ role \in Names /\ role \in Static(release) /\ role \in todo
          /\ Want[role] \in Rows
      BY <2>0, <3>1 DEF Seeded, SeedTypeOK
    <3>3. /\ rows \in Rows
          /\ rows[r] = Want[role][r]
          /\ \A x \in Resources \ {r} : rows[x] = roles[role].permissions[x]
      <4>1. Want[role][r] \in {None} \cup SUBSET Permissions
        BY <3>2 DEF Rows
      <4>2. roles[role].permissions \in Rows
        BY <2>0, <3>2
      <4> HIDE DEF r
      <4> QED BY <3>2, <4>1, <4>2, RolesFit DEF Syncs, Rows
    <3> HIDE DEF r, rows
    <3>4. /\ roles' \in [Names -> RoleRow]
          /\ roles'[role].permissions = rows
          /\ \A n \in Names : /\ roles'[n].isStatic = roles[n].isStatic
                              /\ roles'[n].state = roles[n].state
                              /\ n # role => roles'[n] = roles[n]
      BY <2>0, <3>1, <3>2, <3>3 DEF SeedTypeOK, RoleRow
    <3>5. /\ Want' = Want /\ Static(release') = Static(release)
          /\ Wanted(role)' = Wanted(role)
      BY <3>1 DEF Want, Wanted
    <3>6. SeedTypeOK'
      BY <3>1, <3>4 DEF SeedTypeOK
    <3>7. Seeded'
      <4>1. \A x \in Wanted(role) \ left' :
              roles'[role].permissions[x] = Want[role][x]
        BY <3>1, <3>3, <3>4 DEF Seeded, Wanted
      <4> QED BY <2>0, <3>1, <3>2, <3>4, <3>5, <4>1 DEF Seeded
    <3> QED BY <3>1, <3>4, <3>5, <3>6, <3>7
  <2>4. ASSUME RemoveObsolete
        PROVE  SeedInv'
    <3> DEFINE old == roles[role].permissions
               rows == [r \in Resources |-> IF r \in Obsolete(old) THEN None
                                            ELSE old[r]]
    <3>1. /\ stage = "permissions" /\ stage' = "roles"
          /\ left = {}
          /\ roles' = [roles EXCEPT ![role].permissions = rows]
          /\ todo' = todo \ {role}
          /\ UNCHANGED <<staff, release, role, left>>
      BY <2>4 DEF RemoveObsolete
    <3>2. /\ role \in Names /\ role \in Static(release)
          /\ Want[role] \in Rows /\ old \in Rows
          /\ \A r \in Wanted(role) : old[r] = Want[role][r]
      BY <2>0, <3>1 DEF Seeded
    <3>3. rows = Want[role]
      <4>1. \A r \in Resources : rows[r] = Want[role][r]
        BY <3>2 DEF Obsolete, Wanted
      <4> QED BY <3>2, <4>1 DEF Rows
    <3> HIDE DEF old, rows
    <3>4. /\ roles' \in [Names -> RoleRow]
          /\ roles'[role].permissions = Want[role]
          /\ \A n \in Names : /\ roles'[n].isStatic = roles[n].isStatic
                              /\ roles'[n].state = roles[n].state
                              /\ n # role => roles'[n] = roles[n]
      BY <2>0, <3>1, <3>2, <3>3 DEF SeedTypeOK, RoleRow
    <3>5. Want' = Want /\ Static(release') = Static(release)
      BY <3>1 DEF Want
    <3>6. SeedTypeOK'
      BY <3>1, <3>4 DEF SeedTypeOK
    <3>7. Seeded'
      BY <2>0, <3>1, <3>4, <3>5 DEF Seeded
    <3> QED BY <3>1, <3>4, <3>5, <3>6, <3>7
  <2>5. ASSUME Serve \/ Crash \/ Deploy
        PROVE  SeedInv'
    <3>1. CASE Serve
      BY <2>0, <3>1 DEF Serve, SeedTypeOK, Seeded, Want, Static
    <3>2. CASE Crash
      BY <1>0, <2>0, <3>2 DEF Crash, SeedTypeOK, Seeded, Want, Static
    <3>3. CASE Deploy
      BY <2>0, <3>3 DEF Deploy, SeedTypeOK, Seeded
    <3> QED BY <2>5, <3>1, <3>2, <3>3
  <2>6. ASSUME NEW n \in Names, NEW g \in Grants, CreateRole(n, g)
        PROVE  SeedInv'
    <3>1. Custom(g) \in RoleRow /\ ~Custom(g).isStatic
      BY RolesFit, GrantsAssumption DEF Custom
    <3> QED
      BY <2>6, <3>1, CustomRolesApart DEF CreateRole, SeedTypeOK
  <2>7. ASSUME NEW n \in Names, NEW g \in Grants \cup {NoRows}, UpdateRole(n, g)
        PROVE  SeedInv'
    <3>1. /\ Handles /\ staff' = staff
          /\ roles' = [roles EXCEPT ![n].permissions = g]
          /\ ~roles[n].isStatic
          /\ g \in Rows
      BY <2>7, RolesFit, GrantsAssumption DEF UpdateRole, Mutable
    <3>2. /\ roles' \in [Names -> RoleRow]
          /\ ~roles'[n].isStatic
          /\ \A m \in Names \ {n} : roles'[m] = roles[m]
      BY <2>0, <3>1 DEF SeedTypeOK, RoleRow
    <3> QED BY <3>1, <3>2, CustomRolesApart DEF SeedTypeOK
  <2>8. ASSUME NEW n \in Names, NEW m \in Names, NEW g \in Grants \cup {NoRows},
               RenameRole(n, m, g)
        PROVE  SeedInv'
    <3>1. /\ Handles
          /\ roles' = [roles EXCEPT ![n] = NoRole, ![m] = Custom(g)]
          /\ staff' = [staff EXCEPT ![n] = "none", ![m] = staff[n]]
      BY <2>8 DEF RenameRole
    <3>2. /\ Custom(g) \in RoleRow /\ ~Custom(g).isStatic
          /\ NoRole \in RoleRow /\ ~NoRole.isStatic
      BY RolesFit, GrantsAssumption DEF Custom, NoRole
    <3>3. /\ roles' \in [Names -> RoleRow]
          /\ \A x \in Names : roles'[x] = roles[x] \/ ~roles'[x].isStatic
      BY <3>1, <3>2 DEF SeedTypeOK
    <3>4. staff' \in [Names -> {"none", "enabled", "removed"}]
      BY <3>1 DEF SeedTypeOK
    <3> QED BY <3>1, <3>3, <3>4, CustomRolesApart
  <2>9. ASSUME NEW n \in Names, RemoveRole(n)
        PROVE  SeedInv'
    <3>1. /\ Handles
          /\ roles' = [roles EXCEPT ![n].state = "removed",
                                    ![n].permissions = NoRows]
          /\ ~roles[n].isStatic
          /\ staff' = [staff EXCEPT ![n] = IF @ = "none" THEN @ ELSE "removed"]
      BY <2>9 DEF RemoveRole, Mutable
    <3>2. /\ roles' \in [Names -> RoleRow]
          /\ ~roles'[n].isStatic
          /\ \A m \in Names \ {n} : roles'[m] = roles[m]
      BY <2>0, <3>1, RolesFit DEF SeedTypeOK, RoleRow
    <3>3. staff' \in [Names -> {"none", "enabled", "removed"}]
      BY <3>1 DEF SeedTypeOK
    <3> QED BY <3>1, <3>2, <3>3, CustomRolesApart
  <2>10. ASSUME NEW n \in Names, Hire(n)
         PROVE  SeedInv'
    <3>1. /\ Handles /\ roles' = roles
          /\ staff' \in [Names -> {"none", "enabled", "removed"}]
      BY <2>10 DEF Hire, SeedTypeOK
    <3> QED BY <3>1, CustomRolesApart DEF SeedTypeOK
  <2>11. CASE UNCHANGED seedVars
    BY <2>0, <2>11 DEF seedVars, SeedTypeOK, Seeded, Want, Wanted, Static
  <2> QED
    BY <2>1, <2>2, <2>3, <2>4, <2>5, <2>6, <2>7, <2>8, <2>9, <2>10, <2>11
       DEF SeedNext
<1> QED BY <1>1, <1>2, PTL DEF SeedSpec

\* Whatever crashes, releases and administrators did: once the program serves,
\* a static role has the permissions of its release (seedRolesAndPermissions).
THEOREM RolesServedAsReleased == SeedSpec => []ServedAsReleased
<1>1. SeedInv => ServedAsReleased
  BY MatrixAssumption
     DEF SeedInv, SeedTypeOK, Seeded, ServedAsReleased, Static
<1> QED BY <1>1, SeedInvariant, PTL

-----------------------------------------------------------------------------
(* Routes.                                                                 *)

\* A role of the release with a row for the route's resource that has all
\* the route needs, or somebody who is no user of the panel, can call it.
Callable(route) ==
  \/ \E n \in DOMAIN StaticRoles : /\ RolesGuard(StaticRoles[n], route)
                                   /\ route.takes \subseteq UserHas(n)
  \/ OpenToOthers(route)
Gives(n, resource, permissions, takes) ==
  /\ n \in DOMAIN StaticRoles
  /\ resource \in DOMAIN StaticRoles[n]
  /\ permissions \subseteq StaticRoles[n][resource]
  /\ takes \subseteq UserHas(n)

\* What the static roles give, and what their users have.
LEMMA StaticRolesGive ==
  /\ DOMAIN StaticRoles = {"SUPER_ADMIN", "COMPANY_ADMIN", "CASHIER",
                           "CASHIER_SELLER", "CASHIER_OWNER"}
  /\ StaticRoles["SUPER_ADMIN"] = SuperAdmin
  /\ StaticRoles["CASHIER"] = Cashier
  /\ StaticRoles["CASHIER_OWNER"] = CashierOwner
  /\ UserHas("SUPER_ADMIN") = {"user", "company", "twoFactor"}
  /\ UserHas("CASHIER") = {"user", "company", "twoFactor", "office"}
  /\ UserHas("CASHIER_OWNER") = {"user", "company", "twoFactor"}
<1>1. /\ DOMAIN StaticRoles = {"SUPER_ADMIN", "COMPANY_ADMIN", "CASHIER",
                               "CASHIER_SELLER", "CASHIER_OWNER"}
      /\ StaticRoles["SUPER_ADMIN"] = SuperAdmin
      /\ StaticRoles["CASHIER"] = Cashier
      /\ StaticRoles["CASHIER_OWNER"] = CashierOwner
  BY DEF StaticRoles
<1>2. /\ UserHas("SUPER_ADMIN") = {"user", "company", "twoFactor"}
      /\ UserHas("CASHIER") = {"user", "company", "twoFactor", "office"}
      /\ UserHas("CASHIER_OWNER") = {"user", "company", "twoFactor"}
  BY DEF UserHas, GetOffice, GetCompany, Panel
<1> QED BY <1>1, <1>2

\* A role that gives all the permissions of some routes can call them.
LEMMA GivenIsCallable ==
  ASSUME NEW n, NEW resource, NEW permissions, NEW takes,
         Gives(n, resource, permissions, takes)
  PROVE  /\ Callable(Guarded(resource, permissions, takes))
         /\ \A route \in EachOf(resource, permissions, takes) : Callable(route)
BY DEF Gives, Callable, Guarded, EachOf, RolesGuard

\* A route that asks for no permission needs only a caller who has what it
\* takes.
LEMMA SignedInIsCallable ==
  ASSUME NEW takes,
         \/ takes \subseteq {"user", "company", "twoFactor"}
         \/ takes \subseteq {"verified", "customer", "reader"}
         \/ takes \subseteq {"bank"}
  PROVE  Callable(SignedIn(takes))
<1> DEFINE route == SignedIn(takes)
<1>1. route.needs = {} /\ route.takes = takes
  BY DEF SignedIn, Guarded
<1>2. CASE takes \subseteq {"user", "company", "twoFactor"}
  BY <1>1, <1>2, StaticRolesGive DEF Callable, RolesGuard
<1>3. CASE takes \subseteq {"verified", "customer", "reader"}
  <2>1. "customer" \in DOMAIN Outside
        /\ Outside["customer"] = {"verified", "customer", "reader"}
    BY DEF Outside
  <2> QED BY <1>1, <1>3, <2>1 DEF Callable, OpenToOthers
<1>4. CASE takes \subseteq {"bank"}
  <2>1. "bank" \in DOMAIN Outside /\ Outside["bank"] = {"bank"}
    BY DEF Outside
  <2> QED BY <1>1, <1>4, <2>1 DEF Callable, OpenToOthers
<1> QED BY <1>2, <1>3, <1>4

\* Whatever a role's row gives, its users' needs are met with.
LEMMA RowGives ==
  ASSUME NEW n \in {"SUPER_ADMIN", "CASHIER", "CASHIER_OWNER"},
         NEW resource \in DOMAIN StaticRoles[n],
         NEW permissions \in SUBSET StaticRoles[n][resource],
         NEW takes \in SUBSET UserHas(n)
  PROVE  Gives(n, resource, permissions, takes)
BY StaticRolesGive DEF Gives

\* The routes of the super administrator.
LEMMA SuperAdminGives ==
  /\ Gives("SUPER_ADMIN", "FILE", {"CREATE", "READ", "DELETE"}, {})
  /\ Gives("SUPER_ADMIN", "BANK_ACCOUNT", {"READ", "UPDATE"}, {})
  /\ Gives("SUPER_ADMIN", "BUS", Crud, {"company"})
  /\ Gives("SUPER_ADMIN", "COMMISSION", {"CREATE_ADMIN", "READ_ADMIN"}, {})
  /\ Gives("SUPER_ADMIN", "COMMISSION", {"READ_COMPANY"}, {"company"})
  /\ Gives("SUPER_ADMIN", "COMPANY", Crud, {})
  /\ Gives("SUPER_ADMIN", "CUSTOMER", {"READ", "DELETE"}, {})
  /\ Gives("SUPER_ADMIN", "DASHBOARD", {"READ_ADMIN"}, {})
  /\ Gives("SUPER_ADMIN", "DASHBOARD", {"READ_COMPANY"}, {"company"})
  /\ Gives("SUPER_ADMIN", "OFFICE", Crud, {"company"})
  /\ Gives("SUPER_ADMIN", "PLACE", {"CREATE", "UPDATE"}, {})
  /\ Gives("SUPER_ADMIN", "OWNER", Crud, {"company"})
  /\ Gives("SUPER_ADMIN", "PAYMENTS", {"RECHARGE"}, {})
  /\ Gives("SUPER_ADMIN", "ROL", Crud \cup {"READ_CASHIERS"}, {})
  /\ Gives("SUPER_ADMIN", "ROUTE", {"CREATE"}, {})
  /\ Gives("SUPER_ADMIN", "ROUTE", {"READ", "UPDATE", "DELETE"}, {"company"})
  /\ Gives("SUPER_ADMIN", "TICKET", {"READ"}, {"company"})
  /\ Gives("SUPER_ADMIN", "TRANSACTION", {"PAY", "READ"}, {})
  /\ Gives("SUPER_ADMIN", "TRANSACTION", {"READ"}, {"company"})
  /\ Gives("SUPER_ADMIN", "TRAVEL", {"READ", "APPROVE"}, {"company"})
  /\ Gives("SUPER_ADMIN", "TRAVEL", {"APPROVE"}, {"company", "user"})
  /\ Gives("SUPER_ADMIN", "CASHIER",
           {"CREATE", "READ", "UPDATE", "READ_CASHIERS"}, {"company"})
  /\ Gives("SUPER_ADMIN", "USER", Crud, {})
  /\ Gives("SUPER_ADMIN", "USER", {"UPDATE"}, {"twoFactor", "user"})
  /\ Gives("SUPER_ADMIN", "USER", {"UPDATE_CASHIERS"},
           {"twoFactor", "user", "company"})
BY RowGives, StaticRolesGive DEF SuperAdmin, Crud

\* The routes of the cashiers, and of the owners of buses.
LEMMA CashierGives ==
  /\ Gives("CASHIER", "BUS_CASHIER", {"READ"}, {"office"})
  /\ Gives("CASHIER", "ROUTES_CASHIER", {"READ"}, {"office"})
  /\ Gives("CASHIER", "ROUTES_CASHIER", {"READ"}, {"company"})
  /\ Gives("CASHIER", "CUSTOMER_CASHIER", {"READ"}, {})
  /\ Gives("CASHIER", "TICKET_CASHIER",
           {"CREATE", "READ", "CONFIRM", "CANCEL"}, {"user"})
  /\ Gives("CASHIER", "TICKET_CASHIER", {"READ", "UPDATE"}, {})
  /\ Gives("CASHIER", "TRAVEL_CASHIER", {"CREATE", "READ", "CANCEL"},
           {"office", "user"})
  /\ Gives("CASHIER", "TRAVEL_CASHIER", {"READ"}, {})
  /\ Gives("CASHIER", "TRAVEL_CASHIER", {"READ"}, {"company"})
  /\ Gives("CASHIER", "TRAVEL_CASHIER", {"CLOSE"}, {"user"})
  /\ Gives("CASHIER", "TRAVEL_CASHIER", {"UPDATE"}, {"office"})
  /\ Gives("CASHIER_OWNER", "TRAVEL_CASHIER", {"READ_OWNER"}, {"user"})
BY RowGives, StaticRolesGive DEF Cashier, CashierOwner

\* Each controller's routes have callers among the static roles, the
\* customers and guests of the app, and the bank.
LEMMA EveryRouteCallable ==
  ASSUME NEW route \in Routes
  PROVE  Callable(route)
<1> DEFINE All(R) == \A r \in R : Callable(r)
<1>1. /\ All(AuthController) /\ All(CustomersInAppController)
      /\ All(RoutesInAppController) /\ All(SettingsController)
      /\ All(TicketsInAppController) /\ All(TravelsInAppController)
  BY SignedInIsCallable
     DEF AuthController, CustomersInAppController, RoutesInAppController,
         SettingsController, TicketsInAppController, TravelsInAppController,
         Public
<1>2. /\ All(FilesController) /\ All(PlacesController)
      /\ All(PaymentsController) /\ All(UsersController)
  BY SignedInIsCallable, SuperAdminGives, GivenIsCallable
     DEF FilesController, PlacesController, PaymentsController,
         UsersController, Public
<1>3. /\ All(BankAccountsController) /\ All(BusesController)
      /\ All(CommissionsController) /\ All(CompaniesController)
      /\ All(CustomersController) /\ All(DashboardsController)
  BY SuperAdminGives, GivenIsCallable
     DEF BankAccountsController, BusesController, CommissionsController,
         CompaniesController, CustomersController, DashboardsController
<1>4. /\ All(OfficesController) /\ All(OwnersController)
      /\ All(RolesController) /\ All(RoutesController)
      /\ All(TicketsController) /\ All(TransactionsController)
      /\ All(TravelsController) /\ All(CashiersController)
  BY SuperAdminGives, GivenIsCallable
     DEF OfficesController, OwnersController, RolesController,
         RoutesController, TicketsController, TransactionsController,
         TravelsController, CashiersController
<1>5. /\ All(BusesForCashiersController)
      /\ All(CustomersForCashiersController)
      /\ All(RoutesForCashiersController)
      /\ All(TicketsForCashiersController)
      /\ All(TravelsForCashiersController)
  BY CashierGives, GivenIsCallable
     DEF BusesForCashiersController, CustomersForCashiersController,
         RoutesForCashiersController, TicketsForCashiersController,
         TravelsForCashiersController
<1> QED BY <1>1, <1>2, <1>3, <1>4, <1>5 DEF Routes

\* No route is dead once the last release serves with static roles of the
\* seed's making (the @Auth of the controllers, the seeded matrix).
THEOREM RoutesAreServed == SeedSpec => []EveryRouteServed
<1>1. ASSUME SeedInv, ServedAsReleased
      PROVE  EveryRouteServed
  <2> SUFFICES ASSUME stage = "serving", release + 1 \notin Releases,
                      \A n \in Static(release) : roles[n].isStatic,
                      NEW route \in Routes
               PROVE  OpenToUsers(route) \/ OpenToOthers(route)
    BY DEF EveryRouteServed
  <2>1. release \in Releases /\ Static(release) = DOMAIN StaticRoles
    BY <1>1, LastReleaseAssumption DEF SeedInv, SeedTypeOK
  <2>2. ASSUME NEW n \in DOMAIN StaticRoles,
               RolesGuard(StaticRoles[n], route)
        PROVE  RolesGuard(Granted(n), route)
    <3>1. CASE route.needs = {}
      BY <3>1 DEF RolesGuard
    <3>2. ASSUME route.resource \in DOMAIN StaticRoles[n],
                 route.needs \subseteq StaticRoles[n][route.resource]
          PROVE  RolesGuard(Granted(n), route)
      <4> DEFINE x == route.resource
      <4>1. /\ x \in Resources
            /\ roles[n].permissions[x] = StaticRoles[n][x]
            /\ StaticRoles[n][x] # None
        BY <1>1, <2>1, <3>2, LastReleaseAssumption, NoneAssumption
           DEF ServedAsReleased, Want
      <4>2. /\ x \in DOMAIN Granted(n)
            /\ Granted(n)[x] = StaticRoles[n][x]
        BY <4>1 DEF Granted
      <4> QED BY <3>2, <4>2 DEF RolesGuard
    <3> QED BY <2>2, <3>1, <3>2 DEF RolesGuard
  <2>3. Callable(route)
    BY EveryRouteCallable
  <2> QED BY <2>1, <2>2, <2>3 DEF Callable, OpenToUsers
<1> QED BY <1>1, SeedInvariant, RolesServedAsReleased, PTL

=============================================================================

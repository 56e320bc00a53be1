---------------------------- MODULE MCBackOffice ----------------------------
(* Five components that share no row: a behaviour of the whole is an       *)
(* interleaving of theirs, and each property reads the variables of one    *)
(* component only.  A run follows one of them, chosen at the start.        *)
EXTENDS RoleSeed, UserAccounts, CustomerAccounts, ReservationLimit,
        Administration, TLC

VARIABLE part   \* the component that takes steps

vars == <<seedVars, userVars, customerVars, limitVars, adminVars>>

\* The table of roles is large: the other parts do without it.
NoSeed == /\ roles = {}
          /\ staff = {}
          /\ release = 1
          /\ stage = "down"
          /\ todo = {}
          /\ role = AnyName
          /\ left = {}

Init == /\ part \in {"seed", "users", "customers", "limit", "admin"}
        /\ IF part = "seed" THEN SeedInit ELSE NoSeed
        /\ UsersInit
        /\ CustomersInit
        /\ LimitInit
        /\ AdminInit

Next ==
  /\ UNCHANGED part
  /\ \/ /\ part = "seed"
        /\ SeedNext
        /\ UNCHANGED <<userVars, customerVars, limitVars, adminVars>>
     \/ /\ part = "users"
        /\ UsersNext
        /\ UNCHANGED <<seedVars, customerVars, limitVars, adminVars>>
     \/ /\ part = "customers"
        /\ CustomersNext
        /\ UNCHANGED <<seedVars, userVars, limitVars, adminVars>>
     \/ /\ part = "limit"
        /\ LimitNext
        /\ UNCHANGED <<seedVars, userVars, customerVars, adminVars>>
     \/ /\ part = "admin"
        /\ AdminNext
        /\ UNCHANGED <<seedVars, userVars, customerVars, limitVars>>

Spec == Init /\ [][Next]_<<part, vars>>

-----------------------------------------------------------------------------
(* The roles of two releases.                                              *)

MCNames == DOMAIN StaticRoles \cup {"Support"}
MCResources == ValidResourses \cup ValidResoursesForAdmins

Total(rows) ==
  [r \in MCResources |-> IF r \in DOMAIN rows THEN rows[r] ELSE None]

\* The first release has no owners' role, gives cashiers less and company
\* administrators a resource too many.
Earlier ==
  [n \in DOMAIN StaticRoles \ {"CASHIER_OWNER"} |->
     CASE n = "CASHIER" -> [StaticRoles[n] EXCEPT !.TRAVEL_CASHIER = {"READ"}]
       [] n = "COMPANY_ADMIN" -> ("COMPANY" :> {"READ"}) @@ StaticRoles[n]
       [] OTHER -> StaticRoles[n]]
MCMatrix ==
  LET Totals(R) == [n \in DOMAIN R |-> Total(R[n])]
  IN 1 :> Totals(Earlier) @@ 2 :> Totals(StaticRoles)
MCGrants == {Total("COMPANY" :> {"READ"})}
=============================================================================

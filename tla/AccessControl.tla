---------------------------- MODULE AccessControl ----------------------------
(***************************************************************************)
(* Who may call which route: the permissions that @Auth asks for on the    *)
(* controller's @Resource, the guards and parameter decorators that need   *)
(* something of the caller, and the permissions the static roles are       *)
(* seeded with.  Constant tables only; RoleSeed is the machine that writes *)
(* the second into the database.                                           *)
(***************************************************************************)
Crud == {"CREATE", "READ", "UPDATE", "DELETE"}
ValidPermissions ==
  Crud \cup {"CREATE_ADMIN", "READ_ADMIN", "READ_COMPANY", "PAY", "CLOSE",
             "CONFIRM", "CANCEL", "APPROVE", "READ_CASHIERS",
             "UPDATE_CASHIERS", "READ_OWNER", "RECHARGE"}

\* What ValidResoursesForAdmins lets an administrator put in a role.
ValidResoursesForAdmins ==
  {"USER", "COMPANY", "CUSTOMER", "CASHIER", "OWNER", "BUS", "PLACES",
   "OFFICE", "ROUTE", "TRAVEL", "FILE", "PAYMENTS", "DASHBOARD",
   "COMMISSION", "TRANSACTION"}
ValidResourses ==
  (ValidResoursesForAdmins \ {"PLACES"})
    \cup {"ROL", "BANK_ACCOUNT", "PLACE", "TICKET", "BUS_CASHIER",
          "TRAVEL_CASHIER", "TICKET_CASHIER", "CUSTOMER_CASHIER",
          "ROUTES_CASHIER", "TICKET_APP", "CUSTOMER_APP", "TRAVEL_APP",
          "ROUTE_APP"}

-----------------------------------------------------------------------------
(* Routes.  A caller is a user with a role, a customer, a guest, the bank, *)
(* or nobody in particular.                                                *)

\* @Auth(needs) on a @Resource; takes: what guards and decorators look for.
Guarded(resource, needs, takes) ==
  [resource |-> resource, needs |-> needs, takes |-> takes]
\* One route for each of the permissions.
EachOf(resource, permissions, takes) ==
  {Guarded(resource, {p}, takes) : p \in permissions}
\* @Auth() asks for no permission: the RolesGuard lets everybody through.
SignedIn(takes) == Guarded("none", {}, takes)
Public == SignedIn({})

AuthController == {Public, SignedIn({"user"})}
FilesController == EachOf("FILE", {"CREATE", "READ", "DELETE"}, {}) \cup {Public}
BankAccountsController == EachOf("BANK_ACCOUNT", {"READ", "UPDATE"}, {})
BusesController == EachOf("BUS", Crud, {"company"})
BusesForCashiersController == {Guarded("BUS_CASHIER", {"READ"}, {"office"})}
CommissionsController ==
  EachOf("COMMISSION", {"CREATE_ADMIN", "READ_ADMIN"}, {})
    \cup {Guarded("COMMISSION", {"READ_COMPANY"}, {"company"})}
CompaniesController == EachOf("COMPANY", Crud, {})
CustomersController == EachOf("CUSTOMER", {"READ", "DELETE"}, {})
CustomersInAppController ==
  {SignedIn({"verified", "customer"}), SignedIn({"verified"})}
CustomersForCashiersController == EachOf("CUSTOMER_CASHIER", {"READ"}, {})
DashboardsController ==
  {Guarded("DASHBOARD", {"READ_ADMIN"}, {}),
   Guarded("DASHBOARD", {"READ_COMPANY"}, {"company"})}
OfficesController == EachOf("OFFICE", Crud, {"company"})
PlacesController ==
  EachOf("PLACE", {"CREATE", "UPDATE"}, {}) \cup {SignedIn({})}
OwnersController == EachOf("OWNER", Crud, {"company"})
PaymentsController ==
  {SignedIn({}), Guarded("PAYMENTS", {"RECHARGE"}, {}), SignedIn({"bank"})}
RolesController == EachOf("ROL", Crud \cup {"READ_CASHIERS"}, {})
RoutesController ==
  {Guarded("ROUTE", {"CREATE"}, {})}
    \cup EachOf("ROUTE", {"READ", "UPDATE", "DELETE"}, {"company"})
RoutesInAppController == {SignedIn({"reader"})}
RoutesForCashiersController ==
  {Guarded("ROUTES_CASHIER", {"READ"}, {"office"}),
   Guarded("ROUTES_CASHIER", {"READ"}, {"company"})}
SettingsController == {Public}
TicketsController == EachOf("TICKET", {"READ"}, {"company"})
TicketsInAppController == {SignedIn({"verified", "customer"})}
TicketsForCashiersController ==
  EachOf("TICKET_CASHIER", {"CREATE", "READ", "CONFIRM", "CANCEL"}, {"user"})
    \cup EachOf("TICKET_CASHIER", {"READ", "UPDATE"}, {})
TransactionsController ==
  EachOf("TRANSACTION", {"PAY", "READ"}, {})
    \cup {Guarded("TRANSACTION", {"READ"}, {"company"})}
TravelsController ==
  EachOf("TRAVEL", {"READ", "APPROVE"}, {"company"})
    \cup {Guarded("TRAVEL", {"APPROVE"}, {"company", "user"})}
TravelsInAppController == {SignedIn({"reader"})}
TravelsForCashiersController ==
  EachOf("TRAVEL_CASHIER", {"CREATE", "READ", "CANCEL"}, {"office", "user"})
    \cup {Guarded("TRAVEL_CASHIER", {"READ_OWNER"}, {"user"}),
          Guarded("TRAVEL_CASHIER", {"READ"}, {}),
          Guarded("TRAVEL_CASHIER", {"READ"}, {"company"}),
          Guarded("TRAVEL_CASHIER", {"CLOSE"}, {"user"}),
          Guarded("TRAVEL_CASHIER", {"UPDATE"}, {"office"})}
CashiersController ==
  EachOf("CASHIER", {"CREATE", "READ", "UPDATE", "READ_CASHIERS"}, {"company"})
UsersController ==
  EachOf("USER", Crud, {})
    \cup {SignedIn({"twoFactor", "user"}),
          Guarded("USER", {"UPDATE"}, {"twoFactor", "user"}),
          Guarded("USER", {"UPDATE_CASHIERS"}, {"twoFactor", "user", "company"})}

Routes ==
  UNION {AuthController, FilesController, BankAccountsController,
         BusesController, BusesForCashiersController, CommissionsController,
         CompaniesController, CustomersController, CustomersInAppController,
         CustomersForCashiersController, DashboardsController,
         OfficesController, PlacesController, OwnersController,
         PaymentsController, RolesController, RoutesController,
         RoutesInAppController, RoutesForCashiersController,
         SettingsController, TicketsController, TicketsInAppController,
         TicketsForCashiersController, TransactionsController,
         TravelsController, TravelsInAppController,
         TravelsForCashiersController, CashiersController, UsersController}

-----------------------------------------------------------------------------
(* Callers.                                                                *)

\* A cashier has an office; the super administrator names the company in the
\* query; every user of the panel can switch the second factor on.
Panel == {"user", "company", "twoFactor"}
GetOffice == [r \in {"CASHIER", "CASHIER_SELLER"} |-> Panel \cup {"office"}]
GetCompany ==
  [r \in {"SUPER_ADMIN", "COMPANY_ADMIN", "CASHIER_OWNER"} |-> Panel]
\* IsVerifyGuard, CustomerOrGuestGuard and BasicAuthGuard.
Outside == [customer |-> {"verified", "customer", "reader"},
            guest |-> {"reader"},
            bank |-> {"bank"}]

\* RolesGuard: one row of the role's permissions, for the resource, with all
\* that is needed.  "rows" is the map that the role's rows make up.
RolesGuard(rows, route) ==
  \/ route.needs = {}
  \/ \E r \in DOMAIN rows : r = route.resource /\ route.needs \subseteq rows[r]

-----------------------------------------------------------------------------
(* The static roles of the release, resource by resource.                  *)

SuperAdmin ==
  [COMPANY |-> Crud, CUSTOMER |-> Crud, OFFICE |-> Crud, OWNER |-> Crud,
   ROUTE |-> Crud, BUS |-> Crud,
   TRANSACTION |-> {"PAY", "READ"},
   DASHBOARD |-> {"READ_ADMIN", "READ_COMPANY"},
   COMMISSION |-> {"CREATE_ADMIN", "READ_ADMIN", "READ_COMPANY"},
   PAYMENTS |-> {"RECHARGE"},
   ROL |-> Crud \cup {"READ_CASHIERS"},
   USER |-> Crud \cup {"UPDATE_CASHIERS"},
   TRAVEL |-> {"READ", "APPROVE"},
   CASHIER |-> Crud \cup {"READ_CASHIERS"},
   FILE |-> {"CREATE", "READ", "DELETE"},
   BANK_ACCOUNT |-> {"READ", "UPDATE", "DELETE"},
   PLACE |-> {"CREATE", "UPDATE"},
   TICKET |-> {"READ"}]
CompanyAdmin ==
  [DASHBOARD |-> {"READ_COMPANY"}, COMMISSION |-> {"READ_COMPANY"},
   ROL |-> {"READ_CASHIERS"}, USER |-> {"UPDATE_CASHIERS"},
   OFFICE |-> Crud, OWNER |-> Crud, BUS |-> Crud, ROUTE |-> Crud,
   TRAVEL |-> {"READ", "APPROVE"}, CASHIER |-> Crud \cup {"READ_CASHIERS"},
   FILE |-> {"CREATE", "DELETE"}, TICKET |-> {"READ"}]
Cashier ==
  [BUS_CASHIER |-> {"READ"},
   TRAVEL_CASHIER |-> {"CREATE", "READ", "CANCEL", "CLOSE", "UPDATE"},
   TICKET_CASHIER |-> {"CREATE", "READ", "UPDATE", "CONFIRM", "CANCEL"},
   ROUTES_CASHIER |-> {"READ"}, CUSTOMER_CASHIER |-> {"CREATE", "READ"}]
CashierSeller ==
  [TRAVEL_CASHIER |-> {"READ"}, ROUTES_CASHIER |-> {"READ"},
   TICKET_CASHIER |-> {"CREATE", "READ", "UPDATE", "CONFIRM", "CANCEL"},
   CUSTOMER_CASHIER |-> {"CREATE", "READ"}]
CashierOwner ==
  [ROUTES_CASHIER |-> {"READ"}, TRAVEL_CASHIER |-> {"READ_OWNER"}]

StaticRoles ==
  [SUPER_ADMIN |-> SuperAdmin,
   COMPANY_ADMIN |-> CompanyAdmin,
   CASHIER |-> Cashier,
   CASHIER_SELLER |-> CashierSeller,
   CASHIER_OWNER |-> CashierOwner]
=============================================================================

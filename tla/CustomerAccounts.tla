--------------------------- MODULE CustomerAccounts ---------------------------
(***************************************************************************)
(* The account of a customer: sign-in with Google, Apple or a password, the *)
(* changes made from the application, and the deletion, which empties the  *)
(* row and frees its email.                                                *)
(*                                                                         *)
(* There is one person, with one email and one Apple identity; Apple may   *)
(* hide the email.  Handlers find a row and write to it later: a request   *)
(* is a record of the entity it holds, and save() writes all of it back    *)
(* but the session, which is not loaded.                                   *)
(***************************************************************************)
CONSTANTS
  Accounts,   \* rows of customers
  Visits,     \* requests that can be open at a time
  Nobody      \* a request that has found no account

ASSUME NobodyAssumption == Nobody \notin Accounts

VARIABLES
  customer,   \* rows
  visit,      \* open requests: the entity they hold
  erased,     \* history: accounts whose deletion was confirmed
  outlived,   \* history: requests that hold an account deleted since
  late        \* history: accounts such a request wrote to after the deletion

customerVars == <<customer, visit, erased, outlived, late>>

-----------------------------------------------------------------------------
(* Rows.                                                                   *)

\* blank: the empty string.  personal: ci, phone, birthDate, billingObject.
Entities == [state : {"none", "live", "deleted"},
             email : {"null", "blank", "own"},
             identity : {"google", "apple", "test", "deleted"},
             password : BOOLEAN, personal : BOOLEAN]
CustomerRow == [entity : Entities, session : BOOLEAN]
VisitRecord == [step : {"none", "by_email", "create", "save", "store", "end"},
                on : Accounts \cup {Nobody}, entity : Entities]

CustomersTypeOK ==
  /\ customer \in [Accounts -> CustomerRow]
  /\ visit \in [Visits -> VisitRecord]
  /\ erased \subseteq Accounts
  /\ outlived \subseteq Visits
  /\ late \subseteq Accounts

NoEntity == [state |-> "none", email |-> "null", identity |-> "google",
             password |-> FALSE, personal |-> FALSE]
NoVisit == [step |-> "none", on |-> Nobody, entity |-> NoEntity]

CustomersInit ==
  /\ customer = [a \in Accounts |-> [entity |-> NoEntity, session |-> FALSE]]
  /\ visit = [w \in Visits |-> NoVisit]
  /\ erased = {}
  /\ outlived = {}
  /\ late = {}

-----------------------------------------------------------------------------
(* Helpers.                                                                *)

Has(a, field, value) == /\ customer[a].entity.state # "none"
                        /\ customer[a].entity[field] = value
ByEmail == {a \in Accounts : Has(a, "email", "own")}
ByApple == {a \in Accounts : Has(a, "identity", "apple")}
\* The columns are unique but for null.
Taken(email, a) ==
  email # "null" /\ \E b \in Accounts \ {a} : Has(b, "email", email)

Moves(w, step, a, entity) ==
  visit' = [visit EXCEPT ![w] = [step |-> step, on |-> a, entity |-> entity]]
\* What remains is to store the session, by id.
Stores(w, a) == Moves(w, "store", a, NoEntity)
Leaves(w) == /\ visit' = [visit EXCEPT ![w] = NoVisit]
             /\ outlived' = outlived \ {w}

\* Request w writes to account a.
Writes(w, a) == late' = IF w \in outlived THEN late \cup {a} ELSE late
Reading(w, step) == /\ visit[w].step = step
                    /\ UNCHANGED <<customer, erased, outlived, late>>
\* JwtStrategy: the token of the session; deletion is not asked for.
InApp(a) == customer[a].session

-----------------------------------------------------------------------------
(* Sign-in.                                                                *)

\* googleVerify.
GoogleVerify(w) ==
  /\ Reading(w, "none")
  /\ IF ByEmail = {}
     THEN Moves(w, "create", Nobody, [NoEntity EXCEPT !.email = "own"])
     ELSE \E a \in ByEmail : Stores(w, a)

\* appleVerify: by the identity; what is missing is completed.
AppleVerify(w, email) ==
  LET Fresh == [NoEntity EXCEPT !.identity = "apple", !.email = "blank"]
  IN /\ Reading(w, "none")
     /\ IF ByApple # {}
        THEN \E a \in ByApple :
               IF customer[a].entity.email # "own" /\ email
               THEN Moves(w, "save", a,
                          [customer[a].entity EXCEPT !.email = "own"])
               ELSE Stores(w, a)
        ELSE Moves(w, IF email THEN "by_email" ELSE "create", Nobody, Fresh)

\* ... then by the email, and the account found is linked to the identity.
AppleByEmail(w) ==
  /\ Reading(w, "by_email")
  /\ IF ByEmail = {}
     THEN Moves(w, "create", Nobody, [visit[w].entity EXCEPT !.email = "own"])
     ELSE \E a \in ByEmail :
            Moves(w, "save", a, [customer[a].entity EXCEPT !.identity = "apple"])

\* registerCustomerWithPassword.
RegisterWithPassword(w) ==
  /\ Reading(w, "none")
  /\ ByEmail = {}
  /\ Moves(w, "create", Nobody, [NoEntity EXCEPT !.email = "own",
                                                 !.identity = "test",
                                                 !.password = TRUE,
                                                 !.personal = TRUE])

LoginCustomer(w) ==
  /\ Reading(w, "none")
  /\ \E a \in ByEmail : /\ customer[a].entity.password
                        /\ Stores(w, a)

\* The insert takes the next row, or fails on the email.
CreateCustomer(w) ==
  /\ visit[w].step = "create"
  /\ IF Taken(visit[w].entity.email, Nobody)
     THEN Leaves(w) /\ UNCHANGED customer
     ELSE LET row == [visit[w].entity EXCEPT !.state = "live"]
          IN \E a \in Accounts :
               /\ customer[a].entity.state = "none"
               /\ customer' = [customer EXCEPT ![a].entity = row]
               /\ Stores(w, a)
               /\ UNCHANGED outlived
  /\ UNCHANGED <<erased, late>>

StoreSession(w) ==
  LET a == visit[w].on
  IN /\ visit[w].step = "store"
     /\ customer' = [customer EXCEPT ![a].session = TRUE]
     /\ Writes(w, a)
     /\ Leaves(w)
     /\ UNCHANGED erased

-----------------------------------------------------------------------------
(* From the application, and the panel.                                    *)

\* update; deletePenalities and createBase save the entity as it is.
UpdateCustomer(w, a, personal) ==
  /\ Reading(w, "none")
  /\ InApp(a)
  /\ Moves(w, "end", a, [customer[a].entity EXCEPT !.personal = @ \/ personal])

\* save() of the entity, before a sign-in goes on or as the last step.
SaveEntity(w) ==
  LET a == visit[w].on
      entity == visit[w].entity
  IN /\ visit[w].step \in {"save", "end"}
     /\ IF Taken(entity.email, a)
        THEN Leaves(w) /\ UNCHANGED <<customer, late>>
        ELSE /\ customer' = [customer EXCEPT ![a].entity = entity]
             /\ Writes(w, a)
             /\ IF visit[w].step = "save"
                THEN Stores(w, a) /\ UNCHANGED outlived
                ELSE Leaves(w)
     /\ UNCHANGED erased

LogoutCustomer(a) ==
  /\ InApp(a)
  /\ customer' = [customer EXCEPT ![a].session = FALSE]
  /\ UNCHANGED <<visit, erased, outlived, late>>

\* Mutant: the deleted row keeps the identity of its provider.
Recognised(a) == [customer[a].entity EXCEPT !.state = "deleted",
                                            !.email = "null",
                                            !.password = FALSE,
                                            !.personal = FALSE]

Anonymous(a) == [customer[a].entity EXCEPT !.state = "deleted",
                                           !.email = "null",
                                           !.identity = "deleted",
                                           !.password = FALSE,
                                           !.personal = FALSE]

\* remove, by the customer or by an administrator.
DeleteCustomer(a) ==
  /\ customer[a].entity.state = "live"
  /\ customer' = [customer EXCEPT ![a] = [entity |-> Anonymous(a),
                                          session |-> FALSE]]
  /\ erased' = erased \cup {a}
  /\ outlived' = outlived \cup {w \in Visits : visit[w].on = a}
  /\ late' = late \ {a}
  /\ UNCHANGED visit

CustomersCrash ==
  /\ \E w \in Visits : visit[w].step # "none"
  /\ visit' = [w \in Visits |-> NoVisit]
  /\ outlived' = {}
  /\ UNCHANGED <<customer, erased, late>>

CustomersNext ==
  \/ \E w \in Visits : GoogleVerify(w)
  \/ \E w \in Visits, email \in BOOLEAN : AppleVerify(w, email)
  \/ \E w \in Visits : AppleByEmail(w)
  \/ \E w \in Visits : RegisterWithPassword(w)
  \/ \E w \in Visits : LoginCustomer(w)
  \/ \E w \in Visits : CreateCustomer(w)
  \/ \E w \in Visits : StoreSession(w)
  \/ \E w \in Visits, a \in Accounts, p \in BOOLEAN : UpdateCustomer(w, a, p)
  \/ \E w \in Visits : SaveEntity(w)
  \/ \E a \in Accounts : LogoutCustomer(a)
  \/ \E a \in Accounts : DeleteCustomer(a)
  \/ CustomersCrash

CustomersSpec == CustomersInit /\ [][CustomersNext]_customerVars

-----------------------------------------------------------------------------
(* Properties.                                                             *)

\* Signing in again with Google, Apple or a password, before, during or after
\* a deletion, opens another account: what a deletion emptied has no email, no
\* password, no personal data and no session, unless a request that held the
\* account before its deletion wrote to it afterwards (remove; save() of the
\* entity; the session stored by id).
DeletedAccountStaysEmpty ==
  \A a \in erased \ late : /\ customer[a].entity.state = "deleted"
                           /\ customer[a].entity.email = "null"
                           /\ ~customer[a].entity.password
                           /\ ~customer[a].entity.personal
                           /\ ~customer[a].session

-----------------------------------------------------------------------------
(* The inductive invariant.                                                *)

\* A deleted account is known to no provider, and to the requests only that
\* held it before.
Forgotten ==
  \A a \in erased \ late :
    /\ customer[a].entity.identity = "deleted"
    /\ \A w \in Visits : visit[w].on = a => w \in outlived

\* A request that looks for an account or makes one holds none.
HoldsAccount ==
  \A w \in Visits :
    IF visit[w].step \in {"save", "store", "end"} THEN visit[w].on \in Accounts
    ELSE visit[w].on = Nobody

CustomersInv ==
  /\ CustomersTypeOK
  /\ HoldsAccount
  /\ Forgotten
  /\ DeletedAccountStaysEmpty
=============================================================================

---------------------------- MODULE Administration ----------------------------
(***************************************************************************)
(* What the panel keeps about a company: its offices with their cashiers   *)
(* and routes, its owners with their buses, and the order in which they    *)
(* are disabled.  Nothing is deleted, and only an owner is enabled again.  *)
(*                                                                         *)
(* A request is one step: administrators act one after another.  Travels   *)
(* are followed as far as they keep a bus, an office, a route or a cashier *)
(* from being disabled.                                                    *)
(***************************************************************************)

CONSTANTS
  Companies,
  Offices,
  Owners,
  Buses,
  Cashiers,
  Routelines,   \* routes
  Trips,        \* travels
  Nothing

ASSUME NothingAssumption ==
  /\ Nothing \notin Companies
  /\ Nothing \notin Offices
  /\ Nothing \notin Owners

VARIABLES
  company,   \* companies, with the administrator made with each
  office,
  owner,     \* owners, with their CompanyOwner and their user
  bus,
  cashier,   \* users with the role CASHIER (main) or CASHIER_SELLER
  line,      \* routes
  trip       \* travels

adminVars == <<company, office, owner, bus, cashier, line, trip>>

-----------------------------------------------------------------------------
(* Rows.                                                                   *)

Status == {"none", "enabled", "disabled"}
OfficeRow == [status : Status, of : Companies \cup {Nothing}]
OwnerRow == [status : Status, of : Companies \cup {Nothing},
             link : BOOLEAN, user : BOOLEAN]
BusRow == [status : Status, of : Companies \cup {Nothing},
           owner : Owners \cup {Nothing}]
CashierRow == [status : Status, at : Offices \cup {Nothing}, main : BOOLEAN]
RouteRow == [status : Status, from : Offices \cup {Nothing},
             to : Offices \cup {Nothing}]
\* open: pending approval or active; under_way: closed before its arrival;
\* over: closed and arrived, or rejected.
TripRow == [status : {"none", "open", "under_way", "cancelled", "over"},
            bus : Buses \cup {Nothing}, line : Routelines \cup {Nothing},
            by : Cashiers \cup {Nothing}]

AdminTypeOK ==
  /\ company \in [Companies -> Status]
  /\ office \in [Offices -> OfficeRow]
  /\ owner \in [Owners -> OwnerRow]
  /\ bus \in [Buses -> BusRow]
  /\ cashier \in [Cashiers -> CashierRow]
  /\ line \in [Routelines -> RouteRow]
  /\ trip \in [Trips -> TripRow]

AdminInit ==
  /\ company = [c \in Companies |-> "none"]
  /\ office = [o \in Offices |-> [status |-> "none", of |-> Nothing]]
  /\ owner = [w \in Owners |-> [status |-> "none", of |-> Nothing,
                                link |-> FALSE, user |-> FALSE]]
  /\ bus = [b \in Buses |-> [status |-> "none", of |-> Nothing,
                             owner |-> Nothing]]
  /\ cashier = [k \in Cashiers |-> [status |-> "none", at |-> Nothing,
                                    main |-> FALSE]]
  /\ line = [r \in Routelines |-> [status |-> "none", from |-> Nothing,
                                   to |-> Nothing]]
  /\ trip = [t \in Trips |-> [status |-> "none", bus |-> Nothing,
                              line |-> Nothing, by |-> Nothing]]

-----------------------------------------------------------------------------
(* Helpers.                                                                *)

Enabled(x) == x.status = "enabled"
Disabled(table, X) ==
  [x \in DOMAIN table |-> IF x \in X THEN [table[x] EXCEPT !.status = "disabled"]
                          ELSE table[x]]
OfficesOf(c) == {o \in Offices : office[o].of = c}
CashiersAt(O) == {k \in Cashiers : cashier[k].at \in O}
EndsOf(r) == {line[r].from, line[r].to}
LinesOf(O) == {r \in Routelines : EndsOf(r) \cap O # {}}
MainAt(o) == {k \in CashiersAt({o}) : Enabled(cashier[k]) /\ cashier[k].main}

\* Not(In([CLOSED, REJECTED])): a cancelled travel counts.
HeldLines == {trip[t].line : t \in {u \in Trips : trip[u].status \in
                                                     {"open", "cancelled"}}}
\* Mutant: the bus of a closed travel is let go before it arrives.
OpenBuses == {trip[t].bus : t \in {u \in Trips : trip[u].status = "open"}}

\* bus.remove lets a cancelled travel go, and waits for the arrival.
HeldBuses == {trip[t].bus : t \in {u \in Trips : trip[u].status \in
                                                    {"open", "under_way"}}}
\* users.remove.
HeldCashiers == {trip[t].by : t \in {u \in Trips : trip[u].status \in
                                                      {"open", "cancelled"}}}

-----------------------------------------------------------------------------
(* Companies and offices.                                                  *)

CreateCompany(c) ==
  /\ company[c] = "none"
  /\ company' = [company EXCEPT ![c] = "enabled"]
  /\ UNCHANGED <<office, owner, bus, cashier, line, trip>>

NoEnabledOwner(c) ==
  \A w \in Owners : owner[w].of = c /\ owner[w].link => ~Enabled(owner[w])

\* remove: routes, offices, cashiers, buses, links and users go with it.
RemoveCompany(c) ==
  /\ company[c] = "enabled"
  /\ NoEnabledOwner(c)
  /\ company' = [company EXCEPT ![c] = "disabled"]
  /\ line' = Disabled(line, LinesOf(OfficesOf(c)))
  /\ office' = Disabled(office, OfficesOf(c))
  /\ cashier' = Disabled(cashier, CashiersAt(OfficesOf(c)))
  /\ bus' = Disabled(bus, {b \in Buses : bus[b].of = c})
  /\ owner' = [w \in Owners |-> IF owner[w].of = c
                                THEN [owner[w] EXCEPT !.link = FALSE,
                                                      !.user = FALSE]
                                ELSE owner[w]]
  /\ UNCHANGED trip

\* The company is the caller's, or any that a super administrator names.
CreateOffice(o, c) ==
  /\ company[c] # "none"
  /\ office[o].status = "none"
  /\ office' = [office EXCEPT ![o] = [status |-> "enabled", of |-> c]]
  /\ UNCHANGED <<company, owner, bus, cashier, line, trip>>

\* Mutant: an office is disabled although cashiers work in it.
NobodyMinds(o) == TRUE

NoEnabledCashier(o) == \A k \in CashiersAt({o}) : ~Enabled(cashier[k])

RemoveOffice(o) ==
  /\ Enabled(office[o])
  /\ NoEnabledCashier(o)
  /\ LinesOf({o}) \cap HeldLines = {}
  /\ office' = Disabled(office, {o})
  /\ line' = Disabled(line, LinesOf({o}))
  /\ UNCHANGED <<company, owner, bus, cashier, trip>>

CreateRoute(r, from, to) ==
  /\ line[r].status = "none"
  /\ from # to
  /\ Enabled(office[from])
  /\ Enabled(office[to])
  /\ line' = [line EXCEPT ![r] = [status |-> "enabled", from |-> from,
                                  to |-> to]]
  /\ UNCHANGED <<company, office, owner, bus, cashier, trip>>

RemoveRoute(r) ==
  /\ Enabled(line[r])
  /\ r \notin HeldLines
  /\ line' = Disabled(line, {r})
  /\ UNCHANGED <<company, office, owner, bus, cashier, trip>>

-----------------------------------------------------------------------------
(* Cashiers.                                                               *)

CreateCashier(k, o, main) ==
  /\ cashier[k].status = "none"
  /\ Enabled(office[o])
  /\ main => MainAt(o) = {}
  /\ cashier' = [cashier EXCEPT ![k] = [status |-> "enabled", at |-> o,
                                        main |-> main]]
  /\ UNCHANGED <<company, office, owner, bus, line, trip>>

\* createAppAdmin takes any role: a cashier of no office and no company.
CreateAppAdmin(k, main) ==
  /\ cashier[k].status = "none"
  /\ cashier' = [cashier EXCEPT ![k] = [status |-> "enabled", at |-> Nothing,
                                        main |-> main]]
  /\ UNCHANGED <<company, office, owner, bus, line, trip>>

\* findOneCashier: enabled, and of the caller's company.
Employed(k) == Enabled(cashier[k]) /\ cashier[k].at # Nothing

\* updateCashiers: between the two roles, without a look at the office.
UpdateCashier(k, main) ==
  /\ Employed(k)
  /\ cashier' = [cashier EXCEPT ![k].main = main]
  /\ UNCHANGED <<company, office, owner, bus, line, trip>>

\* updateOffice: a main cashier, to another office of the company.
MoveCashier(k, o) ==
  /\ Employed(k)
  /\ cashier[k].main
  /\ Enabled(office[o])
  /\ office[o].of = office[cashier[k].at].of
  /\ cashier' = [cashier EXCEPT ![k].at = o]
  /\ UNCHANGED <<company, office, owner, bus, line, trip>>

RemoveCashier(k) ==
  /\ Enabled(cashier[k])
  /\ k \notin HeldCashiers
  /\ cashier' = Disabled(cashier, {k})
  /\ UNCHANGED <<company, office, owner, bus, line, trip>>

-----------------------------------------------------------------------------
(* Owners and buses.                                                       *)

CreateOwner(w, c) ==
  /\ company[c] # "none"
  /\ owner[w].status = "none"
  /\ owner' = [owner EXCEPT ![w] = [status |-> "enabled", of |-> c,
                                    link |-> TRUE, user |-> TRUE]]
  /\ UNCHANGED <<company, office, bus, cashier, line, trip>>

\* create, for an owner of the company that was disabled: its user is found
\* and left as it is.
ReviveOwner(w) ==
  /\ owner[w].status = "disabled"
  /\ owner' = [owner EXCEPT ![w].status = "enabled", ![w].link = TRUE]
  /\ UNCHANGED <<company, office, bus, cashier, line, trip>>

NoEnabledBus(w) ==
  \A b \in Buses : bus[b].owner = w /\ bus[b].of = owner[w].of
                     => ~Enabled(bus[b])

RemoveOwner(w) ==
  /\ Enabled(owner[w])
  /\ owner[w].link
  /\ NoEnabledBus(w)
  /\ owner' = [owner EXCEPT ![w].status = "disabled", ![w].link = FALSE,
                            ![w].user = FALSE]
  /\ UNCHANGED <<company, office, bus, cashier, line, trip>>

CreateBus(b, w) ==
  /\ bus[b].status = "none"
  /\ Enabled(owner[w])
  /\ owner[w].link
  /\ bus' = [bus EXCEPT ![b] = [status |-> "enabled", of |-> owner[w].of,
                                owner |-> w]]
  /\ UNCHANGED <<company, office, owner, cashier, line, trip>>

RemoveBus(b) ==
  /\ Enabled(bus[b])
  /\ b \notin HeldBuses
  /\ bus' = Disabled(bus, {b})
  /\ UNCHANGED <<company, office, owner, cashier, line, trip>>

-----------------------------------------------------------------------------
(* Travels.                                                                *)

\* A bus of the cashier's company; the route may be anybody's.  A cashier
\* without an office is refused.
CreateTrip(t, b, r, k) ==
  /\ trip[t].status = "none"
  /\ Employed(k)
  /\ Enabled(line[r])
  /\ Enabled(bus[b])
  /\ bus[b].of = office[cashier[k].at].of
  /\ trip' = [trip EXCEPT ![t] = [status |-> "open", bus |-> b, line |-> r,
                                  by |-> k]]
  /\ UNCHANGED <<company, office, owner, bus, cashier, line>>

\* The close, cancellation or rejection of an open travel.
EndTrip(t, status) ==
  /\ trip[t].status = "open"
  /\ trip' = [trip EXCEPT ![t].status = status]
  /\ UNCHANGED <<company, office, owner, bus, cashier, line>>

Arrive(t) ==
  /\ trip[t].status = "under_way"
  /\ trip' = [trip EXCEPT ![t].status = "over"]
  /\ UNCHANGED <<company, office, owner, bus, cashier, line>>

AdminNext ==
  \/ \E c \in Companies : CreateCompany(c)
  \/ \E c \in Companies : RemoveCompany(c)
  \/ \E o \in Offices, c \in Companies : CreateOffice(o, c)
  \/ \E o \in Offices : RemoveOffice(o)
  \/ \E r \in Routelines, from, to \in Offices : CreateRoute(r, from, to)
  \/ \E r \in Routelines : RemoveRoute(r)
  \/ \E k \in Cashiers, o \in Offices, m \in BOOLEAN : CreateCashier(k, o, m)
  \/ \E k \in Cashiers, m \in BOOLEAN : CreateAppAdmin(k, m)
  \/ \E k \in Cashiers, m \in BOOLEAN : UpdateCashier(k, m)
  \/ \E k \in Cashiers, o \in Offices : MoveCashier(k, o)
  \/ \E k \in Cashiers : RemoveCashier(k)
  \/ \E w \in Owners, c \in Companies : CreateOwner(w, c)
  \/ \E w \in Owners : ReviveOwner(w)
  \/ \E w \in Owners : RemoveOwner(w)
  \/ \E b \in Buses, w \in Owners : CreateBus(b, w)
  \/ \E b \in Buses : RemoveBus(b)
  \/ \E t \in Trips, b \in Buses, r \in Routelines, k \in Cashiers :
       CreateTrip(t, b, r, k)
  \/ \E t \in Trips, s \in {"under_way", "cancelled", "over"} : EndTrip(t, s)
  \/ \E t \in Trips : Arrive(t)

AdminSpec == AdminInit /\ [][AdminNext]_adminVars

-----------------------------------------------------------------------------
(* Properties.                                                             *)

\* In whatever order administrators create, move, disable and revive: an
\* enabled cashier that has an office has an enabled one, an enabled route
\* joins two enabled offices, and an enabled bus has an enabled owner that
\* belongs to the bus's company (the checks of each create and the cascades and refusals
\* of each remove, spread over five services).
EnabledHangsFromEnabled ==
  /\ \A k \in Cashiers : Employed(k) => Enabled(office[cashier[k].at])
  /\ \A r \in Routelines : Enabled(line[r]) =>
       /\ Enabled(office[line[r].from])
       /\ Enabled(office[line[r].to])
  /\ \A b \in Buses : Enabled(bus[b]) =>
       /\ Enabled(owner[bus[b].owner])
       /\ owner[bus[b].owner].link
       /\ owner[bus[b].owner].of = bus[b].of

\* A travel that is not over keeps its bus: the bus is not removed, so its
\* owner is not, so the company is not.  It keeps its route too while it is
\* open, unless the company at one end of it, not the travel's own, was
\* removed (bus.remove, owner.remove, office.remove, route.remove and
\* company.remove each look one link up the chain).
OpenTravelsKeepTheirs ==
  \A t \in Trips :
    LET b == trip[t].bus
        r == trip[t].line
        Removed == {c \in Companies : company[c] = "disabled"}
    IN /\ trip[t].status \in {"open", "under_way"} => Enabled(bus[b])
       /\ trip[t].status = "open" =>
            \/ Enabled(line[r])
            \/ \E o \in EndsOf(r) : office[o].of \in Removed \ {bus[b].of}

-----------------------------------------------------------------------------
(* The inductive invariant.                                                *)

Made(x) == x.status # "none"

MadeOffices == {o \in Offices : Made(office[o])}

\* A row that was made names rows that were made, but for cashiers that have
\* no office; another row names nothing.
LinksMade ==
  /\ \A k \in Cashiers : /\ cashier[k].at \in MadeOffices \cup {Nothing}
                         /\ ~Made(cashier[k]) => cashier[k].at = Nothing
  /\ \A r \in Routelines : IF Made(line[r])
                           THEN /\ line[r].from \in MadeOffices
                                /\ line[r].to \in MadeOffices
                           ELSE line[r].from = Nothing /\ line[r].to = Nothing
  /\ \A b \in Buses : IF Made(bus[b])
                      THEN bus[b].owner \in {w \in Owners : Made(owner[w])}
                      ELSE bus[b].of = Nothing
  /\ \A t \in Trips : Made(trip[t]) =>
       /\ trip[t].bus \in {b \in Buses : Made(bus[b])}
       /\ trip[t].line \in {r \in Routelines : Made(line[r])}

AdminInv ==
  /\ AdminTypeOK
  /\ LinksMade
  /\ EnabledHangsFromEnabled
  /\ OpenTravelsKeepTheirs
=============================================================================

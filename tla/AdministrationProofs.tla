------------------------ MODULE AdministrationProofs ------------------------
(***************************************************************************)
(* What administrators do to a company's rows leaves no enabled row under  *)
(* a disabled one and no open travel without its bus, for any number of    *)
(* companies, offices, owners, buses, cashiers, routes and travels.        *)
(***************************************************************************)
EXTENDS Administration, TLAPS

\* A row stays one when a field of it is written.
LEMMA RowsStay ==
  /\ \A row \in OfficeRow : [row EXCEPT !.status = "disabled"] \in OfficeRow
  /\ \A row \in BusRow : [row EXCEPT !.status = "disabled"] \in BusRow
  /\ \A row \in RouteRow : [row EXCEPT !.status = "disabled"] \in RouteRow
  /\ \A row \in CashierRow :
       /\ [row EXCEPT !.status = "disabled"] \in CashierRow
       /\ \A m \in BOOLEAN : [row EXCEPT !.main = m] \in CashierRow
       /\ \A o \in Offices : [row EXCEPT !.at = o] \in CashierRow
  /\ \A row \in OwnerRow :
       /\ [row EXCEPT !.link = FALSE, !.user = FALSE] \in OwnerRow
       /\ [row EXCEPT !.status = "enabled", !.link = TRUE] \in OwnerRow
       /\ [row EXCEPT !.status = "disabled", !.link = FALSE, !.user = FALSE]
            \in OwnerRow
  /\ \A row \in TripRow, s \in {"under_way", "cancelled", "over"} :
       [row EXCEPT !.status = s] \in TripRow
BY DEF OfficeRow, BusRow, RouteRow, CashierRow, OwnerRow, TripRow, Status

\* What is left of a table when the rows of X are disabled.
LEMMA DisabledOffices ==
  ASSUME AdminTypeOK, NEW X, office' = Disabled(office, X)
  PROVE  /\ office' \in [Offices -> OfficeRow]
         /\ \A x \in Offices :
              /\ office'[x].of = office[x].of
              /\ office'[x].status =
                   IF x \in X THEN "disabled" ELSE office[x].status
<1>1. office' \in [Offices -> OfficeRow]
  BY RowsStay DEF AdminTypeOK, Disabled
<1> QED
  BY <1>1 DEF AdminTypeOK, Disabled, OfficeRow

\* Disabling a set of buses leaves the other columns and rows alone.
LEMMA DisabledBuses ==
  ASSUME AdminTypeOK, NEW X, bus' = Disabled(bus, X)
  PROVE  /\ bus' \in [Buses -> BusRow]
         /\ \A x \in Buses :
              /\ bus'[x].of = bus[x].of
              /\ bus'[x].owner = bus[x].owner
              /\ bus'[x].status =
                   IF x \in X THEN "disabled" ELSE bus[x].status
<1>1. bus' \in [Buses -> BusRow]
  BY RowsStay DEF AdminTypeOK, Disabled
<1> QED
  BY <1>1 DEF AdminTypeOK, Disabled, BusRow

\* So does disabling cashiers.
LEMMA DisabledCashiers ==
  ASSUME AdminTypeOK, NEW X, cashier' = Disabled(cashier, X)
  PROVE  /\ cashier' \in [Cashiers -> CashierRow]
         /\ \A x \in Cashiers :
              /\ cashier'[x].at = cashier[x].at
              /\ cashier'[x].status =
                   IF x \in X THEN "disabled" ELSE cashier[x].status
<1>1. cashier' \in [Cashiers -> CashierRow]
  BY RowsStay DEF AdminTypeOK, Disabled
<1> QED
  BY <1>1 DEF AdminTypeOK, Disabled, CashierRow

\* So does disabling routes.
LEMMA DisabledRoutes ==
  ASSUME AdminTypeOK, NEW X, line' = Disabled(line, X)
  PROVE  /\ line' \in [Routelines -> RouteRow]
         /\ \A x \in Routelines :
              /\ line'[x].from = line[x].from
              /\ line'[x].to = line[x].to
              /\ line'[x].status =
                   IF x \in X THEN "disabled" ELSE line[x].status
<1>1. line' \in [Routelines -> RouteRow]
  BY RowsStay DEF AdminTypeOK, Disabled
<1> QED
  BY <1>1 DEF AdminTypeOK, Disabled, RouteRow

\* A travel keeps what it needs through a step on other tables, if its bus
\* stays enabled, and its route does or an end of it goes with a company.
LEMMA TravelsKeep ==
  ASSUME AdminInv, trip' = trip,
         \A c \in Companies : company[c] = "disabled" => company'[c] = "disabled",
         \A o \in Offices : Made(office[o]) => office'[o].of = office[o].of,
         \A b \in Buses : Made(bus[b]) => bus'[b].of = bus[b].of,
         \A r \in Routelines : Made(line[r]) =>
           line'[r].from = line[r].from /\ line'[r].to = line[r].to,
         \A t \in Trips : trip[t].status \in {"open", "under_way"} =>
                            Enabled(bus'[trip[t].bus]),
         \A t \in Trips :
           trip[t].status = "open" /\ Enabled(line[trip[t].line]) =>
             \/ Enabled(line'[trip[t].line])
             \/ \E o \in EndsOf(trip[t].line) :
                  office[o].of \in {c \in Companies : company'[c] = "disabled"}
                                     \ {bus[trip[t].bus].of}
  PROVE  OpenTravelsKeepTheirs'
<1> SUFFICES ASSUME NEW t \in Trips
             PROVE  /\ trip[t].status \in {"open", "under_way"} =>
                         Enabled(bus'[trip[t].bus])
                    /\ trip[t].status = "open" =>
                         \/ Enabled(line'[trip[t].line])
                         \/ \E o \in {line'[trip[t].line].from,
                                     line'[trip[t].line].to} :
                              office'[o].of \in
                                {c \in Companies : company'[c] = "disabled"}
                                  \ {bus'[trip[t].bus].of}
  BY DEF OpenTravelsKeepTheirs, Enabled, EndsOf
<1>1. ASSUME trip[t].status = "open"
      PROVE  /\ Made(bus[trip[t].bus]) /\ trip[t].bus \in Buses
             /\ Made(line[trip[t].line]) /\ trip[t].line \in Routelines
             /\ \A o \in EndsOf(trip[t].line) : o \in Offices /\ Made(office[o])
  BY <1>1 DEF AdminInv, AdminTypeOK, LinksMade, MadeOffices, Made, EndsOf
<1>2. ASSUME trip[t].status = "open", ~Enabled(line'[trip[t].line])
      PROVE  \E o \in EndsOf(trip[t].line) :
               office[o].of \in {c \in Companies : company'[c] = "disabled"}
                                  \ {bus[trip[t].bus].of}
  BY <1>2 DEF AdminInv, OpenTravelsKeepTheirs
<1>3. ASSUME trip[t].status = "open", ~Enabled(line'[trip[t].line])
      PROVE  \E o \in {line'[trip[t].line].from, line'[trip[t].line].to} :
               office'[o].of \in {c \in Companies : company'[c] = "disabled"}
                                   \ {bus'[trip[t].bus].of}
  <2>1. PICK o \in EndsOf(trip[t].line) :
          office[o].of \in {c \in Companies : company'[c] = "disabled"}
                             \ {bus[trip[t].bus].of}
    BY <1>2, <1>3
  <2>2. office'[o].of = office[o].of
    BY <1>1, <1>3
  <2>3. bus'[trip[t].bus].of = bus[trip[t].bus].of
    BY <1>1, <1>3
  <2>4. o \in {line'[trip[t].line].from, line'[trip[t].line].to}
    BY <1>1, <1>3 DEF EndsOf
  <2> QED BY <2>1, <2>2, <2>3, <2>4
<1> QED
  BY <1>3

\* So it does through a step that leaves the rows that were made as they are.
LEMMA TravelsUndisturbed ==
  ASSUME AdminInv, trip' = trip,
         \A c \in Companies : company[c] = "disabled" => company'[c] = "disabled",
         \A o \in Offices : Made(office[o]) => office'[o] = office[o],
         \A b \in Buses : Made(bus[b]) => bus'[b] = bus[b],
         \A r \in Routelines : Made(line[r]) => line'[r] = line[r]
  PROVE  OpenTravelsKeepTheirs'
<1>1. \A t \in Trips : trip[t].status \in {"open", "under_way"} =>
        /\ Enabled(bus'[trip[t].bus])
        /\ line'[trip[t].line] = line[trip[t].line]
  BY DEF AdminInv, LinksMade, OpenTravelsKeepTheirs, Made
<1> QED
  BY <1>1, TravelsKeep

\* A travel that ends keeps its rows, and the others are as they were.
LEMMA TripMoved ==
  ASSUME AdminInv, NEW t \in Trips, Made(trip[t]),
         NEW s \in {"under_way", "cancelled", "over"},
         s = "under_way" => trip[t].status = "open",
         trip' = [trip EXCEPT ![t].status = s],
         UNCHANGED <<company, office, owner, bus, cashier, line>>
  PROVE  AdminInv'
<1>1. [trip[t] EXCEPT !.status = s] \in TripRow
  BY RowsStay DEF AdminInv, AdminTypeOK
<1>2. AdminTypeOK'
  BY <1>1 DEF AdminInv, AdminTypeOK
<1>3. \A u \in Trips : /\ trip'[u].bus = trip[u].bus
                       /\ trip'[u].line = trip[u].line
                       /\ trip'[u].status = IF u = t THEN s ELSE trip[u].status
  BY DEF AdminInv, AdminTypeOK, TripRow
<1>4. MadeOffices' = MadeOffices
  BY DEF MadeOffices
<1>5. \A u \in Trips : Made(trip'[u]) => Made(trip[u])
  BY <1>3 DEF Made
<1>6. LinksMade'
  <2> HIDE DEF Made, MadeOffices
  <2> QED
    BY <1>3, <1>4, <1>5 DEF AdminInv, LinksMade
<1>7. EnabledHangsFromEnabled'
  BY DEF AdminInv, EnabledHangsFromEnabled, Employed
<1>8. \A u \in Trips :
        /\ trip'[u].status = "open" => trip[u].status = "open"
        /\ trip'[u].status = "under_way"
             => trip[u].status \in {"open", "under_way"}
  BY <1>3
<1>9. OpenTravelsKeepTheirs'
  <2>1. ASSUME NEW u \in Trips
        PROVE  /\ trip'[u].status \in {"open", "under_way"} =>
                    Enabled(bus[trip'[u].bus])
               /\ trip'[u].status = "open" =>
                    \/ Enabled(line[trip'[u].line])
                    \/ \E o \in EndsOf(trip'[u].line) :
                         office[o].of \in
                           {c \in Companies : company[c] = "disabled"}
                             \ {bus[trip'[u].bus].of}
    <3>1. trip'[u].bus = trip[u].bus /\ trip'[u].line = trip[u].line
      BY <1>3
    <3> QED
      BY <1>8, <3>1 DEF AdminInv, OpenTravelsKeepTheirs
  <2> QED
    BY <2>1 DEF OpenTravelsKeepTheirs, Enabled, EndsOf
<1> QED
  BY <1>2, <1>6, <1>7, <1>9 DEF AdminInv

\* AdminInv is inductive: one step of the proof per request.
THEOREM AdministrationInvariant == AdminSpec => []AdminInv
<1>1. AdminInit => AdminInv
  BY DEF AdminInit, AdminInv, AdminTypeOK, LinksMade, MadeOffices,
             EnabledHangsFromEnabled,
         OpenTravelsKeepTheirs, OfficeRow, OwnerRow, BusRow, CashierRow,
         RouteRow, TripRow, Status, Enabled, Employed, Made, EndsOf
<1>2. ASSUME AdminInv, [AdminNext]_adminVars
      PROVE  AdminInv'
  <2> USE <1>2 DEF AdminInv, Enabled, Employed, Made, EndsOf
  <2>1. ASSUME NEW c \in Companies, CreateCompany(c)
        PROVE  AdminInv'
    <3>1. AdminTypeOK'
      BY <2>1 DEF CreateCompany, AdminTypeOK, Status
    <3>2. LinksMade'
      BY <2>1 DEF CreateCompany, AdminTypeOK, LinksMade, MadeOffices
    <3>3. EnabledHangsFromEnabled'
      BY <2>1 DEF CreateCompany, EnabledHangsFromEnabled
    <3>4. OpenTravelsKeepTheirs'
      <4>1. trip' = trip
        BY <2>1 DEF CreateCompany
      <4>2. \A x \in Companies : company[x] = "disabled" => company'[x] = "disabled"
        BY <2>1 DEF CreateCompany, AdminTypeOK
      <4>3. \A x \in Offices : Made(office[x]) => office'[x] = office[x]
        BY <2>1 DEF CreateCompany, AdminTypeOK
      <4>4. \A x \in Buses : Made(bus[x]) => bus'[x] = bus[x]
        BY <2>1 DEF CreateCompany, AdminTypeOK
      <4>5. \A x \in Routelines : Made(line[x]) => line'[x] = line[x]
        BY <2>1 DEF CreateCompany, AdminTypeOK
      <4> QED BY <4>1, <4>2, <4>3, <4>4, <4>5, TravelsUndisturbed
    <3> QED BY <3>1, <3>2, <3>3, <3>4
  <2>2. ASSUME NEW c \in Companies, RemoveCompany(c)
        PROVE  AdminInv'
    <3>1. /\ office' = Disabled(office, OfficesOf(c))
          /\ line' = Disabled(line, LinesOf(OfficesOf(c)))
          /\ cashier' = Disabled(cashier, CashiersAt(OfficesOf(c)))
          /\ bus' = Disabled(bus, {b \in Buses : bus[b].of = c})
          /\ trip' = trip
          /\ company' = [company EXCEPT ![c] = "disabled"]
          /\ NoEnabledOwner(c)
      BY <2>2 DEF RemoveCompany
    <3>2. /\ owner' \in [Owners -> OwnerRow]
          /\ \A w \in Owners :
               /\ owner'[w].of = owner[w].of
               /\ owner'[w].status = owner[w].status
               /\ owner[w].of # c => owner'[w].link = owner[w].link
      BY <2>2, RowsStay DEF RemoveCompany, AdminTypeOK, OwnerRow
    <3>3. AdminTypeOK'
      BY <3>1, <3>2, DisabledOffices, DisabledRoutes, DisabledCashiers,
         DisabledBuses DEF AdminTypeOK, Status
    <3>4. \A o \in Offices :
            /\ office'[o].of = office[o].of
            /\ office'[o].status = IF office[o].of = c THEN "disabled"
                                   ELSE office[o].status
      BY <3>1, DisabledOffices DEF OfficesOf
    <3>5. \A b \in Buses :
            /\ bus'[b].of = bus[b].of
            /\ bus'[b].owner = bus[b].owner
            /\ bus'[b].status = IF bus[b].of = c THEN "disabled"
                                ELSE bus[b].status
      BY <3>1, DisabledBuses
    <3>6. \A r \in Routelines :
            /\ line'[r].from = line[r].from
            /\ line'[r].to = line[r].to
            /\ line'[r].status = IF {line[r].from, line[r].to} \cap OfficesOf(c) # {}
                                 THEN "disabled" ELSE line[r].status
      BY <3>1, DisabledRoutes DEF LinesOf
    <3>7. \A k \in Cashiers :
            /\ cashier'[k].at = cashier[k].at
            /\ cashier'[k].status = IF cashier[k].at \in OfficesOf(c)
                                    THEN "disabled" ELSE cashier[k].status
      BY <3>1, DisabledCashiers DEF CashiersAt
    <3>8. /\ \A o \in Offices : Made(office[o]) => Made(office'[o])
          /\ \A b \in Buses : Made(bus'[b]) <=> Made(bus[b])
      BY <3>4, <3>5, NothingAssumption DEF LinksMade
    <3>9. /\ \A r \in Routelines : Made(line'[r]) <=> Made(line[r])
          /\ \A k \in Cashiers : Made(cashier'[k]) <=> Made(cashier[k])
      BY <3>6, <3>7, NothingAssumption DEF LinksMade, OfficesOf
    <3>10. LinksMade'
      <4>1. MadeOffices \subseteq MadeOffices'
        BY <3>8 DEF MadeOffices
      <4> QED
        BY <3>1, <3>2, <3>5, <3>6, <3>7, <3>8, <3>9, <4>1 DEF LinksMade
    <3>11. EnabledHangsFromEnabled'
      <4>1. \A k \in Cashiers : Employed(k)' =>
              Enabled(office'[cashier'[k].at])
        BY <3>4, <3>7 DEF EnabledHangsFromEnabled, OfficesOf, LinksMade,
                          MadeOffices
      <4>2. \A r \in Routelines : Enabled(line'[r]) =>
              Enabled(office'[line'[r].from]) /\ Enabled(office'[line'[r].to])
        BY <3>4, <3>6 DEF EnabledHangsFromEnabled, OfficesOf, LinksMade,
                          MadeOffices, EndsOf
      <4>3. \A b \in Buses : Enabled(bus'[b]) =>
              /\ Enabled(owner'[bus'[b].owner])
              /\ owner'[bus'[b].owner].link
              /\ owner'[bus'[b].owner].of = bus'[b].of
        BY <3>2, <3>5 DEF EnabledHangsFromEnabled, LinksMade
      <4> QED BY <4>1, <4>2, <4>3 DEF EnabledHangsFromEnabled, EndsOf
    <3>12. \A b \in Buses : Enabled(bus[b]) => bus[b].of # c
      BY <3>1 DEF EnabledHangsFromEnabled, NoEnabledOwner, LinksMade
    <3>13. \A t \in Trips : trip[t].status \in {"open", "under_way"} =>
             /\ Enabled(bus'[trip[t].bus])
             /\ bus[trip[t].bus].of # c
      BY <3>5, <3>12 DEF OpenTravelsKeepTheirs, LinksMade
    <3>14. \A t \in Trips :
             trip[t].status = "open" /\ Enabled(line[trip[t].line]) =>
               \/ Enabled(line'[trip[t].line])
               \/ \E o \in EndsOf(trip[t].line) :
                    office[o].of \in {d \in Companies : company'[d] = "disabled"}
                                       \ {bus[trip[t].bus].of}
      <4> SUFFICES ASSUME NEW t \in Trips, trip[t].status = "open",
                          Enabled(line[trip[t].line]),
                          ~Enabled(line'[trip[t].line])
                   PROVE  \E o \in EndsOf(trip[t].line) :
                            office[o].of \in
                              {d \in Companies : company'[d] = "disabled"}
                                \ {bus[trip[t].bus].of}
        OBVIOUS
      <4>1. trip[t].line \in Routelines
        BY DEF LinksMade
      <4>2. EndsOf(trip[t].line) \cap OfficesOf(c) # {}
        BY <3>6, <4>1
      <4>3. PICK o \in EndsOf(trip[t].line) : office[o].of = c
        BY <4>2 DEF OfficesOf
      <4>4. company'[c] = "disabled" /\ bus[trip[t].bus].of # c
        BY <3>1, <3>13 DEF AdminTypeOK
      <4> QED
        BY <4>3, <4>4
    <3>15. \A d \in Companies : company[d] = "disabled" => company'[d] = "disabled"
      BY <3>1 DEF AdminTypeOK
    <3>16. OpenTravelsKeepTheirs'
      BY <3>1, <3>4, <3>5, <3>6, <3>13, <3>14, <3>15, TravelsKeep
    <3> QED BY <3>3, <3>10, <3>11, <3>16
  <2>3. ASSUME NEW o \in Offices, NEW c \in Companies, CreateOffice(o, c)
        PROVE  AdminInv'
    <3>1. AdminTypeOK'
      BY <2>3 DEF CreateOffice, AdminTypeOK, OfficeRow, Status
    <3>2. LinksMade'
      BY <2>3 DEF CreateOffice, AdminTypeOK, LinksMade, MadeOffices
    <3>3. EnabledHangsFromEnabled'
      BY <2>3
         DEF CreateOffice, AdminTypeOK, LinksMade, MadeOffices,
             EnabledHangsFromEnabled
    <3>4. OpenTravelsKeepTheirs'
      <4>1. trip' = trip
        BY <2>3 DEF CreateOffice
      <4>2. \A x \in Companies : company[x] = "disabled" => company'[x] = "disabled"
        BY <2>3 DEF CreateOffice, AdminTypeOK
      <4>3. \A x \in Offices : Made(office[x]) => office'[x] = office[x]
        BY <2>3 DEF CreateOffice, AdminTypeOK
      <4>4. \A x \in Buses : Made(bus[x]) => bus'[x] = bus[x]
        BY <2>3 DEF CreateOffice, AdminTypeOK
      <4>5. \A x \in Routelines : Made(line[x]) => line'[x] = line[x]
        BY <2>3 DEF CreateOffice, AdminTypeOK
      <4> QED BY <4>1, <4>2, <4>3, <4>4, <4>5, TravelsUndisturbed
    <3> QED BY <3>1, <3>2, <3>3, <3>4
  <2>4. ASSUME NEW o \in Offices, RemoveOffice(o)
        PROVE  AdminInv'
    <3>1. /\ office' = Disabled(office, {o})
          /\ line' = Disabled(line, LinesOf({o}))
          /\ UNCHANGED <<company, owner, bus, cashier, trip>>
          /\ NoEnabledCashier(o)
          /\ LinesOf({o}) \cap HeldLines = {}
      BY <2>4 DEF RemoveOffice
    <3>2. AdminTypeOK'
      BY <3>1, DisabledOffices, DisabledRoutes DEF AdminTypeOK
    <3>3. \A r \in Routelines :
            /\ line'[r].from = line[r].from
            /\ line'[r].to = line[r].to
            /\ line'[r].status = IF o \in {line[r].from, line[r].to}
                                 THEN "disabled" ELSE line[r].status
      <4>1. \A r \in Routelines :
              r \in LinesOf({o}) <=> o \in {line[r].from, line[r].to}
        BY DEF LinesOf
      <4>2. \A r \in Routelines :
              /\ line'[r].from = line[r].from
              /\ line'[r].to = line[r].to
              /\ line'[r].status = IF r \in LinesOf({o}) THEN "disabled"
                                   ELSE line[r].status
        BY <3>1, DisabledRoutes
      <4> QED BY <4>1, <4>2
    <3>4. \A x \in Offices :
            /\ office'[x].of = office[x].of
            /\ office'[x].status = IF x = o THEN "disabled"
                                   ELSE office[x].status
      BY <3>1, DisabledOffices
    <3>5. /\ \A r \in Routelines : Made(line'[r]) <=> Made(line[r])
          /\ \A x \in Offices : Made(office'[x]) <=> Made(office[x])
      <4>1. \A r \in Routelines : o \in {line[r].from, line[r].to} => Made(line[r])
        BY NothingAssumption DEF LinksMade
      <4>2. Made(office[o])
        BY <2>4 DEF RemoveOffice
      <4> QED BY <3>3, <3>4, <4>1, <4>2
    <3>6. LinksMade'
      <4>1. MadeOffices' = MadeOffices
        BY <3>5 DEF MadeOffices
      <4> QED
        BY <3>1, <3>3, <3>5, <4>1 DEF LinksMade
    <3>7. EnabledHangsFromEnabled'
      <4>1. \A k \in Cashiers : Employed(k) =>
              Enabled(office'[cashier[k].at])
        <5>1. \A k \in Cashiers : Enabled(cashier[k]) => cashier[k].at # o
          BY <3>1 DEF NoEnabledCashier, CashiersAt
        <5>2. \A k \in Cashiers : Employed(k) =>
                cashier[k].at \in Offices /\ Enabled(office[cashier[k].at])
          BY DEF EnabledHangsFromEnabled, LinksMade, MadeOffices
        <5> QED BY <3>4, <5>1, <5>2
      <4>2. \A r \in Routelines : Enabled(line'[r]) =>
              Enabled(office'[line'[r].from]) /\ Enabled(office'[line'[r].to])
        BY <3>3, <3>4 DEF EnabledHangsFromEnabled, LinksMade, MadeOffices,
                          EndsOf
      <4> QED BY <3>1, <4>1, <4>2 DEF EnabledHangsFromEnabled, EndsOf
    <3>8. \A t \in Trips : trip[t].status = "open" =>
             line'[trip[t].line].status = line[trip[t].line].status
      <4>1. \A t \in Trips : trip[t].status = "open" =>
              /\ trip[t].line \in HeldLines
              /\ trip[t].line \in Routelines
        BY DEF HeldLines, LinksMade
      <4>2. \A r \in Routelines \cap HeldLines : o \notin {line[r].from, line[r].to}
        BY <3>1 DEF LinesOf
      <4> QED BY <3>3, <4>1, <4>2
    <3>9. \A t \in Trips : trip[t].status \in {"open", "under_way"} =>
             Enabled(bus'[trip[t].bus])
      BY <3>1 DEF OpenTravelsKeepTheirs
    <3>10. OpenTravelsKeepTheirs'
      BY <3>1, <3>3, <3>4, <3>8, <3>9, TravelsKeep
    <3> QED BY <3>2, <3>6, <3>7, <3>10
  <2>5. ASSUME NEW r \in Routelines, NEW from \in Offices,
               NEW to \in Offices, CreateRoute(r, from, to)
        PROVE  AdminInv'
    <3>1. AdminTypeOK'
      BY <2>5 DEF CreateRoute, AdminTypeOK, RouteRow, Status
    <3>2. LinksMade'
      BY <2>5 DEF CreateRoute, AdminTypeOK, LinksMade, MadeOffices
    <3>3. EnabledHangsFromEnabled'
      <4>1. /\ office' = office /\ owner' = owner /\ bus' = bus
            /\ cashier' = cashier
            /\ Enabled(office[from]) /\ Enabled(office[to])
            /\ line' \in [Routelines -> RouteRow]
            /\ line'[r].from = from /\ line'[r].to = to
            /\ \A x \in Routelines \ {r} : line'[x] = line[x]
        BY <2>5, <3>1 DEF CreateRoute, AdminTypeOK
      <4>2. \A x \in Routelines : Enabled(line'[x]) =>
              Enabled(office[line'[x].from]) /\ Enabled(office[line'[x].to])
        BY <4>1 DEF EnabledHangsFromEnabled, EndsOf
      <4> QED BY <4>1, <4>2 DEF EnabledHangsFromEnabled, EndsOf
    <3>4. OpenTravelsKeepTheirs'
      <4>1. trip' = trip
        BY <2>5 DEF CreateRoute
      <4>2. \A x \in Companies : company[x] = "disabled" => company'[x] = "disabled"
        BY <2>5 DEF CreateRoute, AdminTypeOK
      <4>3. \A x \in Offices : Made(office[x]) => office'[x] = office[x]
        BY <2>5 DEF CreateRoute, AdminTypeOK
      <4>4. \A x \in Buses : Made(bus[x]) => bus'[x] = bus[x]
        BY <2>5 DEF CreateRoute, AdminTypeOK
      <4>5. \A x \in Routelines : Made(line[x]) => line'[x] = line[x]
        BY <2>5 DEF CreateRoute, AdminTypeOK
      <4> QED BY <4>1, <4>2, <4>3, <4>4, <4>5, TravelsUndisturbed
    <3> QED BY <3>1, <3>2, <3>3, <3>4
  <2>6. ASSUME NEW r \in Routelines, RemoveRoute(r)
        PROVE  AdminInv'
    <3>1. /\ line' = Disabled(line, {r})
          /\ UNCHANGED <<company, office, owner, bus, cashier, trip>>
          /\ Made(line[r])
          /\ r \notin HeldLines
      BY <2>6 DEF RemoveRoute
    <3>2. AdminTypeOK'
      BY <3>1, DisabledRoutes DEF AdminTypeOK
    <3>3. \A x \in Routelines :
            /\ line'[x].from = line[x].from
            /\ line'[x].to = line[x].to
            /\ line'[x].status = IF x = r THEN "disabled" ELSE line[x].status
      BY <3>1, DisabledRoutes
    <3>4. LinksMade'
      <4>1. \A x \in Routelines : Made(line'[x]) <=> Made(line[x])
        BY <3>1, <3>3
      <4>2. MadeOffices' = MadeOffices
        BY <3>1 DEF MadeOffices
      <4>3. \A x \in Routelines : IF Made(line'[x])
                                  THEN /\ line'[x].from \in MadeOffices'
                                       /\ line'[x].to \in MadeOffices'
                                  ELSE line'[x].from = Nothing /\ line'[x].to = Nothing
        BY <3>3, <4>1, <4>2 DEF LinksMade
      <4>4. \A t \in Trips : Made(trip[t]) =>
              trip[t].line \in {x \in Routelines : Made(line'[x])}
        BY <4>1 DEF LinksMade
      <4>5. LinksMade
        OBVIOUS
      <4>6. UNCHANGED <<cashier, owner, bus, trip>>
        BY <3>1
      <4> HIDE <1>2 DEF Made, MadeOffices
      <4> QED BY <4>2, <4>3, <4>4, <4>5, <4>6 DEF LinksMade
    <3>5. EnabledHangsFromEnabled'
      <4>1. \A x \in Routelines : Enabled(line'[x]) =>
              /\ Enabled(line[x])
              /\ line'[x].from = line[x].from /\ line'[x].to = line[x].to
        BY <3>3
      <4>2. UNCHANGED <<office, owner, bus, cashier>>
        BY <3>1
      <4>3. EnabledHangsFromEnabled
        OBVIOUS
      <4> HIDE <1>2
      <4> QED BY <4>1, <4>2, <4>3, Zenon DEF EnabledHangsFromEnabled, EndsOf
    <3>6. \A t \in Trips : trip[t].status = "open" =>
             line'[trip[t].line].status = line[trip[t].line].status
      <4>1. \A t \in Trips : trip[t].status = "open" =>
              /\ trip[t].line \in HeldLines
              /\ trip[t].line \in Routelines
        BY DEF HeldLines, LinksMade
      <4> QED BY <3>1, <3>3, <4>1
    <3>7. \A t \in Trips : trip[t].status \in {"open", "under_way"} =>
             Enabled(bus'[trip[t].bus])
      BY <3>1 DEF OpenTravelsKeepTheirs
    <3>8. OpenTravelsKeepTheirs'
      BY <3>1, <3>3, <3>6, <3>7, TravelsKeep
    <3> QED BY <3>2, <3>4, <3>5, <3>8
  <2>7. ASSUME NEW k \in Cashiers, NEW o \in Offices,
               NEW m \in BOOLEAN, CreateCashier(k, o, m)
        PROVE  AdminInv'
    <3>1. AdminTypeOK'
      BY <2>7 DEF CreateCashier, AdminTypeOK, CashierRow, Status
    <3>2. LinksMade'
      BY <2>7 DEF CreateCashier, AdminTypeOK, LinksMade, MadeOffices
    <3>3. EnabledHangsFromEnabled'
      BY <2>7
         DEF CreateCashier, AdminTypeOK, LinksMade, MadeOffices,
             EnabledHangsFromEnabled
    <3>4. OpenTravelsKeepTheirs'
      BY <2>7, TravelsKeep
         DEF CreateCashier, AdminTypeOK, LinksMade, MadeOffices,
             EnabledHangsFromEnabled,
             OpenTravelsKeepTheirs
    <3> QED BY <3>1, <3>2, <3>3, <3>4
  <2>8. ASSUME NEW k \in Cashiers, NEW m \in BOOLEAN, UpdateCashier(k, m)
        PROVE  AdminInv'
    <3>0. [cashier[k] EXCEPT !.main = m] \in CashierRow
      BY <2>8, RowsStay DEF UpdateCashier, AdminTypeOK
    <3>1. AdminTypeOK'
      BY <2>8, <3>0 DEF UpdateCashier, AdminTypeOK
    <3>2. LinksMade'
      BY <2>8 DEF UpdateCashier, AdminTypeOK, LinksMade, MadeOffices
    <3>3. EnabledHangsFromEnabled'
      BY <2>8
         DEF UpdateCashier, AdminTypeOK, LinksMade, MadeOffices,
             EnabledHangsFromEnabled
    <3>4. OpenTravelsKeepTheirs'
      BY <2>8, TravelsKeep
         DEF UpdateCashier, AdminTypeOK, LinksMade, MadeOffices,
             EnabledHangsFromEnabled,
             OpenTravelsKeepTheirs
    <3> QED BY <3>1, <3>2, <3>3, <3>4
  <2>9. ASSUME NEW k \in Cashiers, NEW o \in Offices, MoveCashier(k, o)
        PROVE  AdminInv'
    <3>0. [cashier[k] EXCEPT !.at = o] \in CashierRow
      BY <2>9, RowsStay DEF MoveCashier, AdminTypeOK
    <3>1. AdminTypeOK'
      BY <2>9, <3>0 DEF MoveCashier, AdminTypeOK
    <3>2. LinksMade'
      BY <2>9 DEF MoveCashier, AdminTypeOK, LinksMade, MadeOffices
    <3>3. EnabledHangsFromEnabled'
      BY <2>9
         DEF MoveCashier, AdminTypeOK, LinksMade, MadeOffices,
             EnabledHangsFromEnabled
    <3>4. OpenTravelsKeepTheirs'
      BY <2>9, TravelsKeep
         DEF MoveCashier, AdminTypeOK, LinksMade, MadeOffices,
             EnabledHangsFromEnabled,
             OpenTravelsKeepTheirs
    <3> QED BY <3>1, <3>2, <3>3, <3>4
  <2>10. ASSUME NEW k \in Cashiers, RemoveCashier(k)
        PROVE  AdminInv'
    <3>1. /\ cashier' = Disabled(cashier, {k})
          /\ UNCHANGED <<company, office, owner, bus, line, trip>>
          /\ Made(cashier[k])
      BY <2>10 DEF RemoveCashier
    <3>2. AdminTypeOK'
      BY <3>1, DisabledCashiers DEF AdminTypeOK
    <3>3. \A x \in Cashiers : /\ cashier'[x].at = cashier[x].at
                              /\ Made(cashier'[x]) <=> Made(cashier[x])
                              /\ Enabled(cashier'[x]) => Enabled(cashier[x])
      BY <3>1, DisabledCashiers
    <3>4. LinksMade'
      BY <3>1, <3>3 DEF LinksMade, MadeOffices
    <3>5. EnabledHangsFromEnabled'
      BY <3>1, <3>3 DEF EnabledHangsFromEnabled
    <3>6. OpenTravelsKeepTheirs'
      BY <3>1 DEF OpenTravelsKeepTheirs
    <3> QED BY <3>2, <3>4, <3>5, <3>6
  <2>11. ASSUME NEW w \in Owners, NEW c \in Companies, CreateOwner(w, c)
        PROVE  AdminInv'
    <3>1. AdminTypeOK'
      BY <2>11 DEF CreateOwner, AdminTypeOK, OwnerRow, Status
    <3>2. LinksMade'
      BY <2>11 DEF CreateOwner, AdminTypeOK, LinksMade, MadeOffices
    <3>3. EnabledHangsFromEnabled'
      BY <2>11
         DEF CreateOwner, AdminTypeOK, LinksMade, MadeOffices,
             EnabledHangsFromEnabled
    <3>4. OpenTravelsKeepTheirs'
      BY <2>11, TravelsKeep
         DEF CreateOwner, AdminTypeOK, LinksMade, MadeOffices,
             EnabledHangsFromEnabled,
             OpenTravelsKeepTheirs
    <3> QED BY <3>1, <3>2, <3>3, <3>4
  <2>12. ASSUME NEW w \in Owners, ReviveOwner(w)
        PROVE  AdminInv'
    <3>0. [owner[w] EXCEPT !.status = "enabled", !.link = TRUE] \in OwnerRow
      BY <2>12, RowsStay DEF ReviveOwner, AdminTypeOK
    <3>1. AdminTypeOK'
      BY <2>12, <3>0 DEF ReviveOwner, AdminTypeOK
    <3>2. LinksMade'
      BY <2>12 DEF ReviveOwner, AdminTypeOK, LinksMade, MadeOffices
    <3>3. EnabledHangsFromEnabled'
      BY <2>12
         DEF ReviveOwner, AdminTypeOK, LinksMade, MadeOffices,
             EnabledHangsFromEnabled
    <3>4. OpenTravelsKeepTheirs'
      BY <2>12, TravelsKeep
         DEF ReviveOwner, AdminTypeOK, LinksMade, MadeOffices,
             EnabledHangsFromEnabled,
             OpenTravelsKeepTheirs
    <3> QED BY <3>1, <3>2, <3>3, <3>4
  <2>13. ASSUME NEW w \in Owners, RemoveOwner(w)
        PROVE  AdminInv'
    <3>0. [owner[w] EXCEPT !.status = "disabled", !.link = FALSE, !.user = FALSE]
            \in OwnerRow
      BY <2>13, RowsStay DEF RemoveOwner, AdminTypeOK
    <3>1. AdminTypeOK'
      BY <2>13, <3>0 DEF RemoveOwner, AdminTypeOK
    <3>2. LinksMade'
      BY <2>13
         DEF RemoveOwner, AdminTypeOK, LinksMade, MadeOffices, NoEnabledBus
    <3>3. EnabledHangsFromEnabled'
      BY <2>13
         DEF RemoveOwner, AdminTypeOK, LinksMade, MadeOffices,
             EnabledHangsFromEnabled, NoEnabledBus
    <3>4. OpenTravelsKeepTheirs'
      BY <2>13, TravelsKeep
         DEF RemoveOwner, AdminTypeOK, LinksMade, MadeOffices,
             EnabledHangsFromEnabled,
             OpenTravelsKeepTheirs, NoEnabledBus
    <3> QED BY <3>1, <3>2, <3>3, <3>4
  <2>14. ASSUME NEW b \in Buses, NEW w \in Owners, CreateBus(b, w)
        PROVE  AdminInv'
    <3>1. AdminTypeOK'
      BY <2>14 DEF CreateBus, AdminTypeOK, BusRow, OwnerRow, Status
    <3>2. LinksMade'
      BY <2>14 DEF CreateBus, AdminTypeOK, LinksMade, MadeOffices
    <3>3. EnabledHangsFromEnabled'
      <4>1. /\ office' = office /\ owner' = owner /\ line' = line
            /\ cashier' = cashier
            /\ Enabled(owner[w]) /\ owner[w].link
            /\ bus'[b].of = owner[w].of /\ bus'[b].owner = w
            /\ \A x \in Buses \ {b} : bus'[x] = bus[x]
        BY <2>14 DEF CreateBus, AdminTypeOK
      <4>2. \A x \in Buses : Enabled(bus'[x]) =>
              /\ Enabled(owner[bus'[x].owner])
              /\ owner[bus'[x].owner].link
              /\ owner[bus'[x].owner].of = bus'[x].of
        BY <4>1 DEF EnabledHangsFromEnabled
      <4> QED BY <4>1, <4>2 DEF EnabledHangsFromEnabled, EndsOf
    <3>4. OpenTravelsKeepTheirs'
      <4>1. trip' = trip
        BY <2>14 DEF CreateBus
      <4>2. \A x \in Companies : company[x] = "disabled" => company'[x] = "disabled"
        BY <2>14 DEF CreateBus, AdminTypeOK
      <4>3. \A x \in Offices : Made(office[x]) => office'[x] = office[x]
        BY <2>14 DEF CreateBus, AdminTypeOK
      <4>4. \A x \in Buses : Made(bus[x]) => bus'[x] = bus[x]
        BY <2>14 DEF CreateBus, AdminTypeOK
      <4>5. \A x \in Routelines : Made(line[x]) => line'[x] = line[x]
        BY <2>14 DEF CreateBus, AdminTypeOK
      <4> QED BY <4>1, <4>2, <4>3, <4>4, <4>5, TravelsUndisturbed
    <3> QED BY <3>1, <3>2, <3>3, <3>4
  <2>15. ASSUME NEW b \in Buses, RemoveBus(b)
        PROVE  AdminInv'
    <3>1. /\ bus' = Disabled(bus, {b})
          /\ UNCHANGED <<company, office, owner, cashier, line, trip>>
          /\ Made(bus[b])
          /\ b \notin HeldBuses
      BY <2>15 DEF RemoveBus
    <3>2. AdminTypeOK'
      BY <3>1, DisabledBuses DEF AdminTypeOK
    <3>3. \A x \in Buses : /\ bus'[x].of = bus[x].of
                           /\ bus'[x].owner = bus[x].owner
                           /\ Made(bus'[x]) <=> Made(bus[x])
                           /\ Enabled(bus'[x]) => Enabled(bus[x])
      BY <3>1, DisabledBuses
    <3>4. LinksMade'
      <4>1. MadeOffices' = MadeOffices
        BY <3>1 DEF MadeOffices
      <4>2. {x \in Buses : Made(bus'[x])} = {x \in Buses : Made(bus[x])}
        BY <3>3
      <4>3. \A x \in Buses : IF Made(bus'[x])
                              THEN bus'[x].owner \in {w \in Owners : Made(owner[w])}
                              ELSE bus'[x].of = Nothing
        BY <3>3 DEF LinksMade
      <4> HIDE DEF Made, MadeOffices
      <4> QED BY <3>1, <4>1, <4>2, <4>3 DEF LinksMade
    <3>5. EnabledHangsFromEnabled'
      BY <3>1, <3>3 DEF EnabledHangsFromEnabled
    <3>6. \A t \in Trips : trip[t].status \in {"open", "under_way"} =>
                             Enabled(bus'[trip[t].bus])
      <4>1. \A x \in Buses \ {b} : bus'[x].status = bus[x].status
        BY <3>1, DisabledBuses
      <4> QED
        <5>1. \A t \in Trips : trip[t].status \in {"open", "under_way"} =>
                /\ trip[t].bus \in HeldBuses
                /\ trip[t].bus \in Buses
                /\ Enabled(bus[trip[t].bus])
          BY DEF HeldBuses, LinksMade, OpenTravelsKeepTheirs
        <5> QED BY <3>1, <4>1, <5>1
    <3>7. OpenTravelsKeepTheirs'
      BY <3>1, <3>3, <3>6, TravelsKeep
    <3> QED BY <3>2, <3>4, <3>5, <3>7
  <2>16. ASSUME NEW t \in Trips, NEW b \in Buses,
               NEW r \in Routelines, NEW k \in Cashiers, CreateTrip(t, b, r, k)
        PROVE  AdminInv'
    <3>1. AdminTypeOK'
      BY <2>16 DEF CreateTrip, AdminTypeOK, TripRow, Status
    <3>2. LinksMade'
      BY <2>16 DEF CreateTrip, AdminTypeOK, LinksMade, MadeOffices
    <3>3. EnabledHangsFromEnabled'
      BY <2>16
         DEF CreateTrip, AdminTypeOK, LinksMade, MadeOffices,
             EnabledHangsFromEnabled
    <3>4. OpenTravelsKeepTheirs'
      <4>1. /\ UNCHANGED <<company, office, owner, bus, cashier, line>>
            /\ Enabled(bus[b]) /\ Enabled(line[r])
            /\ trip'[t].bus = b /\ trip'[t].line = r
            /\ \A u \in Trips : u # t => trip'[u] = trip[u]
        BY <2>16 DEF CreateTrip, AdminTypeOK
      <4> HIDE <1>2
      <4>2. OpenTravelsKeepTheirs
        BY <1>2
      <4>3. ASSUME NEW u \in Trips
            PROVE  /\ trip'[u].status \in {"open", "under_way"} =>
                        Enabled(bus[trip'[u].bus])
                   /\ trip'[u].status = "open" =>
                        \/ Enabled(line[trip'[u].line])
                        \/ \E o \in EndsOf(trip'[u].line) :
                             office[o].of \in
                               {c \in Companies : company[c] = "disabled"}
                                 \ {bus[trip'[u].bus].of}
        <5>1. CASE u = t
          BY <4>1, <5>1
        <5>2. CASE u # t
          <6>1. trip'[u] = trip[u]
            BY <4>1, <5>2
          <6> QED
            BY <4>2, <6>1 DEF OpenTravelsKeepTheirs
        <5> QED
          BY <5>1, <5>2
      <4> QED
        BY <4>1, <4>3 DEF OpenTravelsKeepTheirs
    <3> QED BY <3>1, <3>2, <3>3, <3>4
  <2>17. ASSUME NEW t \in Trips,
               NEW s \in {"under_way", "cancelled", "over"}, EndTrip(t, s)
        PROVE  AdminInv'
    BY <2>17, TripMoved DEF EndTrip
  <2>18. ASSUME NEW t \in Trips, Arrive(t)
        PROVE  AdminInv'
    BY <2>18, TripMoved DEF Arrive
  <2>19. CASE UNCHANGED adminVars
    <3> USE <2>19 DEF adminVars
    <3>1. AdminTypeOK' /\ EnabledHangsFromEnabled'
      BY DEF AdminTypeOK, EnabledHangsFromEnabled
    <3>2. MadeOffices' = MadeOffices
      BY DEF MadeOffices
    <3>3. LinksMade'
      BY <3>2 DEF LinksMade
    <3>4. OpenTravelsKeepTheirs'
      BY DEF OpenTravelsKeepTheirs
    <3> QED
      BY <3>1, <3>3, <3>4
  <2>20. ASSUME NEW k \in Cashiers, NEW m \in BOOLEAN, CreateAppAdmin(k, m)
        PROVE  AdminInv'
    <3>1. AdminTypeOK'
      BY <2>20 DEF CreateAppAdmin, AdminTypeOK, CashierRow, Status
    <3>2. LinksMade'
      BY <2>20 DEF CreateAppAdmin, AdminTypeOK, LinksMade, MadeOffices
    <3>3. EnabledHangsFromEnabled'
      BY <2>20 DEF CreateAppAdmin, AdminTypeOK, EnabledHangsFromEnabled
    <3>4. OpenTravelsKeepTheirs'
      BY <2>20 DEF CreateAppAdmin, OpenTravelsKeepTheirs
    <3> QED BY <3>1, <3>2, <3>3, <3>4
  <2> QED
    BY <2>1, <2>2, <2>3, <2>4, <2>5, <2>6, <2>7, <2>8, <2>9, <2>10, <2>11,
       <2>12, <2>13, <2>14, <2>15, <2>16, <2>17, <2>18, <2>19, <2>20
       DEF AdminNext
<1> QED BY <1>1, <1>2, PTL DEF AdminSpec

\* No order of creating, moving, disabling and reviving leaves an enabled row
\* under a disabled one (the creates and removes of five services).
THEOREM EnabledRowsHang == AdminSpec => []EnabledHangsFromEnabled
BY AdministrationInvariant, PTL DEF AdminInv

\* A travel that is not over keeps its bus, and an open one its route unless
\* another company was removed (the removes of five services).
THEOREM OpenTravelsAreKept == AdminSpec => []OpenTravelsKeepTheirs
BY AdministrationInvariant, PTL DEF AdminInv

=============================================================================

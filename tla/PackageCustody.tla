--------------------------- MODULE PackageCustody ---------------------------
(***************************************************************************)
(* What the closing route promises about documentation packages: who holds *)
(* each of them, and that nobody but PTO ever holds content the customer   *)
(* has not seen.  No tables, versions or roles: SdoClosing implements this *)
(* (its FollowsCustody).  Packages move independently of each other.       *)
(***************************************************************************)

CONSTANT Packages

VARIABLES
  holder,   \* who a package is with, and why
  content,  \* what a package contains, an opaque value
  shown,    \* the content last put before the customer
  agreed    \* the content the customer accepted last

vars == <<holder, content, shown, agreed>>

Init ==
  /\ holder = [p \in Packages |-> "PTO"]
  /\ shown = content
  /\ agreed = content

\* PTO alone changes the content.
Prepare(p) ==
  /\ holder[p] = "PTO" /\ holder'[p] = "PTO"
  /\ shown'[p] = shown[p] /\ agreed'[p] = agreed[p]

\* The package changes hands as it is.
Pass(p, from, to) ==
  /\ holder[p] = from /\ holder'[p] = to
  /\ content'[p] = content[p]

Present(p) ==
  /\ Pass(p, "PTO", "CUSTOMER")
  /\ shown'[p] = content[p] /\ agreed'[p] = agreed[p]

Accept(p) ==
  /\ Pass(p, "CUSTOMER", "ACCEPTED")
  /\ agreed'[p] = content[p] /\ shown'[p] = shown[p]

\* Refused by the customer, taken back by PTO or given back by SDO, handed
\* over, closed and reopened: nothing but the holder changes.
HandOn(p) ==
  /\ \E move \in {<<"CUSTOMER", "RETURNED">>, <<"RETURNED", "PTO">>,
                  <<"ACCEPTED", "PTO">>, <<"ACCEPTED", "SDO">>, <<"SDO", "PTO">>,
                  <<"SDO", "CLOSED">>, <<"CLOSED", "SDO">>} :
       Pass(p, move[1], move[2])
  /\ shown'[p] = shown[p] /\ agreed'[p] = agreed[p]

\* Another package moves.
Rest(p) ==
  /\ holder'[p] = holder[p] /\ content'[p] = content[p]
  /\ shown'[p] = shown[p] /\ agreed'[p] = agreed[p]

Next == \A p \in Packages : Prepare(p) \/ Present(p) \/ Accept(p) \/ HandOn(p) \/ Rest(p)

Spec == Init /\ [][Next]_vars
=============================================================================
